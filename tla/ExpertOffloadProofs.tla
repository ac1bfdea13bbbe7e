------------------------- MODULE ExpertOffloadProofs -------------------------
(***************************************************************************)
(* The two paths that move expert weights (ExpertOffload), for any number  *)
(* of layers, experts, slots and forwards, wherever a call fails and       *)
(* however far the device is behind the host.                              *)
(*                                                                         *)
(* On the prefetched path the queues are unbounded, so the invariant       *)
(* (PrefetchInv) is about every queued call: what follows it (Follows),    *)
(* and, for a multiplication whose output somebody will use (Live), the    *)
(* copy that fills its slot (Own) and the event that keeps any later copy  *)
(* into that slot behind it (Guarded).                                     *)
(*                                                                         *)
(* On the bounded path the host waits for its events, so the invariant     *)
(* (SlotsInv) says what may still be queued where it stands (ViewOf,       *)
(* SlotsBase), and that the LRU index, slot_expert and what the forward    *)
(* has placed so far agree (BookOf, StepOf).                               *)
(***************************************************************************)
EXTENDS ExpertOffload, SequenceTheorems, FiniteSetTheorems, WellFoundedInduction, TLAPS

(***************************************************************************)
(* Buffers, calls and what issuing them does                               *)
(***************************************************************************)
Calls ==
  [do : {"copy", "accumulate"}, on : Streams, to : Buffers, terms : SUBSET (Int \X Buffers)]
    \cup [do : {"record", "wait"}, event : Events, number : Nat]

(* The device's state has the form of HipStreams.                          *)
Typed(g) ==
  /\ g = [memory |-> g.memory, queue |-> g.queue, seen |-> g.seen,
          recorded |-> g.recorded, completed |-> g.completed]
  /\ DOMAIN g.memory = Buffers /\ DOMAIN g.seen = Streams
  /\ g.queue \in [Streams -> Seq(Calls)]
  /\ g.recorded \in [Events -> Nat] /\ g.completed \in [Events -> Nat]
  /\ \A e \in Events : g.completed[e] <= g.recorded[e]

(* The experts, slots and forwards are numbered.                           *)
LEMMA Numbers ==
  /\ Cardinality(Weights) \in Nat /\ Weights = 0 .. Cardinality(Weights) - 1 /\ Weights \subseteq Nat
  /\ Cardinality(Slots) \in Nat /\ Slots = 0 .. Cardinality(Slots) - 1
  /\ {0, 1} \subseteq Slots /\ MaxForwards \in Nat
<1>1. Cardinality(Weights) \in Nat /\ Cardinality(Slots) \in Nat
  BY StreamsAssumption, FS_CardinalityType
<1> QED BY <1>1, StreamsAssumption

(* The buffers are there, and different.                                   *)
LEMMA BufferFacts ==
  /\ x \in Buffers /\ xh \in Buffers /\ embed \in Buffers
  /\ \A k \in Weights : <<"staged", k>> \in Buffers
  /\ \A s \in Slots : <<"slot", s>> \in Buffers
  /\ \A f \in 1 .. MaxForwards : <<"out", f>> \in Buffers
  /\ x # xh /\ x # embed /\ xh # embed
  /\ \A k : <<"staged", k>> \notin {x, xh, embed}
  /\ \A s : <<"slot", s>> \notin {x, xh, embed}
  /\ \A f : <<"out", f>> \notin {x, xh, embed}
  /\ \A s, k : <<"slot", s>> # <<"staged", k>> /\ <<"slot", s>> # <<"out", k>> /\ <<"staged", s>> # <<"out", k>>
  /\ \A s, k : (<<"slot", s>> = <<"slot", k>> => s = k) /\ (<<"out", s>> = <<"out", k>> => s = k)
               /\ (<<"staged", s>> = <<"staged", k>> => s = k)
BY DEF Buffers, x, xh, embed

LEMMA EventFacts ==
  /\ \A k \in Weights : <<"prefetch", k>> \in Events /\ <<"computed", k>> \in Events
  /\ <<"router_done", 0>> \in Events /\ <<"part_done", 0>> \in Events
  /\ <<"router_done", 0>> # <<"part_done", 0>>
  /\ \A k, l : <<"prefetch", k>> # <<"computed", l>>
  /\ \A k, l : (<<"prefetch", k>> = <<"prefetch", l>> => k = l) /\ (<<"computed", k>> = <<"computed", l>> => k = l)
BY DEF Events

(* A call that moves data, issued.                                         *)
LEMMA IssueMove ==
  ASSUME NEW g, Typed(g), NEW c \in Calls, c.do \in {"copy", "accumulate"}, c.on \in Streams
  PROVE  /\ Typed(Issue(g, c))
         /\ Issue(g, c).memory = g.memory /\ Issue(g, c).seen = g.seen
         /\ Issue(g, c).recorded = g.recorded /\ Issue(g, c).completed = g.completed
         /\ Issue(g, c).queue[c.on] = Append(g.queue[c.on], c)
         /\ \A s \in Streams : s # c.on => Issue(g, c).queue[s] = g.queue[s]
<1> DEFINE q == [g.queue EXCEPT ![c.on] = Append(g.queue[c.on], c)]
<1>1. Issue(g, c) = [g EXCEPT !.queue[c.on] = Append(g.queue[c.on], c)]
  BY DEF Issue
<1>2. Issue(g, c) = [memory |-> g.memory, queue |-> q, seen |-> g.seen,
                     recorded |-> g.recorded, completed |-> g.completed]
  BY <1>1 DEF Typed
<1>3. q \in [Streams -> Seq(Calls)] /\ q[c.on] = Append(g.queue[c.on], c)
      /\ \A s \in Streams : s # c.on => q[s] = g.queue[s]
  BY DEF Typed
<1> HIDE DEF q
<1> QED BY <1>2, <1>3 DEF Typed, q

(* A record as it is queued has the event's next number, a wait its last.  *)
Numbering(g, e) == [do |-> "record", event |-> e, number |-> g.recorded[e] + 1]
Awaiting(g, e)  == [do |-> "wait", event |-> e, number |-> g.recorded[e]]

(* A record, issued.                                                       *)
LEMMA IssueRecord ==
  ASSUME NEW g, Typed(g), NEW s \in Streams, NEW e \in Events
  PROVE  LET h == Issue(g, Record(s, e))
             r == Numbering(g, e)
         IN  /\ Typed(h) /\ r \in Calls
             /\ h.memory = g.memory /\ h.seen = g.seen /\ h.completed = g.completed
             /\ h.recorded[e] = g.recorded[e] + 1
             /\ \A d \in Events : d # e => h.recorded[d] = g.recorded[d]
             /\ h.queue[s] = Append(g.queue[s], r)
             /\ \A t \in Streams : t # s => h.queue[t] = g.queue[t]
<1> DEFINE h == Issue(g, Record(s, e))
           r == Numbering(g, e)
           q == [g.queue EXCEPT ![s] = Append(g.queue[s], r)]
           n == [g.recorded EXCEPT ![e] = g.recorded[e] + 1]
<1>1. h = [g EXCEPT !.recorded[e] = g.recorded[e] + 1, !.queue[s] = Append(g.queue[s], r)]
  BY DEF Issue, Record, Numbering
<1>2. h = [memory |-> g.memory, queue |-> q, seen |-> g.seen, recorded |-> n, completed |-> g.completed]
  BY <1>1 DEF Typed
<1>3. r \in Calls
  BY DEF Typed, Calls, Numbering
<1>4. q \in [Streams -> Seq(Calls)] /\ q[s] = Append(g.queue[s], r)
      /\ \A t \in Streams : t # s => q[t] = g.queue[t]
  BY <1>3 DEF Typed
<1>5. n \in [Events -> Nat] /\ n[e] = g.recorded[e] + 1
      /\ \A d \in Events : d # e => n[d] = g.recorded[d]
  BY DEF Typed
<1>6. \A d \in Events : g.completed[d] <= n[d]
  BY <1>5 DEF Typed
<1> HIDE DEF q, n, h, r
<1> QED BY <1>2, <1>3, <1>4, <1>5, <1>6 DEF Typed, q, n, h, r

(* A wait, issued.                                                         *)
LEMMA IssueWait ==
  ASSUME NEW g, Typed(g), NEW s \in Streams, NEW e \in Events
  PROVE  LET h == Issue(g, Wait(s, e))
             w == Awaiting(g, e)
         IN  /\ Typed(h) /\ w \in Calls
             /\ h.memory = g.memory /\ h.seen = g.seen /\ h.completed = g.completed
             /\ h.recorded = g.recorded
             /\ h.queue[s] = Append(g.queue[s], w)
             /\ \A t \in Streams : t # s => h.queue[t] = g.queue[t]
<1> DEFINE h == Issue(g, Wait(s, e))
           w == Awaiting(g, e)
           q == [g.queue EXCEPT ![s] = Append(g.queue[s], w)]
<1>1. h = [g EXCEPT !.queue[s] = Append(g.queue[s], w)]
  BY DEF Issue, Wait, Awaiting
<1>2. h = [memory |-> g.memory, queue |-> q, seen |-> g.seen, recorded |-> g.recorded,
           completed |-> g.completed]
  BY <1>1 DEF Typed
<1>3. w \in Calls
  BY DEF Typed, Calls, Awaiting
<1>4. q \in [Streams -> Seq(Calls)] /\ q[s] = Append(g.queue[s], w)
      /\ \A t \in Streams : t # s => q[t] = g.queue[t]
  BY <1>3 DEF Typed
<1> HIDE DEF q, h, w
<1> QED BY <1>2, <1>3, <1>4 DEF Typed, q, h, w

(* The states between the calls of a list.                                 *)
Issuing(g, calls, n, a) == a = [i \in 0 .. n |-> IF i = 0 THEN g ELSE Issue(a[i - 1], calls[i])]

LEMMA IssuingExists ==
  ASSUME NEW g, NEW calls, NEW n \in 0 .. 5
  PROVE  \E a : Issuing(g, calls, n, a)
<1> DEFINE b(i) == IF i = 0 THEN g
                   ELSE IF i = 1 THEN Issue(g, calls[1])
                   ELSE IF i = 2 THEN Issue(Issue(g, calls[1]), calls[2])
                   ELSE IF i = 3 THEN Issue(Issue(Issue(g, calls[1]), calls[2]), calls[3])
                   ELSE IF i = 4 THEN Issue(Issue(Issue(Issue(g, calls[1]), calls[2]), calls[3]), calls[4])
                   ELSE Issue(Issue(Issue(Issue(Issue(g, calls[1]), calls[2]), calls[3]), calls[4]), calls[5])
           a == [i \in 0 .. n |-> b(i)]
<1>1. ASSUME NEW i \in 0 .. n PROVE a[i] = IF i = 0 THEN g ELSE Issue(a[i - 1], calls[i])
  <2>1. i = 0 \/ i = 1 \/ i = 2 \/ i = 3 \/ i = 4 \/ i = 5
    OBVIOUS
  <2>2. i # 0 => i - 1 \in 0 .. n /\ a[i - 1] = b(i - 1)
    OBVIOUS
  <2> HIDE DEF a
  <2>3. a[i] = b(i)
    BY DEF a
  <2>4. i # 0 => b(i) = Issue(b(i - 1), calls[i])
    BY <2>1
  <2> QED BY <2>2, <2>3, <2>4
<1> HIDE DEF a
<1>2. a = [i \in 0 .. n |-> IF i = 0 THEN g ELSE Issue(a[i - 1], calls[i])]
  BY <1>1 DEF a
<1> QED BY <1>2 DEF Issuing

(* A list of calls is issued one after the other.                          *)
LEMMA IssueSteps ==
  ASSUME NEW l
  PROVE  /\ Len(l) = 0 => IssueAll(l) = gpu
         /\ Len(l) = 1 => IssueAll(l) = Issue(gpu, l[1])
         /\ Len(l) = 2 => IssueAll(l) = Issue(Issue(gpu, l[1]), l[2])
         /\ Len(l) = 3 => IssueAll(l) = Issue(Issue(Issue(gpu, l[1]), l[2]), l[3])
         /\ Len(l) = 4 => IssueAll(l) = Issue(Issue(Issue(Issue(gpu, l[1]), l[2]), l[3]), l[4])
         /\ Len(l) = 5 => IssueAll(l) = Issue(Issue(Issue(Issue(Issue(gpu, l[1]), l[2]), l[3]), l[4]), l[5])
<1> SUFFICES ASSUME Len(l) \in 0 .. 5
             PROVE  /\ Len(l) = 0 => IssueAll(l) = gpu
                    /\ Len(l) = 1 => IssueAll(l) = Issue(gpu, l[1])
                    /\ Len(l) = 2 => IssueAll(l) = Issue(Issue(gpu, l[1]), l[2])
                    /\ Len(l) = 3 => IssueAll(l) = Issue(Issue(Issue(gpu, l[1]), l[2]), l[3])
                    /\ Len(l) = 4 => IssueAll(l) = Issue(Issue(Issue(Issue(gpu, l[1]), l[2]), l[3]), l[4])
                    /\ Len(l) = 5 => IssueAll(l) = Issue(Issue(Issue(Issue(Issue(gpu, l[1]), l[2]), l[3]), l[4]), l[5])
  OBVIOUS
<1>1. PICK a : /\ IssueAll(l) = a[Len(l)] /\ a[0] = gpu
               /\ \A i \in 1 .. Len(l) : a[i] = Issue(a[i - 1], l[i])
  <2> DEFINE a == CHOOSE a : Issuing(gpu, l, Len(l), a)
  <2>1. Issuing(gpu, l, Len(l), a)
    BY IssuingExists
  <2>2. IssueAll(l) = a[Len(l)]
    BY DEF IssueAll, Issuing
  <2> HIDE DEF a
  <2>3. a[0] = gpu /\ \A i \in 1 .. Len(l) : a[i] = Issue(a[i - 1], l[i])
    BY <2>1 DEF Issuing
  <2> QED BY <2>2, <2>3
<1>2. Len(l) >= 1 => a[1] = Issue(gpu, l[1])
  BY <1>1
<1>3. Len(l) >= 2 => a[2] = Issue(Issue(gpu, l[1]), l[2])
  BY <1>1, <1>2
<1>4. Len(l) >= 3 => a[3] = Issue(Issue(Issue(gpu, l[1]), l[2]), l[3])
  BY <1>1, <1>3
<1>5. Len(l) >= 4 => a[4] = Issue(Issue(Issue(Issue(gpu, l[1]), l[2]), l[3]), l[4])
  BY <1>1, <1>4
<1>6. Len(l) >= 5 => a[5] = Issue(Issue(Issue(Issue(Issue(gpu, l[1]), l[2]), l[3]), l[4]), l[5])
  BY <1>1, <1>5
<1> QED BY <1>1, <1>2, <1>3, <1>4, <1>5, <1>6, SMTT(40)

(* Sequences of a few calls.                                               *)
LEMMA ConcatNone == ASSUME NEW c1, NEW c2 PROVE <<>> \o <<c1, c2>> = <<c1, c2>>
<1>1. <<c1, c2>> \in Seq({c1, c2})
  OBVIOUS
<1> QED BY <1>1, ConcatEmptySeq

LEMMA ConcatOne == ASSUME NEW c1 PROVE <<c1>> \o <<>> = <<c1>>
<1>1. <<c1>> \in Seq({c1})
  OBVIOUS
<1> QED BY <1>1, ConcatEmptySeq

LEMMA ConcatThree ==
  ASSUME NEW c1, NEW c2, NEW c3 PROVE <<c1>> \o <<c2, c3>> = <<c1, c2, c3>>
<1> DEFINE S == {c1, c2, c3}
           s == <<c1>>
           u == <<c2, c3>>
           w == <<c1, c2, c3>>
           r == s \o u
<1>1. c1 \in S /\ c2 \in S /\ c3 \in S
  OBVIOUS
<1> HIDE DEF S
<1>2. s \in Seq(S) /\ u \in Seq(S) /\ w \in Seq(S)
  BY <1>1
<1>3. Len(s) = 1 /\ s[1] = c1
  OBVIOUS
<1>4. Len(u) = 2 /\ u[1] = c2 /\ u[2] = c3
  OBVIOUS
<1>5. Len(w) = 3 /\ w[1] = c1 /\ w[2] = c2 /\ w[3] = c3
  OBVIOUS
<1> HIDE DEF s, u, w
<1>6. /\ r \in Seq(S) /\ Len(r) = Len(s) + Len(u)
      /\ \A i \in 1 .. Len(s) + Len(u) : r[i] = IF i <= Len(s) THEN s[i] ELSE u[i - Len(s)]
  BY <1>2, ConcatProperties
<1> HIDE DEF r
<1>7. Len(r) = 3 /\ r[1] = c1 /\ r[2] = c2 /\ r[3] = c3
  BY <1>3, <1>4, <1>6
<1>8. \A i \in 1 .. 3 : r[i] = w[i]
  BY <1>5, <1>7
<1>9. r = w
  BY <1>2, <1>5, <1>6, <1>7, <1>8, SeqEqual
<1> QED BY <1>9 DEF r, s, u, w

LEMMA ConcatFour ==
  ASSUME NEW c1, NEW c2, NEW c3, NEW c4 PROVE <<c1>> \o <<c2, c3, c4>> = <<c1, c2, c3, c4>>
<1> DEFINE S == {c1, c2, c3, c4}
           s == <<c1>>
           u == <<c2, c3, c4>>
           w == <<c1, c2, c3, c4>>
           r == s \o u
<1>1. c1 \in S /\ c2 \in S /\ c3 \in S /\ c4 \in S
  OBVIOUS
<1> HIDE DEF S
<1>2. s \in Seq(S) /\ u \in Seq(S) /\ w \in Seq(S)
  BY <1>1
<1>3. Len(s) = 1 /\ s[1] = c1
  OBVIOUS
<1>4. Len(u) = 3 /\ u[1] = c2 /\ u[2] = c3 /\ u[3] = c4
  OBVIOUS
<1>5. Len(w) = 4 /\ w[1] = c1 /\ w[2] = c2 /\ w[3] = c3 /\ w[4] = c4
  OBVIOUS
<1> HIDE DEF s, u, w
<1>6. /\ r \in Seq(S) /\ Len(r) = Len(s) + Len(u)
      /\ \A i \in 1 .. Len(s) + Len(u) : r[i] = IF i <= Len(s) THEN s[i] ELSE u[i - Len(s)]
  BY <1>2, ConcatProperties
<1> HIDE DEF r
<1>7. Len(r) = 4 /\ r[1] = c1 /\ r[2] = c2 /\ r[3] = c3 /\ r[4] = c4
  BY <1>3, <1>4, <1>6
<1>8. \A i \in 1 .. 4 : r[i] = w[i]
  BY <1>5, <1>7
<1>9. r = w
  BY <1>2, <1>5, <1>6, <1>7, <1>8, SeqEqual
<1> QED BY <1>9 DEF r, s, u, w

LEMMA SubLists ==
  ASSUME NEW l, NEW k \in Nat, Len(l) = k, NEW n \in 0 .. k - 1
  PROVE  Len(SubSeq(l, 1, n)) = n /\ \A i \in 1 .. n : SubSeq(l, 1, n)[i] = l[i]
<1> DEFINE S == {l[i] : i \in 1 .. n}
<1>1. \A i \in 1 .. n : l[i] \in S
  OBVIOUS
<1> HIDE DEF S
<1>2. Len(SubSeq(l, 1, n)) = IF 1 <= n THEN n - 1 + 1 ELSE 0
  BY <1>1, SubSeqProperties, n \in Int, 1 \in Int
<1>3. \A i \in 1 .. n - 1 + 1 : SubSeq(l, 1, n)[i] = l[1 + i - 1]
  BY <1>1, SubSeqProperties, n \in Int, 1 \in Int
<1> QED BY <1>2, <1>3

(* The failure of a call leaves those before it.                           *)
LEMMA IssueFirst ==
  ASSUME NEW l, NEW k \in Nat, Len(l) = k, NEW n \in 0 .. 3, n < k
  PROVE  /\ n = 0 => IssueAll(SubSeq(l, 1, n)) = gpu
         /\ n = 1 => IssueAll(SubSeq(l, 1, n)) = Issue(gpu, l[1])
         /\ n = 2 => IssueAll(SubSeq(l, 1, n)) = Issue(Issue(gpu, l[1]), l[2])
         /\ n = 3 => IssueAll(SubSeq(l, 1, n)) = Issue(Issue(Issue(gpu, l[1]), l[2]), l[3])
<1> DEFINE m == SubSeq(l, 1, n)
<1>1. Len(m) = n /\ \A i \in 1 .. n : m[i] = l[i]
  BY SubLists
<1> HIDE DEF m
<1>2. CASE n = 0
  <2>1. IssueAll(m) = gpu
    BY <1>1, <1>2, IssueSteps
  <2> QED BY <1>2, <2>1 DEF m
<1>3. CASE n = 1
  <2>1. IssueAll(m) = Issue(gpu, m[1]) /\ m[1] = l[1]
    BY <1>1, <1>3, IssueSteps
  <2> QED BY <1>3, <2>1 DEF m
<1>4. CASE n = 2
  <2>1. IssueAll(m) = Issue(Issue(gpu, m[1]), m[2])
    BY <1>1, <1>4, IssueSteps
  <2>2. m[1] = l[1] /\ m[2] = l[2]
    BY <1>1, <1>4
  <2> QED BY <1>4, <2>1, <2>2 DEF m
<1>5. CASE n = 3
  <2>1. IssueAll(m) = Issue(Issue(Issue(gpu, m[1]), m[2]), m[3])
    BY <1>1, <1>5, IssueSteps
  <2>2. m[1] = l[1] /\ m[2] = l[2] /\ m[3] = l[3]
    BY <1>1, <1>5
  <2> QED BY <1>5, <2>1, <2>2 DEF m
<1> QED BY <1>2, <1>3, <1>4, <1>5

LEMMA IssueNone == IssueAll(<<>>) = gpu
BY IssueSteps, Len(<<>>) = 0

LEMMA IssueOne ==
  ASSUME NEW c1
  PROVE  /\ IssueAll(<<c1>>) = Issue(gpu, c1)
         /\ \A n \in 0 .. Len(<<c1>>) - 1 :
              IssueAll(SubSeq(<<c1>>, 1, n))
                \in {gpu}
<1> DEFINE l == <<c1>>
<1>1. Len(l) = 1 /\ l[1] = c1
  OBVIOUS
<1> HIDE DEF l
<1>2. IssueAll(l) = Issue(gpu, c1)
  BY <1>1, IssueSteps
<1>3. ASSUME NEW n \in 0 .. Len(l) - 1
      PROVE  IssueAll(SubSeq(l, 1, n))
               \in {gpu}
  <2>1. n \in 0 .. 3 /\ n < 1 /\ n \in {0}
    BY <1>1
  <2>2. n = 0 => IssueAll(SubSeq(l, 1, n)) = gpu
    BY <1>1, <2>1, IssueFirst
  <2> QED BY <1>1, <2>1, <2>2
<1> QED BY <1>2, <1>3 DEF l

LEMMA IssueTwo ==
  ASSUME NEW c1, NEW c2
  PROVE  /\ IssueAll(<<c1, c2>>) = Issue(Issue(gpu, c1), c2)
         /\ \A n \in 0 .. Len(<<c1, c2>>) - 1 :
              IssueAll(SubSeq(<<c1, c2>>, 1, n))
                \in {gpu, Issue(gpu, c1)}
<1> DEFINE l == <<c1, c2>>
<1>1. Len(l) = 2 /\ l[1] = c1 /\ l[2] = c2
  OBVIOUS
<1> HIDE DEF l
<1>2. IssueAll(l) = Issue(Issue(gpu, c1), c2)
  BY <1>1, IssueSteps
<1>3. ASSUME NEW n \in 0 .. Len(l) - 1
      PROVE  IssueAll(SubSeq(l, 1, n))
               \in {gpu, Issue(gpu, c1)}
  <2>1. n \in 0 .. 3 /\ n < 2 /\ n \in {0, 1}
    BY <1>1
  <2>2. n = 0 => IssueAll(SubSeq(l, 1, n)) = gpu
    BY <1>1, <2>1, IssueFirst
  <2>3. n = 1 => IssueAll(SubSeq(l, 1, n)) = Issue(gpu, l[1])
    BY <1>1, <2>1, IssueFirst
  <2> QED BY <1>1, <2>1, <2>2, <2>3
<1> QED BY <1>2, <1>3 DEF l

LEMMA IssueThree ==
  ASSUME NEW c1, NEW c2, NEW c3
  PROVE  /\ IssueAll(<<c1, c2, c3>>) = Issue(Issue(Issue(gpu, c1), c2), c3)
         /\ \A n \in 0 .. Len(<<c1, c2, c3>>) - 1 :
              IssueAll(SubSeq(<<c1, c2, c3>>, 1, n))
                \in {gpu, Issue(gpu, c1), Issue(Issue(gpu, c1), c2)}
<1> DEFINE l == <<c1, c2, c3>>
<1>1. Len(l) = 3 /\ l[1] = c1 /\ l[2] = c2 /\ l[3] = c3
  OBVIOUS
<1> HIDE DEF l
<1>2. IssueAll(l) = Issue(Issue(Issue(gpu, c1), c2), c3)
  BY <1>1, IssueSteps
<1>3. ASSUME NEW n \in 0 .. Len(l) - 1
      PROVE  IssueAll(SubSeq(l, 1, n))
               \in {gpu, Issue(gpu, c1), Issue(Issue(gpu, c1), c2)}
  <2>1. n \in 0 .. 3 /\ n < 3 /\ n \in {0, 1, 2}
    BY <1>1
  <2>2. n = 0 => IssueAll(SubSeq(l, 1, n)) = gpu
    BY <1>1, <2>1, IssueFirst
  <2>3. n = 1 => IssueAll(SubSeq(l, 1, n)) = Issue(gpu, l[1])
    BY <1>1, <2>1, IssueFirst
  <2>4. n = 2 => IssueAll(SubSeq(l, 1, n)) = Issue(Issue(gpu, l[1]), l[2])
    BY <1>1, <2>1, IssueFirst
  <2> QED BY <1>1, <2>1, <2>2, <2>3, <2>4
<1> QED BY <1>2, <1>3 DEF l

LEMMA IssueFour ==
  ASSUME NEW c1, NEW c2, NEW c3, NEW c4
  PROVE  /\ IssueAll(<<c1, c2, c3, c4>>) = Issue(Issue(Issue(Issue(gpu, c1), c2), c3), c4)
         /\ \A n \in 0 .. Len(<<c1, c2, c3, c4>>) - 1 :
              IssueAll(SubSeq(<<c1, c2, c3, c4>>, 1, n))
                \in {gpu, Issue(gpu, c1), Issue(Issue(gpu, c1), c2), Issue(Issue(Issue(gpu, c1), c2), c3)}
<1> DEFINE l == <<c1, c2, c3, c4>>
<1>1. Len(l) = 4 /\ l[1] = c1 /\ l[2] = c2 /\ l[3] = c3 /\ l[4] = c4
  OBVIOUS
<1> HIDE DEF l
<1>2. IssueAll(l) = Issue(Issue(Issue(Issue(gpu, c1), c2), c3), c4)
  BY <1>1, IssueSteps
<1>3. ASSUME NEW n \in 0 .. Len(l) - 1
      PROVE  IssueAll(SubSeq(l, 1, n))
               \in {gpu, Issue(gpu, c1), Issue(Issue(gpu, c1), c2), Issue(Issue(Issue(gpu, c1), c2), c3)}
  <2>1. n \in 0 .. 3 /\ n < 4 /\ n \in {0, 1, 2, 3}
    BY <1>1
  <2>2. n = 0 => IssueAll(SubSeq(l, 1, n)) = gpu
    BY <1>1, <2>1, IssueFirst
  <2>3. n = 1 => IssueAll(SubSeq(l, 1, n)) = Issue(gpu, l[1])
    BY <1>1, <2>1, IssueFirst
  <2>4. n = 2 => IssueAll(SubSeq(l, 1, n)) = Issue(Issue(gpu, l[1]), l[2])
    BY <1>1, <2>1, IssueFirst
  <2>5. n = 3 => IssueAll(SubSeq(l, 1, n)) = Issue(Issue(Issue(gpu, l[1]), l[2]), l[3])
    BY <1>1, <2>1, IssueFirst
  <2> QED BY <1>1, <2>1, <2>2, <2>3, <2>4, <2>5
<1> QED BY <1>2, <1>3 DEF l

(***************************************************************************)
(* What a step of the device does                                          *)
(***************************************************************************)

(* The head of a queue is a call, and what is left is a queue.             *)
LEMMA HeadFacts ==
  ASSUME NEW g, Typed(g), NEW s \in Streams, g.queue[s] # <<>>
  PROVE  /\ Head(g.queue[s]) \in Calls /\ Head(g.queue[s]) = g.queue[s][1]
         /\ Len(g.queue[s]) \in Nat \ {0}
         /\ Tail(g.queue[s]) \in Seq(Calls) /\ Len(Tail(g.queue[s])) = Len(g.queue[s]) - 1
         /\ \A i \in 1 .. Len(g.queue[s]) - 1 : Tail(g.queue[s])[i] = g.queue[s][i + 1]
<1>1. g.queue[s] \in Seq(Calls)
  BY DEF Typed
<1> QED BY <1>1

LEMMA StartsFacts ==
  ASSUME Typed(gpu), NEW s \in Streams, Starts(s)
  PROVE  LET c == gpu.queue[s][1]
         IN  /\ Typed(gpu')
             /\ gpu.queue[s] # <<>> /\ c.do \in {"copy", "accumulate"} /\ gpu.seen[s] = <<>>
             /\ gpu'.queue = gpu.queue
             /\ gpu'.recorded = gpu.recorded /\ gpu'.completed = gpu.completed
             /\ gpu'.seen[s] = [b \in Reads(c) |-> gpu.memory[b]]
             /\ \A t \in Streams : t # s => gpu'.seen[t] = gpu.seen[t]
             /\ c.to \in Buffers => gpu'.memory[c.to] = Torn
             /\ \A b \in Buffers : b # c.to => gpu'.memory[b] = gpu.memory[b]
<1> DEFINE c == gpu.queue[s][1]
           m == [gpu.memory EXCEPT ![c.to] = Torn]
           seen == [gpu.seen EXCEPT ![s] = [b \in Reads(c) |-> gpu.memory[b]]]
<1>1. gpu.queue[s] # <<>> /\ Head(gpu.queue[s]) = c
  BY HeadFacts DEF Starts, Moves
<1>2. gpu' = [gpu EXCEPT !.seen[s] = [b \in Reads(c) |-> gpu.memory[b]], !.memory[c.to] = Torn]
      /\ c.do \in {"copy", "accumulate"} /\ gpu.seen[s] = <<>>
  BY <1>1 DEF Starts, Moves
<1>3. gpu' = [memory |-> m, queue |-> gpu.queue, seen |-> seen,
              recorded |-> gpu.recorded, completed |-> gpu.completed]
  BY <1>2 DEF Typed
<1>4. DOMAIN m = Buffers /\ (c.to \in Buffers => m[c.to] = Torn)
      /\ \A b \in Buffers : b # c.to => m[b] = gpu.memory[b]
  BY DEF Typed
<1>5. DOMAIN seen = Streams /\ seen[s] = [b \in Reads(c) |-> gpu.memory[b]]
      /\ \A t \in Streams : t # s => seen[t] = gpu.seen[t]
  BY DEF Typed
<1> HIDE DEF m, seen, c
<1> QED BY <1>1, <1>2, <1>3, <1>4, <1>5 DEF Typed, m, seen, c

LEMMA FinishesFacts ==
  ASSUME Typed(gpu), NEW s \in Streams, Finishes(s)
  PROVE  LET c == gpu.queue[s][1]
         IN  /\ Typed(gpu')
             /\ gpu.queue[s] # <<>> /\ c.do \in {"copy", "accumulate"} /\ gpu.seen[s] # <<>>
             /\ gpu'.queue[s] = Tail(gpu.queue[s]) /\ gpu'.seen[s] = <<>>
             /\ gpu'.recorded = gpu.recorded /\ gpu'.completed = gpu.completed
             /\ \A t \in Streams : t # s => /\ gpu'.queue[t] = gpu.queue[t]
                                            /\ gpu'.seen[t] = gpu.seen[t]
             /\ c.to \in Buffers => gpu'.memory[c.to] = Written(s, c)
             /\ \A b \in Buffers : b # c.to => gpu'.memory[b] = gpu.memory[b]
<1> DEFINE c == gpu.queue[s][1]
           w == Written(s, c)
           m == [gpu.memory EXCEPT ![c.to] = w]
           seen == [gpu.seen EXCEPT ![s] = <<>>]
           q == [gpu.queue EXCEPT ![s] = Tail(gpu.queue[s])]
<1>1. gpu.queue[s] # <<>> /\ Head(gpu.queue[s]) = c /\ Tail(gpu.queue[s]) \in Seq(Calls)
  BY HeadFacts DEF Finishes, Moves
<1> HIDE DEF w
<1>2. gpu' = [gpu EXCEPT !.queue[s] = Tail(gpu.queue[s]), !.seen[s] = <<>>, !.memory[c.to] = w]
      /\ c.do \in {"copy", "accumulate"} /\ gpu.seen[s] # <<>>
  BY <1>1 DEF Finishes, Moves, w
<1>3. gpu' = [memory |-> m, queue |-> q, seen |-> seen,
              recorded |-> gpu.recorded, completed |-> gpu.completed]
  BY <1>2 DEF Typed
<1>4. DOMAIN m = Buffers /\ (c.to \in Buffers => m[c.to] = w)
      /\ \A b \in Buffers : b # c.to => m[b] = gpu.memory[b]
  BY DEF Typed
<1>5. DOMAIN seen = Streams /\ seen[s] = <<>>
      /\ \A t \in Streams : t # s => seen[t] = gpu.seen[t]
  BY DEF Typed
<1>6. q \in [Streams -> Seq(Calls)] /\ q[s] = Tail(gpu.queue[s])
      /\ \A t \in Streams : t # s => q[t] = gpu.queue[t]
  BY <1>1 DEF Typed
<1> HIDE DEF m, seen, c, q
<1> QED BY <1>1, <1>2, <1>3, <1>4, <1>5, <1>6, ZenonT(60) DEF Typed, m, seen, c, q, w

LEMMA SignalsFacts ==
  ASSUME Typed(gpu), NEW s \in Streams, Signals(s),
         gpu.queue[s][1].number <= gpu.recorded[gpu.queue[s][1].event]
  PROVE  LET c == gpu.queue[s][1]
         IN  /\ Typed(gpu')
             /\ gpu.queue[s] # <<>> /\ c.do = "record" /\ c.event \in Events /\ c.number \in Nat
             /\ gpu'.queue[s] = Tail(gpu.queue[s])
             /\ gpu'.recorded = gpu.recorded /\ gpu'.seen = gpu.seen /\ gpu'.memory = gpu.memory
             /\ \A t \in Streams : t # s => gpu'.queue[t] = gpu.queue[t]
             /\ gpu'.completed[c.event] = c.number
             /\ \A e \in Events : e # c.event => gpu'.completed[e] = gpu.completed[e]
<1> DEFINE c == gpu.queue[s][1]
           done == [gpu.completed EXCEPT ![c.event] = c.number]
           q == [gpu.queue EXCEPT ![s] = Tail(gpu.queue[s])]
<1>1. gpu.queue[s] # <<>> /\ Head(gpu.queue[s]) = c /\ Tail(gpu.queue[s]) \in Seq(Calls) /\ c \in Calls
  BY HeadFacts DEF Signals
<1>2. c.do = "record"
      /\ gpu' = [gpu EXCEPT !.queue[s] = Tail(gpu.queue[s]), !.completed[c.event] = c.number]
  BY <1>1 DEF Signals
<1>3. c.event \in Events /\ c.number \in Nat
  BY <1>1, <1>2 DEF Calls
<1>4. gpu' = [memory |-> gpu.memory, queue |-> q, seen |-> gpu.seen,
              recorded |-> gpu.recorded, completed |-> done]
  BY <1>2 DEF Typed
<1>5. done \in [Events -> Nat] /\ done[c.event] = c.number
      /\ \A e \in Events : e # c.event => done[e] = gpu.completed[e]
  BY <1>3 DEF Typed
<1>6. q \in [Streams -> Seq(Calls)] /\ q[s] = Tail(gpu.queue[s])
      /\ \A t \in Streams : t # s => q[t] = gpu.queue[t]
  BY <1>1 DEF Typed
<1>7. \A e \in Events : done[e] <= gpu.recorded[e]
  BY <1>3, <1>5 DEF Typed
<1> HIDE DEF done, c, q
<1>8. /\ gpu'.memory = gpu.memory /\ gpu'.queue = q /\ gpu'.seen = gpu.seen
      /\ gpu'.recorded = gpu.recorded /\ gpu'.completed = done
  BY <1>4
<1>9. Typed(gpu')
  BY <1>4, <1>5, <1>6, <1>7, <1>8 DEF Typed
<1> QED BY <1>1, <1>2, <1>3, <1>5, <1>6, <1>8, <1>9 DEF c

LEMMA ProceedsFacts ==
  ASSUME Typed(gpu), NEW s \in Streams, Proceeds(s)
  PROVE  LET c == gpu.queue[s][1]
         IN  /\ Typed(gpu')
             /\ gpu.queue[s] # <<>> /\ c.do = "wait" /\ c.event \in Events /\ c.number \in Nat
             /\ gpu.completed[c.event] >= c.number
             /\ gpu'.queue[s] = Tail(gpu.queue[s])
             /\ gpu'.recorded = gpu.recorded /\ gpu'.completed = gpu.completed
             /\ gpu'.seen = gpu.seen /\ gpu'.memory = gpu.memory
             /\ \A t \in Streams : t # s => gpu'.queue[t] = gpu.queue[t]
<1> DEFINE c == gpu.queue[s][1]
           q == [gpu.queue EXCEPT ![s] = Tail(gpu.queue[s])]
<1>1. gpu.queue[s] # <<>> /\ Head(gpu.queue[s]) = c /\ Tail(gpu.queue[s]) \in Seq(Calls) /\ c \in Calls
  BY HeadFacts DEF Proceeds
<1>2. c.do = "wait" /\ gpu.completed[c.event] >= c.number
      /\ gpu' = [gpu EXCEPT !.queue[s] = Tail(gpu.queue[s])]
  BY <1>1 DEF Proceeds
<1>3. c.event \in Events /\ c.number \in Nat
  BY <1>1, <1>2 DEF Calls
<1>4. gpu' = [memory |-> gpu.memory, queue |-> q, seen |-> gpu.seen,
              recorded |-> gpu.recorded, completed |-> gpu.completed]
  BY <1>2 DEF Typed
<1>5. q \in [Streams -> Seq(Calls)] /\ q[s] = Tail(gpu.queue[s])
      /\ \A t \in Streams : t # s => q[t] = gpu.queue[t]
  BY <1>1 DEF Typed
<1> HIDE DEF c, q
<1>6. /\ gpu'.memory = gpu.memory /\ gpu'.queue = q /\ gpu'.seen = gpu.seen
      /\ gpu'.recorded = gpu.recorded /\ gpu'.completed = gpu.completed
  BY <1>4
<1>7. Typed(gpu')
  BY <1>4, <1>5, <1>6 DEF Typed
<1> QED BY <1>1, <1>2, <1>3, <1>5, <1>6, <1>7 DEF c

(* What a copy leaves when its read did not overlap a write.               *)
LEMMA CopyWrites ==
  ASSUME NEW s, NEW to, NEW from,
         gpu.seen[s][from] = gpu.memory[from], gpu.memory[from] # Torn
  PROVE  Written(s, Copy(s, to, from)) = gpu.memory[from]
BY DEF Written, Copy, ReadWhole, Torn

(***************************************************************************)
(* Records in a queue                                                      *)
(***************************************************************************)
Does(c, what, e) == c.do = what /\ c.event = e

(* The records of an event that are queued have its next numbers, in       *)
(* order, up to the latest.                                                *)
Numbered(g, q) ==
  /\ \A i \in 1 .. Len(q) : q[i].do = "record" =>
       /\ g.completed[q[i].event] < q[i].number /\ q[i].number <= g.recorded[q[i].event]
       /\ \E j \in i .. Len(q) : /\ Does(q[j], "record", q[i].event)
                                 /\ q[j].number = g.recorded[q[i].event]
  /\ \A i, j \in 1 .. Len(q) :
       i < j /\ q[i].do = "record" /\ Does(q[j], "record", q[i].event) => q[i].number < q[j].number

(* It depends on the two counters alone.                                   *)
LEMMA NumberedSame ==
  ASSUME NEW g, NEW h, NEW q, Numbered(g, q), h.recorded = g.recorded, h.completed = g.completed
  PROVE  Numbered(h, q)
BY DEF Numbered

(* A queue whose head is no record has the same records without it.        *)
LEMMA NumberedPop ==
  ASSUME NEW g, NEW h, NEW q \in Seq(Calls), q # <<>>, Numbered(g, q), q[1].do # "record",
         h.recorded = g.recorded, h.completed = g.completed
  PROVE  Numbered(h, Tail(q))
<1>1. Len(Tail(q)) = Len(q) - 1 /\ \A i \in 1 .. Len(q) - 1 : Tail(q)[i] = q[i + 1]
  OBVIOUS
<1>2. ASSUME NEW i \in 1 .. Len(Tail(q)), Tail(q)[i].do = "record"
      PROVE  /\ h.completed[Tail(q)[i].event] < Tail(q)[i].number
             /\ Tail(q)[i].number <= h.recorded[Tail(q)[i].event]
             /\ \E j \in i .. Len(Tail(q)) : /\ Does(Tail(q)[j], "record", Tail(q)[i].event)
                                             /\ Tail(q)[j].number = h.recorded[Tail(q)[i].event]
  <2>1. i + 1 \in 1 .. Len(q) /\ Tail(q)[i] = q[i + 1]
    BY <1>1
  <2>2. PICK j \in i + 1 .. Len(q) : /\ Does(q[j], "record", q[i + 1].event)
                                     /\ q[j].number = g.recorded[q[i + 1].event]
    BY <1>2, <2>1 DEF Numbered
  <2>3. j - 1 \in i .. Len(Tail(q)) /\ Tail(q)[j - 1] = q[j]
    BY <1>1, <2>1
  <2> QED BY <1>2, <2>1, <2>2, <2>3 DEF Numbered
<1>3. ASSUME NEW i \in 1 .. Len(Tail(q)), NEW j \in 1 .. Len(Tail(q)),
             i < j, Tail(q)[i].do = "record", Does(Tail(q)[j], "record", Tail(q)[i].event)
      PROVE  Tail(q)[i].number < Tail(q)[j].number
  <2>1. i + 1 \in 1 .. Len(q) /\ j + 1 \in 1 .. Len(q) /\ i + 1 < j + 1
        /\ Tail(q)[i] = q[i + 1] /\ Tail(q)[j] = q[j + 1]
    BY <1>1, <1>3
  <2> QED BY <1>3, <2>1 DEF Numbered
<1> QED BY <1>2, <1>3 DEF Numbered

(* The record at the head, completed.                                      *)
LEMMA NumberedSignal ==
  ASSUME NEW g, NEW h, NEW q \in Seq(Calls), q # <<>>, Numbered(g, q), q[1].do = "record",
         h.recorded = g.recorded, h.completed[q[1].event] = q[1].number,
         \A e \in Events : e # q[1].event => h.completed[e] = g.completed[e]
  PROVE  Numbered(h, Tail(q))
<1>1. Len(Tail(q)) = Len(q) - 1 /\ \A i \in 1 .. Len(q) - 1 : Tail(q)[i] = q[i + 1]
  OBVIOUS
<1>2. ASSUME NEW i \in 1 .. Len(Tail(q)), Tail(q)[i].do = "record"
      PROVE  /\ h.completed[Tail(q)[i].event] < Tail(q)[i].number
             /\ Tail(q)[i].number <= h.recorded[Tail(q)[i].event]
             /\ \E j \in i .. Len(Tail(q)) : /\ Does(Tail(q)[j], "record", Tail(q)[i].event)
                                             /\ Tail(q)[j].number = h.recorded[Tail(q)[i].event]
  <2>1. i + 1 \in 1 .. Len(q) /\ Tail(q)[i] = q[i + 1] /\ 1 \in 1 .. Len(q) /\ 1 < i + 1
    BY <1>1
  <2>2. PICK j \in i + 1 .. Len(q) : /\ Does(q[j], "record", q[i + 1].event)
                                     /\ q[j].number = g.recorded[q[i + 1].event]
    BY <1>2, <2>1 DEF Numbered
  <2>3. j - 1 \in i .. Len(Tail(q)) /\ Tail(q)[j - 1] = q[j]
    BY <1>1, <2>1
  <2>4. q[i + 1].event \in Events
    <3>1. q[i + 1] \in Calls /\ q[i + 1].do = "record"
      BY <1>2, <2>1
    <3> QED BY <3>1 DEF Calls
  <2>5. h.completed[q[i + 1].event] < q[i + 1].number
    <3>1. CASE q[i + 1].event = q[1].event
      <4>1. q[1].number < q[i + 1].number
        BY <1>2, <2>1, <3>1 DEF Numbered, Does
      <4> QED BY <3>1, <4>1
    <3>2. CASE q[i + 1].event # q[1].event
      BY <1>2, <2>1, <2>4, <3>2 DEF Numbered
    <3> QED BY <3>1, <3>2
  <2> QED BY <1>2, <2>1, <2>2, <2>3, <2>5 DEF Numbered
<1>3. ASSUME NEW i \in 1 .. Len(Tail(q)), NEW j \in 1 .. Len(Tail(q)),
             i < j, Tail(q)[i].do = "record", Does(Tail(q)[j], "record", Tail(q)[i].event)
      PROVE  Tail(q)[i].number < Tail(q)[j].number
  <2>1. i + 1 \in 1 .. Len(q) /\ j + 1 \in 1 .. Len(q) /\ i + 1 < j + 1
        /\ Tail(q)[i] = q[i + 1] /\ Tail(q)[j] = q[j + 1]
    BY <1>1, <1>3
  <2> QED BY <1>3, <2>1 DEF Numbered
<1> QED BY <1>2, <1>3 DEF Numbered

(* The records of other queues, when the head of one is completed.         *)
LEMMA NumberedElsewhere ==
  ASSUME NEW g, NEW h, NEW q \in Seq(Calls), NEW e, Numbered(g, q), h.recorded = g.recorded,
         \A d \in Events : d # e => h.completed[d] = g.completed[d],
         \A i \in 1 .. Len(q) : ~Does(q[i], "record", e)
  PROVE  Numbered(h, q)
<1>1. ASSUME NEW i \in 1 .. Len(q), q[i].do = "record"
      PROVE  h.completed[q[i].event] = g.completed[q[i].event]
  <2>1. q[i].event \in Events
    BY <1>1 DEF Calls
  <2> QED BY <1>1, <2>1 DEF Does
<1> QED BY <1>1 DEF Numbered

(* A call that is no record, appended.                                     *)
LEMMA NumberedPush ==
  ASSUME NEW g, NEW h, NEW q \in Seq(Calls), NEW c \in Calls, Numbered(g, q), c.do # "record",
         h.recorded = g.recorded, h.completed = g.completed
  PROVE  Numbered(h, Append(q, c))
<1> DEFINE p == Append(q, c)
<1>1. Len(p) = Len(q) + 1 /\ p[Len(q) + 1] = c /\ \A i \in 1 .. Len(q) : p[i] = q[i]
  OBVIOUS
<1> HIDE DEF p
<1>2. \A i \in 1 .. Len(p) : p[i].do = "record" => i \in 1 .. Len(q)
  BY <1>1
<1>3. ASSUME NEW i \in 1 .. Len(p), p[i].do = "record"
      PROVE  /\ h.completed[p[i].event] < p[i].number /\ p[i].number <= h.recorded[p[i].event]
             /\ \E j \in i .. Len(p) : /\ Does(p[j], "record", p[i].event)
                                       /\ p[j].number = h.recorded[p[i].event]
  <2>1. i \in 1 .. Len(q) /\ p[i] = q[i]
    BY <1>1, <1>2, <1>3
  <2>2. PICK j \in i .. Len(q) : /\ Does(q[j], "record", q[i].event)
                                 /\ q[j].number = g.recorded[q[i].event]
    BY <1>3, <2>1 DEF Numbered
  <2>3. j \in i .. Len(p) /\ p[j] = q[j]
    BY <1>1, <2>1
  <2> QED BY <1>3, <2>1, <2>2, <2>3 DEF Numbered
<1>4. ASSUME NEW i \in 1 .. Len(p), NEW j \in 1 .. Len(p),
             i < j, p[i].do = "record", Does(p[j], "record", p[i].event)
      PROVE  p[i].number < p[j].number
  <2>1. i \in 1 .. Len(q) /\ p[i] = q[i] /\ j \in 1 .. Len(q) /\ p[j] = q[j]
    BY <1>1, <1>2, <1>4 DEF Does
  <2> QED BY <1>4, <2>1 DEF Numbered
<1> QED BY <1>3, <1>4 DEF Numbered, p

(* A record with the event's next number, appended.                        *)
LEMMA NumberedRecord ==
  ASSUME NEW g, NEW h, NEW q \in Seq(Calls), NEW c \in Calls, Numbered(g, q), Typed(g),
         c.do = "record", c.number = g.recorded[c.event] + 1, h.completed = g.completed,
         h.recorded[c.event] = c.number,
         \A e \in Events : e # c.event => h.recorded[e] = g.recorded[e]
  PROVE  Numbered(h, Append(q, c))
<1> DEFINE p == Append(q, c)
<1>1. Len(p) = Len(q) + 1 /\ p[Len(q) + 1] = c /\ (\A i \in 1 .. Len(q) : p[i] = q[i]) /\ Len(q) \in Nat
  OBVIOUS
<1> HIDE DEF p
<1>2. c.event \in Events /\ g.recorded[c.event] \in Nat /\ g.completed[c.event] \in Nat
      /\ g.completed[c.event] <= g.recorded[c.event]
  BY DEF Calls, Typed
<1>3. ASSUME NEW i \in 1 .. Len(q), q[i].do = "record"
      PROVE  q[i].event \in Events /\ q[i].number \in Nat /\ q[i].number <= g.recorded[q[i].event]
             /\ g.completed[q[i].event] < q[i].number
             /\ g.recorded[q[i].event] \in Nat
  <2>1. q[i] \in Calls
    OBVIOUS
  <2> QED BY <1>3, <2>1 DEF Calls, Numbered, Typed
<1>4. ASSUME NEW i \in 1 .. Len(p), p[i].do = "record"
      PROVE  /\ h.completed[p[i].event] < p[i].number /\ p[i].number <= h.recorded[p[i].event]
             /\ \E j \in i .. Len(p) : /\ Does(p[j], "record", p[i].event)
                                       /\ p[j].number = h.recorded[p[i].event]
  <2>1. CASE i = Len(q) + 1
    <3>1. p[i] = c /\ i \in i .. Len(p)
      BY <1>1, <2>1
    <3>2. h.completed[c.event] < c.number /\ c.number <= h.recorded[c.event]
      BY <1>2
    <3>3. Does(p[i], "record", p[i].event) /\ p[i].number = h.recorded[p[i].event]
      BY <3>1 DEF Does
    <3> QED BY <3>1, <3>2, <3>3
  <2>2. CASE i # Len(q) + 1
    <3>1. i \in 1 .. Len(q) /\ p[i] = q[i]
      BY <1>1, <2>2
    <3>2. CASE q[i].event = c.event
      <4>1. Len(q) + 1 \in i .. Len(p) /\ Does(p[Len(q) + 1], "record", p[i].event)
            /\ p[Len(q) + 1].number = h.recorded[p[i].event]
        BY <1>1, <3>1, <3>2 DEF Does
      <4>2. h.completed[p[i].event] < p[i].number /\ p[i].number <= h.recorded[p[i].event]
        BY <1>2, <1>3, <1>4, <3>1, <3>2
      <4> QED BY <4>1, <4>2
    <3>3. CASE q[i].event # c.event
      <4>1. PICK j \in i .. Len(q) : /\ Does(q[j], "record", q[i].event)
                                     /\ q[j].number = g.recorded[q[i].event]
        BY <1>4, <3>1 DEF Numbered
      <4>2. j \in i .. Len(p) /\ p[j] = q[j]
        BY <1>1, <3>1
      <4>3. h.recorded[q[i].event] = g.recorded[q[i].event]
        BY <1>3, <1>4, <3>1, <3>3
      <4> QED BY <1>3, <1>4, <3>1, <4>1, <4>2, <4>3
    <3> QED BY <3>2, <3>3
  <2> QED BY <2>1, <2>2
<1>5. ASSUME NEW i \in 1 .. Len(p), NEW j \in 1 .. Len(p),
             i < j, p[i].do = "record", Does(p[j], "record", p[i].event)
      PROVE  p[i].number < p[j].number
  <2>1. i \in 1 .. Len(q) /\ p[i] = q[i]
    BY <1>1, <1>5
  <2>2. CASE j = Len(q) + 1
    BY <1>1, <1>2, <1>3, <1>5, <2>1, <2>2, SMTT(40) DEF Does
  <2>3. CASE j # Len(q) + 1
    <3>1. j \in 1 .. Len(q) /\ p[j] = q[j]
      BY <1>1, <2>3
    <3> QED BY <1>5, <2>1, <3>1 DEF Numbered
  <2> QED BY <2>2, <2>3
<1> QED BY <1>4, <1>5 DEF Numbered, p

(* A queue, when a record goes to another.                                 *)
LEMMA NumberedApart ==
  ASSUME NEW g, NEW h, NEW q \in Seq(Calls), NEW e, Numbered(g, q), h.completed = g.completed,
         \A d \in Events : d # e => h.recorded[d] = g.recorded[d],
         \A i \in 1 .. Len(q) : ~Does(q[i], "record", e)
  PROVE  Numbered(h, q)
<1>1. ASSUME NEW i \in 1 .. Len(q), q[i].do = "record"
      PROVE  h.recorded[q[i].event] = g.recorded[q[i].event]
  <2>1. q[i].event \in Events
    BY <1>1 DEF Calls
  <2> QED BY <1>1, <2>1 DEF Does
<1> QED BY <1>1 DEF Numbered

(* A wait that may proceed waits for no queued record.                     *)
LEMMA PassedWait ==
  ASSUME NEW g, NEW q \in Seq(Calls), Numbered(g, q), Typed(g), NEW e \in Events, NEW n \in Nat,
         g.completed[e] >= n
  PROVE  \A j \in 1 .. Len(q) : Does(q[j], "record", e) => q[j].number # n
<1> SUFFICES ASSUME NEW j \in 1 .. Len(q), Does(q[j], "record", e), q[j].number = n PROVE FALSE
  OBVIOUS
<1>1. g.completed[e] < n
  BY DEF Numbered, Does
<1> QED BY <1>1 DEF Typed

(***************************************************************************)
(* The prefetched path: what is queued                                     *)
(***************************************************************************)
Layers == 0 .. moe_layers - 1

Embeds        == Copy("compute", x, embed)
Multiplies(k) == Accumulate("compute", x, {<<k, Slot(k)>>})
Outputs(f)    == Copy("compute", <<"out", f>>, x)
Fills(k)      == Copy("side", Slot(k), <<"staged", k>>)
IsOutput(c)   == \E f \in 1 .. MaxForwards : c = Outputs(f)

(* The residual with the first n layers added.                             *)
Partial(n) == Residual \cup {<<k, k>> : k \in 0 .. n - 1}

ComputeCall(c) ==
  \/ c = Embeds
  \/ IsOutput(c)
  \/ \E k \in Layers : \/ c = Multiplies(k)
                       \/ Does(c, "wait", <<"prefetch", k>>)
                       \/ Does(c, "record", <<"computed", k>>)

SideCall(c) ==
  \E k \in Layers : \/ c = Fills(k)
                    \/ Does(c, "record", <<"prefetch", k>>)
                    \/ Does(c, "wait", <<"computed", k>>)

(* What may come after a call of a forward on the compute stream: the      *)
(* next forward, whenever this one has failed, or its own next call.       *)
Follows(c, d) ==
  \/ d = Embeds
  \/ c = Embeds /\ Does(d, "wait", <<"prefetch", 0>>)
  \/ \E k \in Layers : Does(c, "wait", <<"prefetch", k>>) /\ d = Multiplies(k)
  \/ \E k \in Layers : c = Multiplies(k) /\ Does(d, "record", <<"computed", k>>)
  \/ \E k \in Layers : /\ k # 0 /\ Does(c, "record", <<"computed", k - 1>>)
                       /\ Does(d, "wait", <<"prefetch", k>>)
  \/ Does(c, "record", <<"computed", moe_layers - 1>>) /\ IsOutput(d)

(* The call at i belongs to a forward whose output is queued or, when the  *)
(* host is "on" with one, to that forward.                                 *)
Live(C, i, on) ==
  \/ \E j \in i .. Len(C) : IsOutput(C[j]) /\ \A l \in i .. j : C[l] # Embeds
  \/ on /\ \A l \in i .. Len(C) : C[l] # Embeds

(* A side call at q waits, there or before, for a record behind compute    *)
(* call i.                                                                 *)
Guarded(C, D, i, q) ==
  \E w \in 1 .. q, j \in i + 1 .. Len(C) :
    D[w].do = "wait" /\ Does(C[j], "record", D[w].event) /\ C[j].number = D[w].number

Overwrites(c, k) == \E l \in Layers : c = Fills(l) /\ Slot(l) = Slot(k)

(* Layer k's multiplication at i reads its own weights: they are in the    *)
(* slot, or the copy at b brings them before the wait in front of i ends;  *)
(* and whatever overwrites the slot after that is guarded.                 *)
Own(m, C, D, i, k) ==
  \E b \in 0 .. Len(D) :
    /\ b = 0 => m[Slot(k)] = {<<k, k>>}
    /\ b > 0 => /\ D[b] = Fills(k) /\ b < Len(D) /\ i > 1
                /\ Does(C[i - 1], "wait", <<"prefetch", k>>)
                /\ Does(D[b + 1], "record", <<"prefetch", k>>) /\ D[b + 1].number = C[i - 1].number
    /\ \A q \in b + 1 .. Len(D) : Overwrites(D[q], k) => Guarded(C, D, i, q)

MoeLayers == moe_layers \in 1 .. Cardinality(Weights)

LEMMA LayerFacts ==
  ASSUME MoeLayers
  PROVE  /\ moe_layers \in Nat \ {0} /\ Layers \subseteq Weights /\ Layers \subseteq Nat
         /\ 0 \in Layers /\ moe_layers - 1 \in Layers
         /\ \A k \in Layers : /\ Slot(k) = <<"slot", k % 2>> /\ Slot(k) \in Buffers
                              /\ Slot(k) \notin {x, xh, embed}
                              /\ \A l : Slot(k) # <<"staged", l>> /\ Slot(k) # <<"out", l>>
                              /\ <<"staged", k>> \in Buffers
                              /\ <<"prefetch", k>> \in Events /\ <<"computed", k>> \in Events
         /\ \A k \in Layers : k + 1 \in Layers => Slot(k + 1) # Slot(k)
         /\ \A k \in Layers : k # 0 => k - 1 \in Layers
<1>1. /\ moe_layers \in Nat \ {0} /\ Layers \subseteq Weights /\ Layers \subseteq Nat
      /\ 0 \in Layers /\ moe_layers - 1 \in Layers
      /\ \A k \in Layers : k # 0 => k - 1 \in Layers
  BY Numbers DEF MoeLayers, Layers
<1>2. ASSUME NEW k \in Layers
      PROVE  /\ Slot(k) = <<"slot", k % 2>> /\ Slot(k) \in Buffers
             /\ Slot(k) \notin {x, xh, embed}
             /\ \A l : Slot(k) # <<"staged", l>> /\ Slot(k) # <<"out", l>>
  <2>1. k % 2 \in {0, 1}
    BY <1>1
  <2>2. k % 2 \in Slots
    BY <2>1, Numbers
  <2> QED BY <2>2, BufferFacts DEF Slot
<1>3. ASSUME NEW k \in Layers, k + 1 \in Layers PROVE Slot(k + 1) # Slot(k)
  <2>1. k \in Nat /\ (k + 1) % 2 # k % 2
    BY <1>1
  <2> QED BY <2>1, BufferFacts DEF Slot
<1> QED BY <1>1, <1>2, <1>3, BufferFacts, EventFacts

LEMMA CallFacts ==
  ASSUME MoeLayers
  PROVE  /\ Embeds \in Calls /\ Embeds.do = "copy" /\ Embeds.on = "compute" /\ Embeds.to = x
         /\ \A k \in Layers :
              /\ Multiplies(k) \in Calls /\ Multiplies(k).do = "accumulate"
              /\ Multiplies(k).on = "compute" /\ Multiplies(k).to = x
              /\ Fills(k) \in Calls /\ Fills(k).do = "copy"
              /\ Fills(k).on = "side" /\ Fills(k).to = Slot(k)
         /\ \A f \in 1 .. MaxForwards :
              /\ Outputs(f) \in Calls /\ Outputs(f).do = "copy" /\ Outputs(f).on = "compute"
              /\ Outputs(f).to = <<"out", f>> /\ Outputs(f) # Embeds
         /\ \A k, l \in Layers : Multiplies(k) = Multiplies(l) => k = l
         /\ \A k, l \in Layers : Fills(k) = Fills(l) => k = l
<1>1. \A k \in Weights : k \in Int
  BY Numbers
<1>2. Embeds \in Calls /\ Embeds.do = "copy" /\ Embeds.on = "compute" /\ Embeds.to = x
  BY BufferFacts DEF Embeds, Copy, Calls, Streams
<1>3. ASSUME NEW k \in Layers
      PROVE  /\ Multiplies(k) \in Calls /\ Multiplies(k).do = "accumulate"
             /\ Multiplies(k).on = "compute" /\ Multiplies(k).to = x
             /\ Multiplies(k).terms = {<<k, Slot(k)>>}
  <2>1. k \in Int /\ Slot(k) \in Buffers
    BY <1>1, LayerFacts
  <2> QED BY <2>1, BufferFacts DEF Multiplies, Accumulate, Calls, Streams
<1>4. ASSUME NEW k \in Layers
      PROVE  /\ Fills(k) \in Calls /\ Fills(k).do = "copy" /\ Fills(k).on = "side"
             /\ Fills(k).to = Slot(k) /\ Fills(k).terms = {<<-1, <<"staged", k>>>>}
  <2>1. <<"staged", k>> \in Buffers /\ Slot(k) \in Buffers
    BY LayerFacts
  <2> QED BY <2>1 DEF Fills, Copy, Calls, Streams
<1>5. ASSUME NEW f \in 1 .. MaxForwards
      PROVE  /\ Outputs(f) \in Calls /\ Outputs(f).do = "copy" /\ Outputs(f).on = "compute"
             /\ Outputs(f).to = <<"out", f>> /\ Outputs(f) # Embeds
  <2>1. <<"out", f>> \in Buffers /\ <<"out", f>> # x
    BY BufferFacts
  <2>2. /\ Outputs(f) \in Calls /\ Outputs(f).do = "copy" /\ Outputs(f).on = "compute"
        /\ Outputs(f).to = <<"out", f>>
    BY <2>1, BufferFacts DEF Outputs, Copy, Calls, Streams
  <2> QED BY <1>2, <2>1, <2>2
<1>6. ASSUME NEW k \in Layers, NEW l \in Layers, Multiplies(k) = Multiplies(l) PROVE k = l
  <2>1. <<k, Slot(k)>> \in {<<l, Slot(l)>>}
    BY <1>3, <1>6
  <2> QED BY <2>1
<1>7. ASSUME NEW k \in Layers, NEW l \in Layers, Fills(k) = Fills(l) PROVE k = l
  <2>1. <<-1, <<"staged", k>>>> \in {<<-1, <<"staged", l>>>>}
    BY <1>4, <1>7
  <2> QED BY <2>1
<1> QED BY <1>2, <1>3, <1>4, <1>5, <1>6, <1>7

(***************************************************************************)
(* Live, Guarded and Own when a queue loses its head or gains a call       *)
(***************************************************************************)
LEMMA TailFacts ==
  ASSUME NEW T, NEW q \in Seq(T), q # <<>>
  PROVE  /\ Tail(q) \in Seq(T) /\ Len(q) \in Nat \ {0} /\ Len(Tail(q)) = Len(q) - 1
         /\ \A i \in 1 .. Len(q) - 1 : Tail(q)[i] = q[i + 1]
         /\ \A i \in 2 .. Len(q) : Tail(q)[i - 1] = q[i]
OBVIOUS

LEMMA AppendFacts ==
  ASSUME NEW T, NEW q \in Seq(T), NEW c \in T
  PROVE  /\ Append(q, c) \in Seq(T) /\ Len(q) \in Nat /\ Len(Append(q, c)) = Len(q) + 1
         /\ Append(q, c) # <<>>
         /\ Append(q, c)[Len(q) + 1] = c
         /\ \A i \in 1 .. Len(q) : Append(q, c)[i] = q[i]
OBVIOUS

LEMMA LivePop ==
  ASSUME NEW C \in Seq(Calls), C # <<>>, NEW on \in BOOLEAN,
         NEW i \in 1 .. Len(C) - 1, Live(Tail(C), i, on)
  PROVE  Live(C, i + 1, on)
<1> DEFINE T == Tail(C)
<1>1. Len(C) \in Nat \ {0} /\ Len(T) = Len(C) - 1 /\ \A l \in 1 .. Len(C) - 1 : T[l] = C[l + 1]
  BY TailFacts
<1> HIDE DEF T
<1>2. Live(T, i, on)
  BY DEF T
<1>3. ASSUME NEW j \in i .. Len(T), IsOutput(T[j]), \A l \in i .. j : T[l] # Embeds
      PROVE  Live(C, i + 1, on)
  <2>1. j + 1 \in i + 1 .. Len(C) /\ C[j + 1] = T[j]
    BY <1>1
  <2>2. ASSUME NEW l \in i + 1 .. j + 1 PROVE C[l] # Embeds
    <3>1. l - 1 \in i .. j /\ l - 1 \in 1 .. Len(C) - 1 /\ (l - 1) + 1 = l
      BY <1>1
    <3> QED BY <1>1, <1>3, <3>1
  <2> QED BY <1>3, <2>1, <2>2 DEF Live
<1>4. ASSUME on, \A l \in i .. Len(T) : T[l] # Embeds
      PROVE  Live(C, i + 1, on)
  <2>1. ASSUME NEW l \in i + 1 .. Len(C) PROVE C[l] # Embeds
    <3>1. l - 1 \in i .. Len(T) /\ l - 1 \in 1 .. Len(C) - 1 /\ (l - 1) + 1 = l
      BY <1>1
    <3> QED BY <1>1, <1>4, <3>1
  <2> QED BY <1>4, <2>1 DEF Live
<1> QED BY <1>2, <1>3, <1>4 DEF Live

(* A call before a live one is live, unless it begins a forward.           *)
LEMMA LiveHead ==
  ASSUME NEW C \in Seq(Calls), NEW on \in BOOLEAN, Len(C) >= 2, C[1] # Embeds, Live(C, 2, on)
  PROVE  Live(C, 1, on)
<1>1. ASSUME NEW j \in 2 .. Len(C), IsOutput(C[j]), \A l \in 2 .. j : C[l] # Embeds
      PROVE  Live(C, 1, on)
  <2>1. j \in 1 .. Len(C) /\ \A l \in 1 .. j : C[l] # Embeds
    BY <1>1
  <2> QED BY <1>1, <2>1 DEF Live
<1>2. ASSUME on, \A l \in 2 .. Len(C) : C[l] # Embeds
      PROVE  Live(C, 1, on)
  <2>1. \A l \in 1 .. Len(C) : C[l] # Embeds
    BY <1>2
  <2> QED BY <1>2, <2>1 DEF Live
<1> QED BY <1>1, <1>2 DEF Live

(* What begins a forward is not live in the one before.                    *)
LEMMA EmbedsNotLive ==
  ASSUME NEW C \in Seq(Calls), NEW on \in BOOLEAN, NEW i \in 1 .. Len(C), Live(C, i, on)
  PROVE  C[i] # Embeds
BY DEF Live

(* An appended call keeps what is live: the next forward begins, ...       *)
LEMMA LivePushEmbeds ==
  ASSUME MoeLayers, NEW C \in Seq(Calls), NEW on \in BOOLEAN,
         NEW i \in 1 .. Len(C) + 1, Live(Append(C, Embeds), i, on)
  PROVE  i \in 1 .. Len(C) /\ Live(C, i, FALSE)
<1> DEFINE A == Append(C, Embeds)
<1>1. /\ Len(C) \in Nat /\ Len(A) = Len(C) + 1 /\ A[Len(C) + 1] = Embeds
      /\ \A l \in 1 .. Len(C) : A[l] = C[l]
  BY CallFacts, AppendFacts
<1> HIDE DEF A
<1>2. PICK j \in i .. Len(A) : IsOutput(A[j]) /\ \A l \in i .. j : A[l] # Embeds
  <2>1. ~\A l \in i .. Len(A) : A[l] # Embeds
    BY <1>1
  <2> QED BY <2>1 DEF Live, A
<1>3. j # Len(C) + 1
  BY <1>1, <1>2
<1>4. j \in i .. Len(C) /\ i \in 1 .. Len(C) /\ A[j] = C[j] /\ \A l \in i .. j : C[l] = A[l]
  BY <1>1, <1>3
<1> QED BY <1>2, <1>4 DEF Live

(* ... the forward ends, ...                                               *)
LEMMA LivePushOutput ==
  ASSUME NEW C \in Seq(Calls), NEW c \in Calls, NEW on \in BOOLEAN,
         NEW i \in 1 .. Len(C), Live(Append(C, c), i, on)
  PROVE  Live(C, i, TRUE)
<1> DEFINE A == Append(C, c)
<1>1. /\ Len(C) \in Nat /\ Len(A) = Len(C) + 1 /\ \A l \in 1 .. Len(C) : A[l] = C[l]
  BY AppendFacts
<1> HIDE DEF A
<1>2. ASSUME NEW j \in i .. Len(A), IsOutput(A[j]), \A l \in i .. j : A[l] # Embeds
      PROVE  Live(C, i, TRUE)
  <2>1. CASE j \in i .. Len(C)
    BY <1>1, <1>2, <2>1 DEF Live
  <2>2. CASE j \notin i .. Len(C)
    <3>1. \A l \in i .. Len(C) : C[l] # Embeds
      BY <1>1, <1>2, <2>2
    <3> QED BY <3>1 DEF Live
  <2> QED BY <2>1, <2>2
<1>3. ASSUME \A l \in i .. Len(A) : A[l] # Embeds PROVE Live(C, i, TRUE)
  <2>1. \A l \in i .. Len(C) : C[l] # Embeds
    BY <1>1, <1>3
  <2> QED BY <2>1 DEF Live
<1> QED BY <1>2, <1>3 DEF Live, A

(* ... or it goes on.                                                      *)
LEMMA LivePush ==
  ASSUME NEW C \in Seq(Calls), NEW c \in Calls, NEW on \in BOOLEAN, ~IsOutput(c),
         NEW i \in 1 .. Len(C), Live(Append(C, c), i, on)
  PROVE  Live(C, i, on)
<1> DEFINE A == Append(C, c)
<1>1. /\ Len(C) \in Nat /\ Len(A) = Len(C) + 1 /\ A[Len(C) + 1] = c
      /\ \A l \in 1 .. Len(C) : A[l] = C[l]
  BY AppendFacts
<1> HIDE DEF A
<1>2. ASSUME NEW j \in i .. Len(A), IsOutput(A[j]), \A l \in i .. j : A[l] # Embeds
      PROVE  Live(C, i, on)
  <2>1. j # Len(C) + 1
    BY <1>1, <1>2
  <2>2. j \in i .. Len(C) /\ A[j] = C[j] /\ \A l \in i .. j : C[l] = A[l]
    BY <1>1, <2>1
  <2> QED BY <1>2, <2>2 DEF Live
<1>3. ASSUME on, \A l \in i .. Len(A) : A[l] # Embeds PROVE Live(C, i, on)
  <2>1. \A l \in i .. Len(C) : C[l] # Embeds
    BY <1>1, <1>3
  <2> QED BY <1>3, <2>1 DEF Live
<1> QED BY <1>2, <1>3 DEF Live, A

LEMMA GuardPopCompute ==
  ASSUME NEW C \in Seq(Calls), C # <<>>, NEW D, NEW i \in 1 .. Len(C) - 1, NEW q,
         Guarded(C, D, i + 1, q)
  PROVE  Guarded(Tail(C), D, i, q)
<1>1. PICK w \in 1 .. q, j \in i + 2 .. Len(C) :
        D[w].do = "wait" /\ Does(C[j], "record", D[w].event) /\ C[j].number = D[w].number
  <2>1. (i + 1) + 1 = i + 2
    OBVIOUS
  <2> QED BY <2>1 DEF Guarded
<1>2. j - 1 \in i + 1 .. Len(Tail(C)) /\ Tail(C)[j - 1] = C[j]
  BY TailFacts
<1> QED BY <1>1, <1>2 DEF Guarded

(* No wait of the guards is passed while its record is queued.             *)
LEMMA GuardPopSide ==
  ASSUME NEW C, NEW D \in Seq(Calls), D # <<>>, NEW i \in Nat, NEW q \in 0 .. Len(D) - 1,
         D[1].do = "wait" =>
           \A j \in 1 .. Len(C) : Does(C[j], "record", D[1].event) => C[j].number # D[1].number,
         Guarded(C, D, i, q + 1)
  PROVE  Guarded(C, Tail(D), i, q)
<1>1. PICK w \in 1 .. q + 1, j \in i + 1 .. Len(C) :
        D[w].do = "wait" /\ Does(C[j], "record", D[w].event) /\ C[j].number = D[w].number
  BY DEF Guarded
<1>2. w # 1
  <2>1. j \in 1 .. Len(C)
    OBVIOUS
  <2> QED BY <1>1, <2>1
<1>3. w - 1 \in 1 .. q /\ Tail(D)[w - 1] = D[w]
  BY <1>2, TailFacts
<1> QED BY <1>1, <1>3 DEF Guarded

LEMMA GuardPushCompute ==
  ASSUME NEW C \in Seq(Calls), NEW c \in Calls, NEW D, NEW i \in 1 .. Len(C), NEW q,
         Guarded(C, D, i, q)
  PROVE  Guarded(Append(C, c), D, i, q)
<1>1. PICK w \in 1 .. q, j \in i + 1 .. Len(C) :
        D[w].do = "wait" /\ Does(C[j], "record", D[w].event) /\ C[j].number = D[w].number
  BY DEF Guarded
<1>2. j \in i + 1 .. Len(Append(C, c)) /\ Append(C, c)[j] = C[j]
  BY AppendFacts
<1> QED BY <1>1, <1>2 DEF Guarded

LEMMA GuardPushSide ==
  ASSUME NEW C, NEW D \in Seq(Calls), NEW d \in Calls, NEW i \in Nat,
         NEW q \in 0 .. Len(D), NEW p \in q .. Len(D) + 1, Guarded(C, D, i, q)
  PROVE  Guarded(C, Append(D, d), i, p)
<1>1. PICK w \in 1 .. q, j \in i + 1 .. Len(C) :
        D[w].do = "wait" /\ Does(C[j], "record", D[w].event) /\ C[j].number = D[w].number
  BY DEF Guarded
<1>2. w \in 1 .. p /\ w \in 1 .. Len(D) /\ Append(D, d)[w] = D[w]
  BY AppendFacts
<1> QED BY <1>1, <1>2 DEF Guarded

(* Own, when the compute stream's head is done: it is no wait that kept    *)
(* the multiplication behind its weights, for that wait is over.           *)
LEMMA OwnPopCompute ==
  ASSUME NEW C \in Seq(Calls), C # <<>>, NEW D \in Seq(Calls), NEW i \in 1 .. Len(C) - 1,
         NEW k, NEW m, NEW n, n[Slot(k)] = m[Slot(k)], Own(m, C, D, i + 1, k),
         C[1].do = "wait" =>
           \A j \in 1 .. Len(D) : Does(D[j], "record", C[1].event) => D[j].number # C[1].number
  PROVE  Own(n, Tail(C), D, i, k)
<1>1. PICK b \in 0 .. Len(D) :
        /\ b = 0 => m[Slot(k)] = {<<k, k>>}
        /\ b > 0 => /\ D[b] = Fills(k) /\ b < Len(D) /\ i + 1 > 1
                    /\ Does(C[(i + 1) - 1], "wait", <<"prefetch", k>>)
                    /\ Does(D[b + 1], "record", <<"prefetch", k>>)
                    /\ D[b + 1].number = C[(i + 1) - 1].number
        /\ \A q \in b + 1 .. Len(D) : Overwrites(D[q], k) => Guarded(C, D, i + 1, q)
  BY DEF Own
<1>2. (i + 1) - 1 = i /\ i \in Nat /\ Len(D) \in Nat /\ b \in Nat
  OBVIOUS
<1>3. b > 0 => i > 1
  <2> SUFFICES ASSUME b > 0, i = 1 PROVE FALSE
    BY <1>2
  <2>1. Does(C[1], "wait", <<"prefetch", k>>) /\ b + 1 \in 1 .. Len(D)
        /\ Does(D[b + 1], "record", <<"prefetch", k>>) /\ D[b + 1].number = C[1].number
    BY <1>1, <1>2
  <2> QED BY <2>1 DEF Does
<1>4. b > 0 => Tail(C)[i - 1] = C[i]
  BY <1>2, <1>3, TailFacts
<1>5. \A q \in b + 1 .. Len(D) : Overwrites(D[q], k) => Guarded(Tail(C), D, i, q)
  BY <1>1, GuardPopCompute
<1>6. /\ b = 0 => n[Slot(k)] = {<<k, k>>}
      /\ b > 0 => /\ D[b] = Fills(k) /\ b < Len(D) /\ i > 1
                  /\ Does(Tail(C)[i - 1], "wait", <<"prefetch", k>>)
                  /\ Does(D[b + 1], "record", <<"prefetch", k>>)
                  /\ D[b + 1].number = Tail(C)[i - 1].number
  BY <1>1, <1>2, <1>3, <1>4
<1> QED BY <1>5, <1>6 DEF Own

(* A call that overwrites is a copy.                                       *)
LEMMA OverwritesCopies ==
  ASSUME MoeLayers, NEW c, NEW k, Overwrites(c, k)
  PROVE  c.do = "copy"
BY CallFacts DEF Overwrites

(* Own, when the side stream's head is done: a copy brings its weights.    *)
LEMMA OwnPopSide ==
  ASSUME MoeLayers, NEW C \in Seq(Calls), NEW D \in Seq(Calls), D # <<>>, NEW i \in 1 .. Len(C),
         NEW k \in Layers, NEW m, NEW n, Own(m, C, D, i, k),
         D[1].do = "wait" =>
           \A j \in 1 .. Len(C) : Does(C[j], "record", D[1].event) => C[j].number # D[1].number,
         D[1] = Fills(k) => n[Slot(k)] = {<<k, k>>},
         ~Overwrites(D[1], k) => n[Slot(k)] = m[Slot(k)]
  PROVE  Own(n, C, Tail(D), i, k)
<1>1. PICK b \in 0 .. Len(D) :
        /\ b = 0 => m[Slot(k)] = {<<k, k>>}
        /\ b > 0 => /\ D[b] = Fills(k) /\ b < Len(D) /\ i > 1
                    /\ Does(C[i - 1], "wait", <<"prefetch", k>>)
                    /\ Does(D[b + 1], "record", <<"prefetch", k>>) /\ D[b + 1].number = C[i - 1].number
        /\ \A q \in b + 1 .. Len(D) : Overwrites(D[q], k) => Guarded(C, D, i, q)
  BY DEF Own
<1>2. /\ Len(D) \in Nat \ {0} /\ Len(Tail(D)) = Len(D) - 1 /\ i \in Nat
      /\ \A q \in 1 .. Len(D) - 1 : Tail(D)[q] = D[q + 1]
  BY TailFacts
<1>3. ASSUME NEW q \in 1 .. Len(D) - 1, q + 1 \in b + 1 .. Len(D), Overwrites(Tail(D)[q], k)
      PROVE  Guarded(C, Tail(D), i, q)
  <2>1. Overwrites(D[q + 1], k)
    BY <1>2, <1>3
  <2>2. Guarded(C, D, i, q + 1)
    BY <1>1, <1>3, <2>1
  <2> QED BY <1>2, <2>2, GuardPopSide
<1>4. CASE b = 0
  <2>1. ~Overwrites(D[1], k)
    <3> SUFFICES ASSUME Overwrites(D[1], k) PROVE FALSE
      OBVIOUS
    <3>1. 1 \in b + 1 .. Len(D)
      BY <1>2, <1>4
    <3>2. Guarded(C, D, i, 1)
      BY <1>1, <3>1
    <3>3. D[1].do = "wait"
      BY <3>2 DEF Guarded
    <3> QED BY <3>3, OverwritesCopies
  <2>2. n[Slot(k)] = {<<k, k>>}
    BY <1>1, <1>4, <2>1
  <2>3. \A q \in 1 .. Len(Tail(D)) : Overwrites(Tail(D)[q], k) => Guarded(C, Tail(D), i, q)
    BY <1>2, <1>3, <1>4
  <2>4. 0 \in 0 .. Len(Tail(D)) /\ 0 + 1 = 1 /\ ~(0 > 0)
    BY <1>2
  <2> QED BY <2>2, <2>3, <2>4 DEF Own
<1>5. CASE b = 1
  <2>1. n[Slot(k)] = {<<k, k>>}
    BY <1>1, <1>5
  <2>3. \A q \in 1 .. Len(Tail(D)) : Overwrites(Tail(D)[q], k) => Guarded(C, Tail(D), i, q)
    BY <1>2, <1>3, <1>5
  <2>4. 0 \in 0 .. Len(Tail(D)) /\ 0 + 1 = 1 /\ ~(0 > 0)
    BY <1>2
  <2> QED BY <2>1, <2>3, <2>4 DEF Own
<1>6. CASE b > 1
  <2>1. b - 1 \in 0 .. Len(Tail(D)) /\ b - 1 > 0 /\ (b - 1) + 1 = b /\ b - 1 # 0
        /\ b \in 1 .. Len(D) - 1 /\ b - 1 < Len(Tail(D)) /\ b - 1 \in 1 .. Len(D) - 1
    BY <1>1, <1>2, <1>6
  <2>2. Tail(D)[b - 1] = D[b] /\ Tail(D)[b] = D[b + 1]
    BY <1>2, <2>1
  <2>3. \A q \in b .. Len(Tail(D)) : Overwrites(Tail(D)[q], k) => Guarded(C, Tail(D), i, q)
    BY <1>2, <1>3, <1>6
  <2>4. /\ Tail(D)[b - 1] = Fills(k) /\ b - 1 < Len(Tail(D)) /\ i > 1
        /\ Does(C[i - 1], "wait", <<"prefetch", k>>)
        /\ Does(Tail(D)[(b - 1) + 1], "record", <<"prefetch", k>>)
        /\ Tail(D)[(b - 1) + 1].number = C[i - 1].number
    BY <1>1, <1>6, <2>1, <2>2
  <2>5. \A q \in (b - 1) + 1 .. Len(Tail(D)) : Overwrites(Tail(D)[q], k) => Guarded(C, Tail(D), i, q)
    BY <2>1, <2>3
  <2> QED BY <2>1, <2>4, <2>5 DEF Own
<1> QED BY <1>4, <1>5, <1>6

(* A copy that starts is not guarded, so nobody needs what it overwrites.  *)
LEMMA OwnStart ==
  ASSUME NEW C \in Seq(Calls), NEW D \in Seq(Calls), D # <<>>, NEW i \in 1 .. Len(C),
         NEW k \in Layers, NEW m, NEW n, Own(m, C, D, i, k), D[1].do # "wait",
         ~Overwrites(D[1], k) => n[Slot(k)] = m[Slot(k)]
  PROVE  Own(n, C, D, i, k)
<1>1. PICK b \in 0 .. Len(D) :
        /\ b = 0 => m[Slot(k)] = {<<k, k>>}
        /\ b > 0 => /\ D[b] = Fills(k) /\ b < Len(D) /\ i > 1
                    /\ Does(C[i - 1], "wait", <<"prefetch", k>>)
                    /\ Does(D[b + 1], "record", <<"prefetch", k>>) /\ D[b + 1].number = C[i - 1].number
        /\ \A q \in b + 1 .. Len(D) : Overwrites(D[q], k) => Guarded(C, D, i, q)
  BY DEF Own
<1>2. b = 0 => ~Overwrites(D[1], k)
  <2> SUFFICES ASSUME b = 0, Overwrites(D[1], k) PROVE FALSE
    OBVIOUS
  <2>1. 1 \in b + 1 .. Len(D)
    BY TailFacts
  <2>2. Guarded(C, D, i, 1)
    BY <1>1, <2>1
  <2> QED BY <2>2 DEF Guarded
<1> QED BY <1>1, <1>2 DEF Own

LEMMA OwnPushCompute ==
  ASSUME NEW C \in Seq(Calls), NEW c \in Calls, NEW D, NEW i \in 1 .. Len(C), NEW k, NEW m,
         Own(m, C, D, i, k)
  PROVE  Own(m, Append(C, c), D, i, k)
<1>1. PICK b \in 0 .. Len(D) :
        /\ b = 0 => m[Slot(k)] = {<<k, k>>}
        /\ b > 0 => /\ D[b] = Fills(k) /\ b < Len(D) /\ i > 1
                    /\ Does(C[i - 1], "wait", <<"prefetch", k>>)
                    /\ Does(D[b + 1], "record", <<"prefetch", k>>) /\ D[b + 1].number = C[i - 1].number
        /\ \A q \in b + 1 .. Len(D) : Overwrites(D[q], k) => Guarded(C, D, i, q)
  BY DEF Own
<1>2. i > 1 => Append(C, c)[i - 1] = C[i - 1]
  BY AppendFacts
<1>3. \A q \in b + 1 .. Len(D) : Overwrites(D[q], k) => Guarded(Append(C, c), D, i, q)
  BY <1>1, GuardPushCompute
<1> QED BY <1>1, <1>2, <1>3 DEF Own

(* A copy that is issued is guarded.                                       *)
LEMMA OwnPushSide ==
  ASSUME NEW C \in Seq(Calls), NEW D \in Seq(Calls), NEW d \in Calls, NEW i \in 1 .. Len(C),
         NEW k, NEW m, Own(m, C, D, i, k), Overwrites(d, k) => Guarded(C, D, i, Len(D))
  PROVE  Own(m, C, Append(D, d), i, k)
<1> DEFINE E == Append(D, d)
<1>1. PICK b \in 0 .. Len(D) :
        /\ b = 0 => m[Slot(k)] = {<<k, k>>}
        /\ b > 0 => /\ D[b] = Fills(k) /\ b < Len(D) /\ i > 1
                    /\ Does(C[i - 1], "wait", <<"prefetch", k>>)
                    /\ Does(D[b + 1], "record", <<"prefetch", k>>) /\ D[b + 1].number = C[i - 1].number
        /\ \A q \in b + 1 .. Len(D) : Overwrites(D[q], k) => Guarded(C, D, i, q)
  BY DEF Own
<1>2. /\ Len(D) \in Nat /\ Len(E) = Len(D) + 1 /\ E[Len(D) + 1] = d
      /\ \A q \in 1 .. Len(D) : E[q] = D[q]
  BY AppendFacts
<1>3. ASSUME NEW q \in b + 1 .. Len(E), Overwrites(E[q], k)
      PROVE  Guarded(C, E, i, q)
  <2>1. CASE q = Len(D) + 1
    <3>1. Guarded(C, D, i, Len(D)) /\ Len(D) \in 0 .. Len(D) /\ q \in Len(D) .. Len(D) + 1 /\ i \in Nat
      BY <1>2, <1>3, <2>1
    <3> QED BY <3>1, GuardPushSide
  <2>2. CASE q # Len(D) + 1
    <3>1. q \in b + 1 .. Len(D) /\ q \in 1 .. Len(D) /\ E[q] = D[q] /\ q \in 0 .. Len(D)
          /\ q \in q .. Len(D) + 1 /\ i \in Nat
      BY <1>2, <1>3, <2>2
    <3>2. Guarded(C, D, i, q)
      BY <1>1, <1>3, <3>1
    <3> QED BY <3>1, <3>2, GuardPushSide
  <2> QED BY <2>1, <2>2
<1>4. b \in 0 .. Len(E) /\ (b > 0 => E[b] = D[b] /\ b < Len(E) /\ E[b + 1] = D[b + 1])
  BY <1>1, <1>2
<1> HIDE DEF E
<1>5. Own(m, C, E, i, k)
  BY <1>1, <1>3, <1>4 DEF Own
<1> QED BY <1>5 DEF E

(***************************************************************************)
(* The prefetched path: the invariant                                      *)
(***************************************************************************)
Queued(C, D) ==
  /\ \A i \in 1 .. Len(C) : ComputeCall(C[i])
  /\ \A i \in 1 .. Len(D) : SideCall(D[i])
  /\ \A i \in 1 .. Len(C) - 1 : Follows(C[i], C[i + 1])

(* Whole weights on the host, and whole outputs.                           *)
Whole(m) ==
  /\ \A k \in Layers : m[<<"staged", k>>] = {<<k, k>>}
  /\ m[embed] = Residual
  /\ \A f \in 1 .. MaxForwards : m[<<"out", f>>] \in {Torn, Partial(moe_layers)}

(* What the running calls have read.                                       *)
SideSeen(seen, D) ==
  seen # <<>> =>
    /\ D # <<>>
    /\ \E k \in Layers : D[1] = Fills(k) /\ seen = [b \in {<<"staged", k>>} |-> {<<k, k>>}]

ComputeSeen(seen, C) ==
  seen # <<>> => /\ C # <<>> /\ C[1].do \in {"copy", "accumulate"}
                 /\ C[1] = Embeds => seen = [b \in {embed} |-> Residual]

(* Each live multiplication reads its own weights.                         *)
Fed(m, C, D, on) ==
  \A i \in 1 .. Len(C), k \in Layers :
    C[i] = Multiplies(k) /\ Live(C, i, on) => Own(m, C, D, i, k)

(* What x holds before a call of a forward, and after it.                  *)
Holds(v, c) ==
  /\ \A k \in Layers :
       /\ c = Multiplies(k) \/ Does(c, "wait", <<"prefetch", k>>) => v = Partial(k)
       /\ Does(c, "record", <<"computed", k>>) => v = Partial(k + 1)
  /\ IsOutput(c) => v = Partial(moe_layers)

Leaves(v, c) ==
  /\ c = Embeds => v = Partial(0)
  /\ \A k \in Layers :
       /\ Does(c, "wait", <<"prefetch", k>>) => v = Partial(k)
       /\ c = Multiplies(k) \/ Does(c, "record", <<"computed", k>>) => v = Partial(k + 1)

(* The residual, when the call at the head of the compute stream is live.  *)
Sums(m, seen, C, on) ==
  C # <<>> /\ Live(C, 1, on) =>
    /\ seen = <<>> => Holds(m[x], C[1])
    /\ seen # <<>> =>
         /\ IsOutput(C[1]) => m[x] = Partial(moe_layers) /\ seen[x] = Partial(moe_layers)
         /\ \A k \in Layers :
              C[1] = Multiplies(k) => seen[x] = Partial(k) /\ seen[Slot(k)] = {<<k, k>>}

(* The device, while the host is "on" with a forward or is not.            *)
Base(g, on) ==
  /\ Queued(g.queue["compute"], g.queue["side"]) /\ g.queue["null"] = <<>>
  /\ Numbered(g, g.queue["compute"]) /\ Numbered(g, g.queue["side"])
  /\ Whole(g.memory)
  /\ SideSeen(g.seen["side"], g.queue["side"])
  /\ ComputeSeen(g.seen["compute"], g.queue["compute"])
  /\ Fed(g.memory, g.queue["compute"], g.queue["side"], on)
  /\ Sums(g.memory, g.seen["compute"], g.queue["compute"], on)

(* The host has issued all of the layers before k, ...                     *)
AtLayer(g, k) ==
  LET C == g.queue["compute"]
  IN  /\ C = <<>> => g.memory[x] = Partial(k)
      /\ C # <<>> => /\ k = 0 => C[Len(C)] = Embeds
                     /\ k # 0 => Does(C[Len(C)], "record", <<"computed", k - 1>>)

(* ... or layer k up to its record.                                        *)
AtEnd(g, k) ==
  LET C == g.queue["compute"]
  IN  /\ C = <<>> => g.memory[x] = Partial(k + 1)
      /\ C # <<>> => C[Len(C)] = Multiplies(k)

(* The weights of layer k are in their slot or on their way, and nothing   *)
(* overwrites them.                                                        *)
Ready(g, k) ==
  LET D == g.queue["side"]
  IN  \E b \in 0 .. Len(D) :
        /\ b = 0 => g.memory[Slot(k)] = {<<k, k>>}
        /\ b > 0 => /\ D[b] = Fills(k) /\ b < Len(D)
                    /\ Does(D[b + 1], "record", <<"prefetch", k>>)
                    /\ D[b + 1].number = g.recorded[<<"prefetch", k>>]
        /\ \A q \in b + 1 .. Len(D) : ~Overwrites(D[q], k)

(* A copy issued now is behind every live multiplication.                  *)
AllGuarded(g, on) ==
  LET C == g.queue["compute"]
      D == g.queue["side"]
  IN  \A i \in 1 .. Len(C), k \in Layers :
        C[i] = Multiplies(k) /\ Live(C, i, on) => Guarded(C, D, i, Len(D))

(***************************************************************************)
(* The prefetched path: the device                                         *)
(***************************************************************************)

(* The calls of a stream are different things.                             *)
LEMMA ComputeKinds ==
  ASSUME MoeLayers, NEW c, ComputeCall(c)
  PROVE  /\ c.do \in {"copy", "accumulate"} <=> c = Embeds \/ IsOutput(c) \/ \E k \in Layers : c = Multiplies(k)
         /\ c.do = "wait" <=> \E k \in Layers : Does(c, "wait", <<"prefetch", k>>)
         /\ c.do = "record" <=> \E k \in Layers : Does(c, "record", <<"computed", k>>)
         /\ c.do = "accumulate" <=> \E k \in Layers : c = Multiplies(k)
         /\ c = Embeds => ~IsOutput(c)
BY CallFacts DEF ComputeCall, Does, IsOutput

LEMMA SideKinds ==
  ASSUME MoeLayers, NEW c, SideCall(c)
  PROVE  /\ c.do \in {"copy", "accumulate"} <=> \E k \in Layers : c = Fills(k)
         /\ c.do = "wait" <=> \E k \in Layers : Does(c, "wait", <<"computed", k>>)
         /\ c.do = "record" <=> \E k \in Layers : Does(c, "record", <<"prefetch", k>>)
BY CallFacts DEF SideCall, Does

(* What a call leaves is what the next one of its forward needs.           *)
LEMMA Advance ==
  ASSUME MoeLayers, NEW c, NEW d, NEW v, ComputeCall(c), ComputeCall(d), Follows(c, d),
         d # Embeds, Leaves(v, c)
  PROVE  Holds(v, d)
<1> USE CallFacts
<1>1. CASE c = Embeds /\ Does(d, "wait", <<"prefetch", 0>>)
  BY <1>1, EventFacts DEF Leaves, Holds, Does, IsOutput
<1>2. ASSUME NEW k \in Layers, Does(c, "wait", <<"prefetch", k>>), d = Multiplies(k)
      PROVE  Holds(v, d)
  BY <1>2 DEF Leaves, Holds, Does, IsOutput
<1>3. ASSUME NEW k \in Layers, c = Multiplies(k), Does(d, "record", <<"computed", k>>)
      PROVE  Holds(v, d)
  BY <1>3, EventFacts DEF Leaves, Holds, Does, IsOutput
<1>4. ASSUME NEW k \in Layers, k # 0, Does(c, "record", <<"computed", k - 1>>),
             Does(d, "wait", <<"prefetch", k>>)
      PROVE  Holds(v, d)
  <2>1. k - 1 \in Layers /\ (k - 1) + 1 = k
    BY <1>4, LayerFacts DEF Layers
  <2>2. v = Partial(k)
    BY <1>4, <2>1 DEF Leaves
  <2> QED BY <1>4, <2>2, EventFacts DEF Holds, Does, IsOutput
<1>5. ASSUME Does(c, "record", <<"computed", moe_layers - 1>>), IsOutput(d)
      PROVE  Holds(v, d)
  <2>1. moe_layers - 1 \in Layers /\ (moe_layers - 1) + 1 = moe_layers
    BY LayerFacts
  <2>2. v = Partial(moe_layers)
    BY <1>5, <2>1 DEF Leaves
  <2> QED BY <1>5, <2>2 DEF Holds, Does, IsOutput
<1> QED BY <1>1, <1>2, <1>3, <1>4, <1>5 DEF Follows

(* Host predicates a step of the device keeps.                             *)
HostKeeps(g, h) ==
  \A k \in Layers \cup {moe_layers} :
    /\ AtLayer(g, k) => AtLayer(h, k)
    /\ k \in Layers /\ AtEnd(g, k) => AtEnd(h, k)
    /\ k \in Layers /\ Ready(g, k) => Ready(h, k)

(* What a step of the device keeps.                                        *)
Kept(g, h, on) ==
  Typed(h) /\ Base(h, on) /\ (on => HostKeeps(g, h)) /\ (AllGuarded(g, on) => AllGuarded(h, on))

(* The head of the compute stream is done.                                 *)
ComputePopped(g, h, on) ==
  LET C == g.queue["compute"]
      D == g.queue["side"]
  IN  /\ C # <<>>
      /\ h.queue["compute"] = Tail(C) /\ h.queue["side"] = D /\ h.queue["null"] = g.queue["null"]
      /\ h.seen["compute"] = <<>> /\ h.seen["side"] = g.seen["side"] /\ h.recorded = g.recorded
      /\ Numbered(h, Tail(C)) /\ Numbered(h, D)
      /\ Whole(h.memory) /\ \A k \in Layers : h.memory[Slot(k)] = g.memory[Slot(k)]
      /\ C[1].do = "wait" =>
           \A j \in 1 .. Len(D) : Does(D[j], "record", C[1].event) => D[j].number # C[1].number
      /\ C[1] = Embeds \/ Live(C, 1, on) => Leaves(h.memory[x], C[1])

LEMMA PopCompute ==
  ASSUME MoeLayers, NEW g, NEW h, NEW on \in BOOLEAN, Typed(g), Typed(h), Base(g, on),
         ComputePopped(g, h, on)
  PROVE  Kept(g, h, on)
<1> DEFINE C == g.queue["compute"]
           D == g.queue["side"]
           T == Tail(C)
<1>1. C \in Seq(Calls) /\ D \in Seq(Calls) /\ C # <<>>
  BY DEF Typed, Streams, ComputePopped
<1>a. /\ T \in Seq(Calls) /\ Len(C) \in Nat \ {0} /\ Len(T) = Len(C) - 1
      /\ \A i \in 1 .. Len(C) - 1 : T[i] = C[i + 1]
  BY <1>1, TailFacts
<1>2. /\ T \in Seq(Calls) /\ Len(C) \in Nat \ {0} /\ Len(T) = Len(C) - 1
      /\ \A i \in 1 .. Len(C) - 1 : T[i] = C[i + 1]
      /\ Len(T) \in Nat /\ (T # <<>> <=> Len(T) # 0)
  <2> HIDE DEF T, C
  <2> QED BY <1>a, EmptySeq
<1>b. /\ Queued(C, D) /\ SideSeen(g.seen["side"], D) /\ Fed(g.memory, C, D, on)
      /\ g.queue["null"] = <<>>
  BY DEF Base
<1>h. /\ h.queue["compute"] = T /\ h.queue["side"] = D /\ C # <<>>
      /\ C[1] = Embeds \/ Live(C, 1, on) => Leaves(h.memory[x], C[1])
      /\ C[1].do = "wait" =>
           \A j \in 1 .. Len(D) : Does(D[j], "record", C[1].event) => D[j].number # C[1].number
      /\ h.queue["null"] = g.queue["null"]
      /\ h.seen["compute"] = <<>> /\ h.seen["side"] = g.seen["side"] /\ h.recorded = g.recorded
      /\ Numbered(h, T) /\ Numbered(h, D)
      /\ Whole(h.memory) /\ \A k \in Layers : h.memory[Slot(k)] = g.memory[Slot(k)]
  BY DEF ComputePopped
<1> HIDE DEF C, D, T
<1>3. Queued(T, D)
  <2>1. \A i \in 1 .. Len(T) : ComputeCall(T[i])
    BY <1>b, <1>2 DEF Queued
  <2>2. \A i \in 1 .. Len(T) - 1 : Follows(T[i], T[i + 1])
    <3> SUFFICES ASSUME NEW i \in 1 .. Len(T) - 1 PROVE Follows(T[i], T[i + 1])
      OBVIOUS
    <3>1. i + 1 \in 1 .. Len(C) - 1 /\ T[i] = C[i + 1] /\ T[i + 1] = C[(i + 1) + 1]
      BY <1>2
    <3> QED BY <1>b, <3>1 DEF Queued
  <2> QED BY <1>b, <2>1, <2>2 DEF Queued
<1>4. ASSUME NEW i \in 1 .. Len(T), NEW k \in Layers, T[i] = Multiplies(k), Live(T, i, on)
      PROVE  i \in 1 .. Len(C) - 1 /\ C[i + 1] = Multiplies(k) /\ Live(C, i + 1, on)
             /\ i + 1 \in 1 .. Len(C)
  <2>1. i \in 1 .. Len(C) - 1 /\ i + 1 \in 1 .. Len(C)
    BY <1>2
  <2> QED BY <1>1, <1>2, <1>4, <1>h, <2>1, LivePop DEF T
<1>5. Fed(h.memory, T, D, on)
  <2> SUFFICES ASSUME NEW i \in 1 .. Len(T), NEW k \in Layers, T[i] = Multiplies(k), Live(T, i, on)
               PROVE  Own(h.memory, T, D, i, k)
    BY DEF Fed
  <2>1. i \in 1 .. Len(C) - 1 /\ Own(g.memory, C, D, i + 1, k)
    BY <1>4, <1>b DEF Fed
  <2> QED BY <1>1, <1>h, <2>1, OwnPopCompute DEF T
<1>6. ASSUME T # <<>>, Live(T, 1, on) PROVE Holds(h.memory[x], T[1])
  <2>1. 1 \in 1 .. Len(C) - 1 /\ T[1] = C[2] /\ Len(C) >= 2 /\ 1 + 1 = 2
    BY <1>2, <1>6
  <2>2. Live(C, 2, on)
    BY <1>1, <1>6, <1>h, <2>1, LivePop DEF T
  <2>3. C[2] # Embeds /\ ComputeCall(C[1]) /\ ComputeCall(C[2]) /\ Follows(C[1], C[2])
    BY <1>1, <1>b, <2>1, <2>2, EmbedsNotLive DEF Queued
  <2>4. Leaves(h.memory[x], C[1])
    BY <1>1, <1>h, <2>1, <2>2, LiveHead
  <2> QED BY <2>1, <2>3, <2>4, Advance
<1>7. Base(h, on)
  BY <1>3, <1>5, <1>6, <1>h, <1>b DEF Base, ComputeSeen, Sums
<1>8. ASSUME on, NEW k \in Layers \cup {moe_layers}, AtLayer(g, k) PROVE AtLayer(h, k)
  <2>1. (k = 0 => C[Len(C)] = Embeds) /\ (k # 0 => Does(C[Len(C)], "record", <<"computed", k - 1>>))
    BY <1>8, <1>h DEF AtLayer, C
  <2>2. T # <<>> => T[Len(T)] = C[Len(C)]
    BY <1>2
  <2>3. CASE T = <<>>
    <3>1. Len(C) = 1
      BY <1>2, <2>3
    <3>2. C[1] = Embeds \/ Live(C, 1, on)
      BY <1>8, <3>1 DEF Live
    <3>3. h.memory[x] = Partial(k)
      <4>1. CASE k = 0
        BY <1>h, <2>1, <3>1, <3>2, <4>1 DEF Leaves
      <4>2. CASE k # 0
        <5>1. k - 1 \in Layers /\ (k - 1) + 1 = k
          BY <4>2, LayerFacts DEF Layers
        <5> QED BY <1>h, <2>1, <3>1, <3>2, <4>2, <5>1 DEF Leaves
      <4> QED BY <4>1, <4>2
    <3> QED BY <1>h, <2>3, <3>3 DEF AtLayer
  <2> QED BY <1>h, <2>1, <2>2, <2>3 DEF AtLayer
<1>9. ASSUME on, NEW k \in Layers, AtEnd(g, k) PROVE AtEnd(h, k)
  <2>1. C[Len(C)] = Multiplies(k)
    BY <1>9, <1>h DEF AtEnd, C
  <2>2. T # <<>> => T[Len(T)] = C[Len(C)]
    BY <1>2
  <2>3. CASE T = <<>>
    <3>1. Len(C) = 1
      BY <1>2, <2>3
    <3>2. C[1] = Embeds \/ Live(C, 1, on)
      BY <1>9, <3>1 DEF Live
    <3>3. h.memory[x] = Partial(k + 1)
      BY <1>h, <2>1, <3>1, <3>2 DEF Leaves
    <3> QED BY <1>h, <2>3, <3>3 DEF AtEnd
  <2> QED BY <1>h, <2>1, <2>2, <2>3 DEF AtEnd
<1>10. ASSUME NEW k \in Layers, Ready(g, k) PROVE Ready(h, k)
  BY <1>10, <1>h DEF Ready, D
<1>11. ASSUME AllGuarded(g, on) PROVE AllGuarded(h, on)
  <2> SUFFICES ASSUME NEW i \in 1 .. Len(T), NEW k \in Layers, T[i] = Multiplies(k), Live(T, i, on)
               PROVE  Guarded(T, D, i, Len(D))
    BY <1>h DEF AllGuarded
  <2>1. i \in 1 .. Len(C) - 1 /\ Guarded(C, D, i + 1, Len(D))
    BY <1>4, <1>11 DEF AllGuarded, C, D
  <2> QED BY <1>1, <1>h, <2>1, GuardPopCompute DEF T
<1> QED BY <1>7, <1>8, <1>9, <1>10, <1>11 DEF HostKeeps, Kept

(* The head of the side stream is done, with what it copied in its slot.   *)
SidePopped(g, h) ==
  LET C == g.queue["compute"]
      D == g.queue["side"]
  IN  /\ D # <<>>
      /\ h.queue["side"] = Tail(D) /\ h.queue["compute"] = C /\ h.queue["null"] = g.queue["null"]
      /\ h.seen["side"] = <<>> /\ h.seen["compute"] = g.seen["compute"] /\ h.recorded = g.recorded
      /\ Numbered(h, C) /\ Numbered(h, Tail(D))
      /\ Whole(h.memory) /\ h.memory[x] = g.memory[x]
      /\ \A k \in Layers :
           /\ D[1] = Fills(k) => h.memory[Slot(k)] = {<<k, k>>}
           /\ ~Overwrites(D[1], k) => h.memory[Slot(k)] = g.memory[Slot(k)]
      /\ D[1].do = "wait" =>
           \A j \in 1 .. Len(C) : Does(C[j], "record", D[1].event) => C[j].number # D[1].number

LEMMA PopSide ==
  ASSUME MoeLayers, NEW g, NEW h, NEW on \in BOOLEAN, Typed(g), Typed(h), Base(g, on),
         SidePopped(g, h)
  PROVE  Kept(g, h, on)
<1> DEFINE C == g.queue["compute"]
           D == g.queue["side"]
           T == Tail(D)
<1>1. C \in Seq(Calls) /\ D \in Seq(Calls) /\ D # <<>>
  BY DEF Typed, Streams, SidePopped
<1>a. /\ T \in Seq(Calls) /\ Len(D) \in Nat \ {0} /\ Len(T) = Len(D) - 1
      /\ \A i \in 1 .. Len(D) - 1 : T[i] = D[i + 1]
  BY <1>1, TailFacts
<1>b. /\ Queued(C, D) /\ ComputeSeen(g.seen["compute"], C) /\ Fed(g.memory, C, D, on)
      /\ g.queue["null"] = <<>> /\ Sums(g.memory, g.seen["compute"], C, on)
  BY DEF Base
<1>h. /\ h.queue["compute"] = C /\ h.queue["side"] = T /\ D # <<>>
      /\ \A k \in Layers :
           /\ D[1] = Fills(k) => h.memory[Slot(k)] = {<<k, k>>}
           /\ ~Overwrites(D[1], k) => h.memory[Slot(k)] = g.memory[Slot(k)]
      /\ D[1].do = "wait" =>
           \A j \in 1 .. Len(C) : Does(C[j], "record", D[1].event) => C[j].number # D[1].number
      /\ h.queue["null"] = g.queue["null"]
      /\ h.seen["side"] = <<>> /\ h.seen["compute"] = g.seen["compute"] /\ h.recorded = g.recorded
      /\ Numbered(h, C) /\ Numbered(h, T)
      /\ Whole(h.memory) /\ h.memory[x] = g.memory[x]
  BY DEF SidePopped
<1> HIDE DEF C, D, T
<1>2. Len(T) \in Nat
  BY <1>a
<1>3. Queued(C, T)
  BY <1>a, <1>b DEF Queued
<1>4. Fed(h.memory, C, T, on)
  <2> SUFFICES ASSUME NEW i \in 1 .. Len(C), NEW k \in Layers, C[i] = Multiplies(k), Live(C, i, on)
               PROVE  Own(h.memory, C, T, i, k)
    BY DEF Fed
  <2>1. Own(g.memory, C, D, i, k)
    BY <1>b DEF Fed
  <2> QED BY <1>1, <1>h, <2>1, OwnPopSide DEF T
<1>5. Base(h, on)
  BY <1>3, <1>4, <1>h, <1>b DEF Base, SideSeen, Sums
<1>6. ASSUME NEW k \in Layers \cup {moe_layers}
      PROVE  (AtLayer(g, k) => AtLayer(h, k)) /\ (AtEnd(g, k) => AtEnd(h, k))
  BY <1>h DEF AtLayer, AtEnd, C
<1>7. ASSUME NEW k \in Layers, Ready(g, k) PROVE Ready(h, k)
  <2>1. PICK b \in 0 .. Len(D) :
          /\ b = 0 => g.memory[Slot(k)] = {<<k, k>>}
          /\ b > 0 => /\ D[b] = Fills(k) /\ b < Len(D)
                      /\ Does(D[b + 1], "record", <<"prefetch", k>>)
                      /\ D[b + 1].number = h.recorded[<<"prefetch", k>>]
          /\ \A q \in b + 1 .. Len(D) : ~Overwrites(D[q], k)
    BY <1>7, <1>h DEF Ready, D
  <2>2. \A q \in 1 .. Len(T) : q + 1 \in b + 1 .. Len(D) => ~Overwrites(T[q], k)
    <3> SUFFICES ASSUME NEW q \in 1 .. Len(T), q + 1 \in b + 1 .. Len(D)
                 PROVE  ~Overwrites(T[q], k)
      OBVIOUS
    <3>1. T[q] = D[q + 1]
      BY <1>a
    <3> QED BY <2>1, <3>1
  <2>3. CASE b = 0
    <3>1. h.memory[Slot(k)] = {<<k, k>>}
      BY <1>a, <1>h, <2>1, <2>3
    <3>2. \A q \in 1 .. Len(T) : ~Overwrites(T[q], k)
      BY <1>a, <2>2, <2>3
    <3>3. 0 \in 0 .. Len(T) /\ 0 + 1 = 1 /\ ~(0 > 0)
      BY <1>2
    <3> QED BY <1>h, <3>1, <3>2, <3>3 DEF Ready
  <2>4. CASE b = 1
    <3>1. h.memory[Slot(k)] = {<<k, k>>}
      BY <1>h, <2>1, <2>4
    <3>2. \A q \in 1 .. Len(T) : ~Overwrites(T[q], k)
      BY <1>a, <2>2, <2>4
    <3>3. 0 \in 0 .. Len(T) /\ 0 + 1 = 1 /\ ~(0 > 0)
      BY <1>2
    <3> QED BY <1>h, <3>1, <3>2, <3>3 DEF Ready
  <2>5. CASE b > 1
    <3>1. b - 1 \in 0 .. Len(T) /\ b - 1 > 0 /\ (b - 1) + 1 = b /\ b - 1 # 0 /\ b - 1 < Len(T)
          /\ T[b - 1] = D[b] /\ T[b] = D[b + 1]
      BY <1>a, <2>1, <2>5
    <3>2. \A q \in b .. Len(T) : ~Overwrites(T[q], k)
      BY <1>a, <2>2, <2>5
    <3>3. /\ T[b - 1] = Fills(k) /\ b - 1 < Len(T)
          /\ Does(T[(b - 1) + 1], "record", <<"prefetch", k>>)
          /\ T[(b - 1) + 1].number = h.recorded[<<"prefetch", k>>]
          /\ \A q \in (b - 1) + 1 .. Len(T) : ~Overwrites(T[q], k)
      BY <2>1, <2>5, <3>1, <3>2
    <3> QED BY <1>h, <3>1, <3>3 DEF Ready
  <2> QED BY <2>3, <2>4, <2>5
<1>8. ASSUME AllGuarded(g, on) PROVE AllGuarded(h, on)
  <2> SUFFICES ASSUME NEW i \in 1 .. Len(C), NEW k \in Layers, C[i] = Multiplies(k), Live(C, i, on)
               PROVE  Guarded(C, T, i, Len(T))
    BY <1>h DEF AllGuarded
  <2>1. Guarded(C, D, i, Len(D)) /\ (Len(D) - 1) + 1 = Len(D) /\ i \in Nat
        /\ Len(D) - 1 \in 0 .. Len(D) - 1
    BY <1>8, <1>a DEF AllGuarded, C, D
  <2>2. Guarded(C, T, i, Len(D) - 1)
    BY <1>1, <1>h, <2>1, GuardPopSide DEF T
  <2> QED BY <1>a, <2>2
<1> QED BY <1>5, <1>6, <1>7, <1>8 DEF HostKeeps, Kept

LEMMA PartialFacts ==
  /\ Partial(0) = Residual
  /\ \A n \in Nat : Partial(n) # Torn /\ Partial(n + 1) = Partial(n) \cup {<<n, n>>}
<1>1. 0 .. 0 - 1 = {}
  OBVIOUS
<1>2. Partial(0) = Residual
  BY <1>1 DEF Partial
<1>3. ASSUME NEW n \in Nat PROVE Partial(n) # Torn
  BY DEF Partial, Torn, Residual
<1>4. ASSUME NEW n \in Nat PROVE Partial(n + 1) = Partial(n) \cup {<<n, n>>}
  <2>1. 0 .. (n + 1) - 1 = (0 .. n - 1) \cup {n}
    OBVIOUS
  <2> QED BY <2>1 DEF Partial
<1> QED BY <1>2, <1>3, <1>4

LEMMA ReadsFacts ==
  /\ Reads(Embeds) = {embed}
  /\ \A f : Reads(Outputs(f)) = {x}
  /\ \A k : Reads(Multiplies(k)) = {x, Slot(k)}
  /\ \A k : Reads(Fills(k)) = {<<"staged", k>>}
<1>1. \A s, to, from : Reads(Copy(s, to, from)) = {from}
  BY DEF Reads, Copy
<1>2. \A k : Reads(Multiplies(k)) = {x, Slot(k)}
  BY DEF Reads, Multiplies, Accumulate
<1> QED BY <1>1, <1>2 DEF Embeds, Outputs, Fills

(* What a multiplication leaves when it read its own weights.              *)
LEMMA MultiplyWrites ==
  ASSUME NEW s, NEW k \in Nat, gpu.seen[s][x] = Partial(k), gpu.seen[s][Slot(k)] = {<<k, k>>},
         gpu.memory[Slot(k)] = {<<k, k>>}
  PROVE  Written(s, Multiplies(k)) = Partial(k + 1)
<1> DEFINE W(t) == IF ReadWhole(s, t[2]) THEN gpu.memory[t[2]] ELSE Corrupt
           S(t) == {<<t[1], w[2]>> : w \in W(t)}
<1>1. /\ Multiplies(k).do # "copy" /\ Multiplies(k).to = x
      /\ Multiplies(k).terms = {<<k, Slot(k)>>}
  BY DEF Multiplies, Accumulate
<1>2. Written(s, Multiplies(k)) = Partial(k) \cup UNION {S(t) : t \in {<<k, Slot(k)>>}}
  BY <1>1 DEF Written
<1>3. S(<<k, Slot(k)>>) = {<<k, k>>}
  <2>1. <<k, Slot(k)>>[1] = k /\ <<k, Slot(k)>>[2] = Slot(k)
    OBVIOUS
  <2>2. W(<<k, Slot(k)>>) = {<<k, k>>}
    BY <2>1 DEF ReadWhole, Torn
  <2> HIDE DEF W
  <2>3. S(<<k, Slot(k)>>) = {<<k, w[2]>> : w \in {<<k, k>>}}
    BY <2>1, <2>2
  <2> QED BY <2>3
<1> HIDE DEF S
<1>4. UNION {S(t) : t \in {<<k, Slot(k)>>}} = {<<k, k>>}
  BY <1>3
<1> QED BY <1>2, <1>4, PartialFacts

LEMMA ComputeStarts ==
  ASSUME MoeLayers, NEW on \in BOOLEAN, Typed(gpu), Base(gpu, on), Starts("compute")
  PROVE  Kept(gpu, gpu', on)
<1> DEFINE C == gpu.queue["compute"]
           D == gpu.queue["side"]
           m == gpu.memory
           n == gpu'.memory
           seen == gpu'.seen["compute"]
           c == C[1]
<1>1. C \in Seq(Calls) /\ D \in Seq(Calls) /\ Len(C) \in Nat \ {0} /\ C # <<>>
  BY HeadFacts DEF Typed, Starts, Moves, Streams
<1>2. /\ Typed(gpu') /\ c.do \in {"copy", "accumulate"} /\ gpu.seen["compute"] = <<>>
      /\ gpu'.queue = gpu.queue /\ gpu'.recorded = gpu.recorded /\ gpu'.completed = gpu.completed
      /\ seen = [b \in Reads(c) |-> m[b]] /\ gpu'.seen["side"] = gpu.seen["side"]
      /\ c.to \in Buffers => n[c.to] = Torn
      /\ \A b \in Buffers : b # c.to => n[b] = m[b]
  BY StartsFacts DEF Streams
<1>b. /\ Queued(C, D) /\ gpu.queue["null"] = <<>> /\ Whole(m)
      /\ Numbered(gpu, C) /\ Numbered(gpu, D) /\ SideSeen(gpu.seen["side"], D)
      /\ Fed(m, C, D, on) /\ Sums(m, <<>>, C, on)
  BY <1>2 DEF Base
<1> HIDE DEF C, D, m, n, seen
<1>3. c = Embeds \/ IsOutput(c) \/ \E k \in Layers : c = Multiplies(k)
  BY <1>1, <1>2, <1>b, ComputeKinds DEF Queued
<1>4. c.to \in Buffers /\ (c.to = x \/ \E f \in 1 .. MaxForwards : c.to = <<"out", f>>)
  BY <1>3, CallFacts, BufferFacts DEF IsOutput
<1>5. \A k \in Layers : n[Slot(k)] = m[Slot(k)] /\ n[<<"staged", k>>] = m[<<"staged", k>>]
  <2> SUFFICES ASSUME NEW k \in Layers
               PROVE  n[Slot(k)] = m[Slot(k)] /\ n[<<"staged", k>>] = m[<<"staged", k>>]
    OBVIOUS
  <2>1. Slot(k) \in Buffers /\ <<"staged", k>> \in Buffers
    BY LayerFacts
  <2>2. Slot(k) # x /\ <<"staged", k>> # x
    BY LayerFacts, BufferFacts
  <2>3. \A f : Slot(k) # <<"out", f>> /\ <<"staged", k>> # <<"out", f>>
    BY LayerFacts, BufferFacts
  <2> QED BY <1>2, <1>4, <2>1, <2>2, <2>3
<1>6. Whole(n)
  <2>1. n[embed] = m[embed]
    BY <1>2, <1>4, BufferFacts
  <2>2. ASSUME NEW f \in 1 .. MaxForwards PROVE n[<<"out", f>>] \in {Torn, Partial(moe_layers)}
    <3>1. <<"out", f>> \in Buffers
      BY BufferFacts
    <3> QED BY <1>2, <1>b, <3>1 DEF Whole
  <2> QED BY <1>5, <1>b, <2>1, <2>2 DEF Whole
<1>7. ComputeSeen(seen, C)
  <2>1. c = Embeds => seen = [b \in {embed} |-> Residual]
    <3> SUFFICES ASSUME c = Embeds PROVE seen = [b \in {embed} |-> Residual]
      OBVIOUS
    <3>1. seen = [b \in {embed} |-> m[b]]
      BY <1>2, ReadsFacts
    <3> QED BY <3>1, <1>b DEF Whole
  <2> QED BY <1>1, <1>2, <2>1 DEF ComputeSeen
<1>8. Fed(n, C, D, on)
  BY <1>5, <1>b DEF Fed, Own
<1>9. ASSUME Live(C, 1, on)
      PROVE  /\ seen = <<>> => Holds(n[x], C[1])
             /\ seen # <<>> =>
                /\ IsOutput(C[1]) => n[x] = Partial(moe_layers) /\ seen[x] = Partial(moe_layers)
                /\ \A k \in Layers :
                     C[1] = Multiplies(k) => seen[x] = Partial(k) /\ seen[Slot(k)] = {<<k, k>>}
  <2>1. Holds(m[x], c) /\ c # Embeds
    BY <1>1, <1>9, <1>b, EmbedsNotLive DEF Sums
  <2>2. x \in Reads(c)
    BY <1>3, <2>1, ReadsFacts DEF IsOutput
  <2>3. seen # <<>> /\ seen[x] = m[x]
    BY <1>2, <2>2
  <2>4. ASSUME IsOutput(c) PROVE n[x] = Partial(moe_layers) /\ seen[x] = Partial(moe_layers)
    <3>1. c.to # x
      BY <2>4, CallFacts, BufferFacts DEF IsOutput
    <3> QED BY <1>2, <2>1, <2>3, <2>4, <3>1, BufferFacts DEF Holds
  <2>5. ASSUME NEW k \in Layers, c = Multiplies(k)
        PROVE  seen[x] = Partial(k) /\ seen[Slot(k)] = {<<k, k>>}
    <3>1. Own(m, C, D, 1, k)
      BY <1>1, <1>9, <1>b, <2>5 DEF Fed
    <3>2. m[Slot(k)] = {<<k, k>>}
      BY <3>1 DEF Own
    <3>3. seen[Slot(k)] = m[Slot(k)]
      BY <1>2, <2>5, ReadsFacts
    <3> QED BY <2>1, <2>3, <2>5, <3>2, <3>3 DEF Holds
  <2> QED BY <2>3, <2>4, <2>5
<1>10. Base(gpu', on)
  <2>1. Sums(n, seen, C, on)
    BY <1>9 DEF Sums
  <2>2. Numbered(gpu', C) /\ Numbered(gpu', D)
    BY <1>2, <1>b DEF Numbered
  <2> QED BY <1>2, <1>b, <1>6, <1>7, <1>8, <2>1, <2>2 DEF Base, C, D, m, n, seen
<1>11. HostKeeps(gpu, gpu')
  <2>1. \A k \in Layers : Ready(gpu, k) => Ready(gpu', k)
    BY <1>2, <1>5 DEF Ready, m, n
  <2> QED BY <1>1, <1>2, <2>1 DEF HostKeeps, AtLayer, AtEnd, C
<1>12. AllGuarded(gpu, on) => AllGuarded(gpu', on)
  BY <1>2 DEF AllGuarded
<1> QED BY <1>2, <1>10, <1>11, <1>12 DEF Kept

LEMMA ComputeFinishes ==
  ASSUME MoeLayers, NEW on \in BOOLEAN, Typed(gpu), Base(gpu, on), Finishes("compute")
  PROVE  Kept(gpu, gpu', on)
<1> DEFINE C == gpu.queue["compute"]
           D == gpu.queue["side"]
           m == gpu.memory
           n == gpu'.memory
           seen == gpu.seen["compute"]
           c == C[1]
<1>1. C \in Seq(Calls) /\ D \in Seq(Calls) /\ Len(C) \in Nat \ {0} /\ C # <<>>
  BY HeadFacts DEF Typed, Finishes, Moves, Streams
<1>2. /\ Typed(gpu') /\ c.do \in {"copy", "accumulate"} /\ seen # <<>>
      /\ gpu'.queue["compute"] = Tail(C) /\ gpu'.queue["side"] = D
      /\ gpu'.queue["null"] = gpu.queue["null"]
      /\ gpu'.recorded = gpu.recorded /\ gpu'.completed = gpu.completed
      /\ gpu'.seen["compute"] = <<>> /\ gpu'.seen["side"] = gpu.seen["side"]
      /\ c.to \in Buffers => n[c.to] = Written("compute", c)
      /\ \A b \in Buffers : b # c.to => n[b] = m[b]
  BY FinishesFacts DEF Streams
<1>b. /\ Queued(C, D) /\ Whole(m) /\ Numbered(gpu, C) /\ Numbered(gpu, D)
      /\ Fed(m, C, D, on) /\ Sums(m, seen, C, on) /\ ComputeSeen(seen, C)
  BY <1>2 DEF Base
<1>m. m = gpu.memory /\ seen = gpu.seen["compute"] /\ c = C[1]
  OBVIOUS
<1> HIDE DEF C, D, m, n, seen, c
<1>3. c = Embeds \/ IsOutput(c) \/ \E k \in Layers : c = Multiplies(k)
  BY <1>1, <1>2, <1>b, <1>m, ComputeKinds DEF Queued
<1>4. c.to \in Buffers /\ (c.to = x \/ \E f \in 1 .. MaxForwards : c.to = <<"out", f>>)
  BY <1>3, CallFacts, BufferFacts DEF IsOutput
<1>5. \A k \in Layers : n[Slot(k)] = m[Slot(k)] /\ n[<<"staged", k>>] = m[<<"staged", k>>]
  <2> SUFFICES ASSUME NEW k \in Layers
               PROVE  n[Slot(k)] = m[Slot(k)] /\ n[<<"staged", k>>] = m[<<"staged", k>>]
    OBVIOUS
  <2>1. Slot(k) \in Buffers /\ <<"staged", k>> \in Buffers
    BY LayerFacts
  <2>2. Slot(k) # x /\ <<"staged", k>> # x
    BY LayerFacts, BufferFacts
  <2>3. \A f : Slot(k) # <<"out", f>> /\ <<"staged", k>> # <<"out", f>>
    BY LayerFacts, BufferFacts
  <2> QED BY <1>2, <1>4, <2>1, <2>2, <2>3
<1>6. ASSUME IsOutput(c) PROVE Written("compute", c) = Partial(moe_layers)
  <2>1. Live(C, 1, on)
    <3>1. 1 \in 1 .. Len(C) /\ IsOutput(C[1]) /\ C[1] # Embeds
      <4>1. PICK f \in 1 .. MaxForwards : C[1] = Outputs(f)
        BY <1>6, <1>m DEF IsOutput
      <4>2. C[1] # Embeds
        BY <4>1, CallFacts
      <4> QED BY <1>1, <1>6, <1>m, <4>2
    <3>2. \A l \in 1 .. 1 : C[l] # Embeds
      BY <3>1
    <3> QED BY <3>1, <3>2 DEF Live
  <2>2. m[x] = Partial(moe_layers) /\ seen[x] = Partial(moe_layers)
    BY <1>1, <1>2, <1>6, <1>b, <1>m, <2>1 DEF Sums
  <2>3. moe_layers \in Nat
    BY LayerFacts
  <2>4. PICK f \in 1 .. MaxForwards : c = Copy("compute", <<"out", f>>, x)
    BY <1>6 DEF IsOutput, Outputs
  <2>5. Partial(moe_layers) # Torn
    BY <2>3, PartialFacts
  <2>6. gpu.seen["compute"][x] = gpu.memory[x] /\ gpu.memory[x] # Torn
    BY <1>m, <2>2, <2>5
  <2>7. Written("compute", Copy("compute", <<"out", f>>, x)) = gpu.memory[x]
    BY <2>6, CopyWrites
  <2> QED BY <1>m, <2>2, <2>4, <2>7
<1>7. Whole(n)
  <2>1. n[embed] = m[embed]
    BY <1>2, <1>4, BufferFacts
  <2>2. ASSUME NEW f \in 1 .. MaxForwards PROVE n[<<"out", f>>] \in {Torn, Partial(moe_layers)}
    <3>1. <<"out", f>> \in Buffers
      BY BufferFacts
    <3>2. c.to = <<"out", f>> => IsOutput(c)
      BY <1>3, CallFacts, BufferFacts
    <3>3. m[<<"out", f>>] \in {Torn, Partial(moe_layers)}
      BY <1>b DEF Whole
    <3>4. CASE c.to = <<"out", f>>
      <4>1. Written("compute", c) = Partial(moe_layers)
        BY <1>6, <3>2, <3>4
      <4>2. n[<<"out", f>>] = Written("compute", c)
        BY <1>2, <3>1, <3>4
      <4> QED BY <4>1, <4>2
    <3>5. CASE c.to # <<"out", f>>
      <4>1. n[<<"out", f>>] = m[<<"out", f>>]
        BY <1>2, <3>1, <3>5
      <4> QED BY <3>3, <4>1
    <3> QED BY <3>4, <3>5
  <2> QED BY <1>5, <1>b, <2>1, <2>2 DEF Whole
<1>8. c = Embeds \/ Live(C, 1, on) => Leaves(n[x], c)
  <2>1. ASSUME c = Embeds PROVE n[x] = Partial(0)
    <3>1. seen[embed] = Residual /\ m[embed] = Residual
      BY <1>2, <1>b, <1>m, <2>1 DEF ComputeSeen, Whole
    <3>2. Residual # Torn
      BY DEF Residual, Torn
    <3>3. Written("compute", c) = Residual
      BY <1>m, <2>1, <3>1, <3>2, CopyWrites DEF Embeds
    <3> QED BY <1>2, <1>4, <2>1, <3>3, CallFacts, PartialFacts
  <2>2. ASSUME Live(C, 1, on), NEW k \in Layers, c = Multiplies(k) PROVE n[x] = Partial(k + 1)
    <3>1. seen[x] = Partial(k) /\ seen[Slot(k)] = {<<k, k>>}
      BY <1>1, <1>2, <1>b, <1>m, <2>2 DEF Sums
    <3>2. Own(m, C, D, 1, k)
      <4>1. 1 \in 1 .. Len(C) /\ C[1] = Multiplies(k)
        BY <1>1, <1>m, <2>2
      <4> QED BY <1>b, <2>2, <4>1 DEF Fed
    <3>3. m[Slot(k)] = {<<k, k>>} /\ k \in Nat
      BY <3>2, LayerFacts DEF Own
    <3>4. Written("compute", c) = Partial(k + 1)
      BY <1>m, <2>2, <3>1, <3>3, MultiplyWrites
    <3> QED BY <1>2, <1>4, <2>2, <3>4, CallFacts
  <2>3. c.do # "wait" /\ c.do # "record"
    BY <1>2
  <2>4. c = Embeds => \A k \in Layers : c # Multiplies(k)
    BY CallFacts
  <2>5. Live(C, 1, on) => c # Embeds
    BY <1>1, <1>m, EmbedsNotLive
  <2> QED BY <2>1, <2>2, <2>3, <2>4, <2>5 DEF Leaves, Does
<1>9. Numbered(gpu', Tail(C)) /\ Numbered(gpu', D)
  <2>1. Numbered(gpu', Tail(C))
    BY <1>1, <1>2, <1>b, <1>m, NumberedPop
  <2>2. Numbered(gpu', D)
    BY <1>2, <1>b, NumberedSame
  <2> QED BY <2>1, <2>2
<1>10. c.do # "wait"
  BY <1>2
<1>11. ComputePopped(gpu, gpu', on)
  BY <1>1, <1>2, <1>5, <1>7, <1>8, <1>9, <1>10 DEF ComputePopped, C, D, m, n, c
<1> QED BY <1>2, <1>11, PopCompute

LEMMA ComputeSignals ==
  ASSUME MoeLayers, NEW on \in BOOLEAN, Typed(gpu), Base(gpu, on), Signals("compute")
  PROVE  Kept(gpu, gpu', on)
<1> DEFINE C == gpu.queue["compute"]
           D == gpu.queue["side"]
           c == C[1]
<1>1. C \in Seq(Calls) /\ D \in Seq(Calls) /\ Len(C) \in Nat \ {0} /\ C # <<>> /\ c.do = "record"
  BY HeadFacts DEF Typed, Signals, Streams
<1>b. /\ Queued(C, D) /\ Whole(gpu.memory) /\ Numbered(gpu, C) /\ Numbered(gpu, D)
      /\ Sums(gpu.memory, gpu.seen["compute"], C, on) /\ ComputeSeen(gpu.seen["compute"], C)
  BY DEF Base
<1>2. c.number <= gpu.recorded[c.event]
  <2>1. Numbered(gpu, C)
    BY <1>b
  <2>2. 1 \in 1 .. Len(C) /\ C[1].do = "record"
    BY <1>1
  <2> HIDE DEF C
  <2>3. C[1].number <= gpu.recorded[C[1].event]
    BY <2>1, <2>2 DEF Numbered
  <2> QED BY <2>3
<1>3. /\ Typed(gpu') /\ gpu'.queue["compute"] = Tail(C) /\ gpu'.queue["side"] = D
      /\ gpu'.queue["null"] = gpu.queue["null"]
      /\ gpu'.recorded = gpu.recorded /\ gpu'.seen = gpu.seen /\ gpu'.memory = gpu.memory
      /\ gpu'.completed[c.event] = c.number
      /\ \A e \in Events : e # c.event => gpu'.completed[e] = gpu.completed[e]
  BY <1>2, SignalsFacts DEF Streams
<1> HIDE DEF C, D
<1>4. PICK k \in Layers : Does(c, "record", <<"computed", k>>)
  <2>1. ComputeCall(c)
    BY <1>1, <1>b DEF Queued
  <2> QED BY <1>1, <2>1, ComputeKinds
<1>5. Numbered(gpu', Tail(C))
  BY <1>1, <1>b, <1>3, NumberedSignal
<1>6. Numbered(gpu', D)
  <2>1. \A i \in 1 .. Len(D) : ~Does(D[i], "record", c.event)
    <3> SUFFICES ASSUME NEW i \in 1 .. Len(D), Does(D[i], "record", <<"computed", k>>) PROVE FALSE
      BY <1>4 DEF Does
    <3>1. SideCall(D[i])
      BY <1>b DEF Queued
    <3> QED BY <3>1, SideKinds, EventFacts DEF Does
  <2>2. Numbered(gpu, D) /\ D \in Seq(Calls) /\ gpu'.recorded = gpu.recorded
        /\ \A e \in Events : e # c.event => gpu'.completed[e] = gpu.completed[e]
    BY <1>1, <1>b, <1>3
  <2> HIDE DEF c
  <2> QED BY SMTT(40), <2>1, <2>2, NumberedElsewhere
<1>7. gpu.seen["compute"] = <<>>
  BY <1>1, <1>b DEF ComputeSeen
<1>8. c # Embeds /\ c.do # "wait"
  BY <1>1, CallFacts
<1>9. ASSUME Live(C, 1, on) PROVE Leaves(gpu.memory[x], c)
  <2>1. Holds(gpu.memory[x], c)
    BY <1>1, <1>7, <1>9, <1>b DEF Sums
  <2> QED BY <1>1, <1>8, <2>1, CallFacts DEF Holds, Leaves, Does
<1>10. ComputePopped(gpu, gpu', on)
  BY <1>1, <1>3, <1>5, <1>6, <1>7, <1>8, <1>9, <1>b DEF ComputePopped, C, D
<1> QED BY <1>3, <1>10, PopCompute

LEMMA ComputeProceeds ==
  ASSUME MoeLayers, NEW on \in BOOLEAN, Typed(gpu), Base(gpu, on), Proceeds("compute")
  PROVE  Kept(gpu, gpu', on)
<1> DEFINE C == gpu.queue["compute"]
           D == gpu.queue["side"]
           c == C[1]
<1>1. /\ C \in Seq(Calls) /\ D \in Seq(Calls) /\ Len(C) \in Nat \ {0} /\ C # <<>> /\ c.do = "wait"
  BY HeadFacts DEF Typed, Proceeds, Streams
<1>b. /\ Queued(C, D) /\ Whole(gpu.memory) /\ Numbered(gpu, C) /\ Numbered(gpu, D)
      /\ Sums(gpu.memory, gpu.seen["compute"], C, on) /\ ComputeSeen(gpu.seen["compute"], C)
  BY DEF Base
<1>3. /\ Typed(gpu') /\ gpu'.queue["compute"] = Tail(C) /\ gpu'.queue["side"] = D
      /\ gpu'.queue["null"] = gpu.queue["null"]
      /\ gpu'.recorded = gpu.recorded /\ gpu'.seen = gpu.seen /\ gpu'.memory = gpu.memory
      /\ gpu'.completed = gpu.completed
      /\ c.event \in Events /\ c.number \in Nat /\ gpu.completed[c.event] >= c.number
  BY ProceedsFacts DEF Streams
<1> HIDE DEF C, D
<1>5. Numbered(gpu', Tail(C)) /\ Numbered(gpu', D)
  <2>1. Numbered(gpu', Tail(C))
    BY <1>1, <1>b, <1>3, NumberedPop
  <2> QED BY <1>b, <1>3, <2>1 DEF Numbered
<1>6. \A j \in 1 .. Len(D) : Does(D[j], "record", c.event) => D[j].number # c.number
  BY <1>1, <1>3, <1>b, PassedWait
<1>7. gpu.seen["compute"] = <<>>
  BY <1>1, <1>b DEF ComputeSeen
<1>8. c # Embeds
  BY <1>1, CallFacts
<1>9. ASSUME Live(C, 1, on) PROVE Leaves(gpu.memory[x], c)
  <2>1. Holds(gpu.memory[x], c)
    BY <1>1, <1>7, <1>9, <1>b DEF Sums
  <2> QED BY <1>1, <1>8, <2>1, CallFacts DEF Holds, Leaves, Does
<1>10. ComputePopped(gpu, gpu', on)
  BY <1>1, <1>3, <1>5, <1>6, <1>7, <1>8, <1>9, <1>b DEF ComputePopped, C, D
<1> QED BY <1>3, <1>10, PopCompute

LEMMA SideStarts ==
  ASSUME MoeLayers, NEW on \in BOOLEAN, Typed(gpu), Base(gpu, on), Starts("side")
  PROVE  Kept(gpu, gpu', on)
<1> DEFINE C == gpu.queue["compute"]
           D == gpu.queue["side"]
           m == gpu.memory
           n == gpu'.memory
           seen == gpu'.seen["side"]
           d == D[1]
<1>1. C \in Seq(Calls) /\ D \in Seq(Calls) /\ Len(D) \in Nat \ {0} /\ D # <<>>
  BY HeadFacts DEF Typed, Starts, Moves, Streams
<1>2. /\ Typed(gpu') /\ d.do \in {"copy", "accumulate"} /\ gpu.seen["side"] = <<>>
      /\ gpu'.queue = gpu.queue /\ gpu'.recorded = gpu.recorded /\ gpu'.completed = gpu.completed
      /\ seen = [b \in Reads(d) |-> m[b]] /\ gpu'.seen["compute"] = gpu.seen["compute"]
      /\ \A b \in Buffers : b # d.to => n[b] = m[b]
  BY StartsFacts DEF Streams
<1>b. /\ Queued(C, D) /\ gpu.queue["null"] = <<>> /\ Whole(m)
      /\ Numbered(gpu, C) /\ Numbered(gpu, D) /\ ComputeSeen(gpu.seen["compute"], C)
      /\ Fed(m, C, D, on) /\ Sums(m, gpu.seen["compute"], C, on)
  BY <1>2 DEF Base
<1>m. d = D[1]
  OBVIOUS
<1> HIDE DEF C, D, m, n, seen, d
<1>3. PICK l \in Layers : d = Fills(l)
  BY <1>1, <1>2, <1>b, <1>m, SideKinds DEF Queued
<1>4. d.to = Slot(l) /\ Slot(l) \in Buffers /\ Overwrites(d, l)
  BY <1>3, CallFacts, LayerFacts DEF Overwrites
<1>5. ASSUME NEW k \in Layers, ~Overwrites(d, k) PROVE n[Slot(k)] = m[Slot(k)]
  <2>1. Slot(k) # Slot(l)
    BY <1>3, <1>5 DEF Overwrites
  <2> QED BY <1>2, <1>4, <2>1, LayerFacts
<1>6. n[x] = m[x] /\ n[embed] = m[embed]
      /\ (\A k \in Layers : n[<<"staged", k>>] = m[<<"staged", k>>])
      /\ \A f \in 1 .. MaxForwards : n[<<"out", f>>] = m[<<"out", f>>]
  BY <1>2, <1>4, LayerFacts, BufferFacts
<1>7. Whole(n)
  BY <1>6, <1>b DEF Whole
<1>8. SideSeen(seen, D)
  <2>1. seen = [b \in {<<"staged", l>>} |-> m[b]]
    BY <1>2, <1>3, ReadsFacts
  <2>2. seen = [b \in {<<"staged", l>>} |-> {<<l, l>>}]
    BY <2>1, <1>b DEF Whole
  <2> QED BY <1>1, <1>3, <1>m, <2>2 DEF SideSeen
<1>9. Fed(n, C, D, on)
  <2> SUFFICES ASSUME NEW i \in 1 .. Len(C), NEW k \in Layers, C[i] = Multiplies(k), Live(C, i, on)
               PROVE  Own(n, C, D, i, k)
    BY DEF Fed
  <2>1. Own(m, C, D, i, k)
    BY <1>b DEF Fed
  <2>2. D[1].do # "wait"
    BY <1>2, <1>m
  <2>3. ~Overwrites(D[1], k) => n[Slot(k)] = m[Slot(k)]
    BY <1>5, <1>m
  <2> QED BY <1>1, <2>1, <2>2, <2>3, OwnStart
<1>10. Base(gpu', on)
  <2>1. Sums(n, gpu.seen["compute"], C, on)
    BY <1>6, <1>b DEF Sums
  <2>2. Numbered(gpu', C) /\ Numbered(gpu', D)
    BY <1>2, <1>b DEF Numbered
  <2> QED BY <1>2, <1>b, <1>7, <1>8, <1>9, <2>1, <2>2 DEF Base, C, D, n, seen
<1>11. ASSUME NEW k \in Layers, Ready(gpu, k) PROVE Ready(gpu', k)
  <2>1. PICK b \in 0 .. Len(D) :
          /\ b = 0 => m[Slot(k)] = {<<k, k>>}
          /\ b > 0 => /\ D[b] = Fills(k) /\ b < Len(D)
                      /\ Does(D[b + 1], "record", <<"prefetch", k>>)
                      /\ D[b + 1].number = gpu.recorded[<<"prefetch", k>>]
          /\ \A q \in b + 1 .. Len(D) : ~Overwrites(D[q], k)
    BY <1>11 DEF Ready, D, m
  <2>2. b = 0 => n[Slot(k)] = {<<k, k>>}
    BY <1>1, <1>5, <1>m, <2>1
  <2> QED BY <1>2, <2>1, <2>2 DEF Ready, D, n
<1>12. HostKeeps(gpu, gpu')
  BY <1>2, <1>6, <1>11 DEF HostKeeps, AtLayer, AtEnd, m, n
<1>13. AllGuarded(gpu, on) => AllGuarded(gpu', on)
  BY <1>2 DEF AllGuarded
<1> QED BY <1>2, <1>10, <1>12, <1>13 DEF Kept

LEMMA SideFinishes ==
  ASSUME MoeLayers, NEW on \in BOOLEAN, Typed(gpu), Base(gpu, on), Finishes("side")
  PROVE  Kept(gpu, gpu', on)
<1> DEFINE C == gpu.queue["compute"]
           D == gpu.queue["side"]
           m == gpu.memory
           n == gpu'.memory
           seen == gpu.seen["side"]
           d == D[1]
<1>1. C \in Seq(Calls) /\ D \in Seq(Calls) /\ Len(D) \in Nat \ {0} /\ D # <<>>
  BY HeadFacts DEF Typed, Finishes, Moves, Streams
<1>2. /\ Typed(gpu') /\ d.do \in {"copy", "accumulate"} /\ seen # <<>>
      /\ gpu'.queue["side"] = Tail(D) /\ gpu'.queue["compute"] = C
      /\ gpu'.queue["null"] = gpu.queue["null"]
      /\ gpu'.recorded = gpu.recorded /\ gpu'.completed = gpu.completed
      /\ gpu'.seen["side"] = <<>> /\ gpu'.seen["compute"] = gpu.seen["compute"]
      /\ d.to \in Buffers => n[d.to] = Written("side", d)
      /\ \A b \in Buffers : b # d.to => n[b] = m[b]
  BY FinishesFacts DEF Streams
<1>b. /\ Queued(C, D) /\ Whole(m) /\ Numbered(gpu, C) /\ Numbered(gpu, D) /\ SideSeen(seen, D)
  BY DEF Base
<1>m. d = D[1] /\ seen = gpu.seen["side"] /\ m = gpu.memory
  OBVIOUS
<1> HIDE DEF C, D, m, n, seen, d
<1>3. PICK l \in Layers : d = Fills(l) /\ seen = [b \in {<<"staged", l>>} |-> {<<l, l>>}]
  BY <1>2, <1>b, <1>m DEF SideSeen
<1>4. d.to = Slot(l) /\ Slot(l) \in Buffers /\ Overwrites(d, l)
  BY <1>3, CallFacts, LayerFacts DEF Overwrites
<1>5. ASSUME NEW k \in Layers, ~Overwrites(d, k) PROVE n[Slot(k)] = m[Slot(k)]
  <2>1. Slot(k) # Slot(l)
    BY <1>3, <1>5 DEF Overwrites
  <2> QED BY <1>2, <1>4, <2>1, LayerFacts
<1>6. n[x] = m[x] /\ n[embed] = m[embed]
      /\ (\A k \in Layers : n[<<"staged", k>>] = m[<<"staged", k>>])
      /\ \A f \in 1 .. MaxForwards : n[<<"out", f>>] = m[<<"out", f>>]
  BY <1>2, <1>4, LayerFacts, BufferFacts, ZenonT(60)
<1>7. Whole(n)
  BY <1>6, <1>b DEF Whole
<1>8. ASSUME NEW k \in Layers, d = Fills(k) PROVE n[Slot(k)] = {<<k, k>>}
  <2>1. k = l
    BY <1>3, <1>8, CallFacts
  <2>2. seen[<<"staged", l>>] = m[<<"staged", l>>] /\ m[<<"staged", l>>] = {<<l, l>>}
    BY <1>3, <1>b DEF Whole
  <2>3. Written("side", d) = {<<l, l>>}
    <3>1. gpu.seen["side"][<<"staged", l>>] = gpu.memory[<<"staged", l>>]
          /\ gpu.memory[<<"staged", l>>] = {<<l, l>>} /\ gpu.memory[<<"staged", l>>] # Torn
      BY <1>m, <2>2 DEF Torn
    <3>2. Written("side", Copy("side", Slot(l), <<"staged", l>>)) = {<<l, l>>}
      BY <3>1, CopyWrites
    <3> QED BY <1>3, <3>2 DEF Fills
  <2> QED BY <1>2, <1>4, <2>1, <2>3
<1>9. Numbered(gpu', Tail(D)) /\ Numbered(gpu', C)
  <2>1. Numbered(gpu', Tail(D))
    BY <1>1, <1>2, <1>b, <1>m, NumberedPop
  <2>2. Numbered(gpu', C)
    BY <1>2, <1>b, NumberedSame
  <2> QED BY <2>1, <2>2
<1>10. d.do # "wait"
  BY <1>2
<1>11. SidePopped(gpu, gpu')
  BY <1>1, <1>2, <1>5, <1>6, <1>7, <1>8, <1>9, <1>10 DEF SidePopped, C, D, m, n, d
<1> QED BY <1>2, <1>11, PopSide

LEMMA SideSignals ==
  ASSUME MoeLayers, NEW on \in BOOLEAN, Typed(gpu), Base(gpu, on), Signals("side")
  PROVE  Kept(gpu, gpu', on)
<1> DEFINE C == gpu.queue["compute"]
           D == gpu.queue["side"]
           d == D[1]
<1>1. C \in Seq(Calls) /\ D \in Seq(Calls) /\ Len(D) \in Nat \ {0} /\ D # <<>> /\ d.do = "record"
  BY HeadFacts DEF Typed, Signals, Streams
<1>b. /\ Queued(C, D) /\ Whole(gpu.memory) /\ Numbered(gpu, C) /\ Numbered(gpu, D)
      /\ SideSeen(gpu.seen["side"], D)
  BY DEF Base
<1>2. d.number <= gpu.recorded[d.event]
  BY <1>1, <1>b DEF Numbered
<1>3. /\ Typed(gpu') /\ gpu'.queue["side"] = Tail(D) /\ gpu'.queue["compute"] = C
      /\ gpu'.queue["null"] = gpu.queue["null"]
      /\ gpu'.recorded = gpu.recorded /\ gpu'.seen = gpu.seen /\ gpu'.memory = gpu.memory
      /\ gpu'.completed[d.event] = d.number
      /\ \A e \in Events : e # d.event => gpu'.completed[e] = gpu.completed[e]
  BY <1>2, SignalsFacts DEF Streams
<1> HIDE DEF C, D
<1>4. PICK k \in Layers : Does(d, "record", <<"prefetch", k>>)
  <2>1. SideCall(d)
    BY <1>1, <1>b DEF Queued
  <2> QED BY <1>1, <2>1, SideKinds
<1>5. Numbered(gpu', Tail(D))
  BY <1>1, <1>b, <1>3, NumberedSignal
<1>6. Numbered(gpu', C)
  <2>1. \A i \in 1 .. Len(C) : ~Does(C[i], "record", d.event)
    <3> SUFFICES ASSUME NEW i \in 1 .. Len(C), Does(C[i], "record", <<"prefetch", k>>) PROVE FALSE
      BY <1>4 DEF Does
    <3>1. ComputeCall(C[i])
      BY <1>b DEF Queued
    <3> QED BY <3>1, ComputeKinds, EventFacts DEF Does
  <2>2. Numbered(gpu, C) /\ C \in Seq(Calls) /\ gpu'.recorded = gpu.recorded
        /\ \A e \in Events : e # d.event => gpu'.completed[e] = gpu.completed[e]
    BY <1>1, <1>b, <1>3
  <2> HIDE DEF d
  <2> QED BY SMTT(40), <2>1, <2>2, NumberedElsewhere
<1>7. gpu.seen["side"] = <<>> /\ \A l \in Layers : d # Fills(l)
  BY <1>1, <1>b, CallFacts DEF SideSeen
<1>8. d.do # "wait"
  BY <1>1
<1>10. SidePopped(gpu, gpu')
  BY <1>1, <1>3, <1>5, <1>6, <1>7, <1>8, <1>b DEF SidePopped, C, D
<1> QED BY <1>3, <1>10, PopSide

LEMMA SideProceeds ==
  ASSUME MoeLayers, NEW on \in BOOLEAN, Typed(gpu), Base(gpu, on), Proceeds("side")
  PROVE  Kept(gpu, gpu', on)
<1> DEFINE C == gpu.queue["compute"]
           D == gpu.queue["side"]
           d == D[1]
<1>1. /\ C \in Seq(Calls) /\ D \in Seq(Calls) /\ Len(D) \in Nat \ {0} /\ D # <<>> /\ d.do = "wait"
  BY HeadFacts DEF Typed, Proceeds, Streams
<1>b. /\ Queued(C, D) /\ Whole(gpu.memory) /\ Numbered(gpu, C) /\ Numbered(gpu, D)
      /\ SideSeen(gpu.seen["side"], D)
  BY DEF Base
<1>3. /\ Typed(gpu') /\ gpu'.queue["side"] = Tail(D) /\ gpu'.queue["compute"] = C
      /\ gpu'.queue["null"] = gpu.queue["null"]
      /\ gpu'.recorded = gpu.recorded /\ gpu'.seen = gpu.seen /\ gpu'.memory = gpu.memory
      /\ gpu'.completed = gpu.completed
      /\ d.event \in Events /\ d.number \in Nat /\ gpu.completed[d.event] >= d.number
  BY ProceedsFacts DEF Streams
<1> HIDE DEF C, D
<1>5. Numbered(gpu', Tail(D)) /\ Numbered(gpu', C)
  <2>1. Numbered(gpu', Tail(D))
    BY <1>1, <1>b, <1>3, NumberedPop
  <2> QED BY <1>b, <1>3, <2>1 DEF Numbered
<1>6. \A j \in 1 .. Len(C) : Does(C[j], "record", d.event) => C[j].number # d.number
  BY <1>1, <1>3, <1>b, PassedWait
<1>7. gpu.seen["side"] = <<>> /\ \A l \in Layers : d # Fills(l)
  BY <1>1, <1>b, CallFacts DEF SideSeen
<1>10. SidePopped(gpu, gpu')
  BY <1>1, <1>3, <1>5, <1>6, <1>7, <1>b DEF SidePopped, C, D
<1> QED BY <1>3, <1>10, PopSide

(* A step of the device keeps the invariant, and what the host relies on.  *)
LEMMA DeviceKeeps ==
  ASSUME MoeLayers, NEW on \in BOOLEAN, Typed(gpu), Base(gpu, on), Device
  PROVE  Kept(gpu, gpu', on)
<1>1. PICK s \in Streams : Starts(s) \/ Finishes(s) \/ Signals(s) \/ Proceeds(s)
  BY DEF Device
<1>2. s # "null"
  BY <1>1 DEF Base, Starts, Finishes, Signals, Proceeds, Moves
<1>3. s = "compute" \/ s = "side"
  BY <1>2 DEF Streams
<1> QED
  BY <1>1, <1>3, ComputeStarts, ComputeFinishes, ComputeSignals, ComputeProceeds,
     SideStarts, SideFinishes, SideSignals, SideProceeds

(***************************************************************************)
(* The prefetched path: the host                                           *)
(***************************************************************************)

(* A call c joins the compute stream.                                      *)
ComputePushed(g, h, c, on, to) ==
  LET C == g.queue["compute"]
      D == g.queue["side"]
  IN  /\ c \in Calls /\ ComputeCall(c)
      /\ h.queue["compute"] = Append(C, c) /\ h.queue["side"] = D /\ h.queue["null"] = g.queue["null"]
      /\ h.memory = g.memory /\ h.seen = g.seen
      /\ Numbered(h, Append(C, c)) /\ Numbered(h, D)
      /\ C # <<>> => Follows(C[Len(C)], c)
      /\ C = <<>> /\ c # Embeds => Holds(g.memory[x], c)
      /\ \A i \in 1 .. Len(C) : Live(Append(C, c), i, to) => Live(C, i, on)
      /\ \A k \in Layers :
           c = Multiplies(k) => Own(g.memory, Append(C, c), D, Len(C) + 1, k)

LEMMA PushCompute ==
  ASSUME MoeLayers, NEW g, NEW h, NEW c, NEW on \in BOOLEAN, NEW to \in BOOLEAN,
         Typed(g), Base(g, on), ComputePushed(g, h, c, on, to)
  PROVE  /\ Base(h, to)
         /\ \A k \in Layers :
              Ready(g, k) /\ h.recorded[<<"prefetch", k>>] = g.recorded[<<"prefetch", k>>] => Ready(h, k)
<1> DEFINE C == g.queue["compute"]
           D == g.queue["side"]
           A == Append(C, c)
<1>1. C \in Seq(Calls) /\ D \in Seq(Calls) /\ c \in Calls
  BY DEF Typed, Streams, ComputePushed
<1>a. /\ A \in Seq(Calls) /\ Len(C) \in Nat /\ Len(A) = Len(C) + 1 /\ A # <<>>
      /\ A[Len(C) + 1] = c /\ \A i \in 1 .. Len(C) : A[i] = C[i]
  BY <1>1, AppendFacts
<1>b. /\ Queued(C, D) /\ SideSeen(g.seen["side"], D) /\ Fed(g.memory, C, D, on)
      /\ ComputeSeen(g.seen["compute"], C) /\ Sums(g.memory, g.seen["compute"], C, on)
      /\ g.queue["null"] = <<>> /\ Whole(g.memory)
  BY DEF Base
<1>h. /\ ComputeCall(c) /\ h.queue["compute"] = A /\ h.queue["side"] = D /\ h.queue["null"] = <<>>
      /\ h.memory = g.memory /\ h.seen = g.seen /\ Numbered(h, A) /\ Numbered(h, D)
      /\ C # <<>> => Follows(C[Len(C)], c)
      /\ C = <<>> /\ c # Embeds => Holds(g.memory[x], c)
      /\ \A i \in 1 .. Len(C) : Live(A, i, to) => Live(C, i, on)
      /\ \A k \in Layers : c = Multiplies(k) => Own(g.memory, A, D, Len(C) + 1, k)
  BY <1>b DEF ComputePushed
<1>d. D = g.queue["side"] /\ (C = <<>> <=> Len(C) = 0)
  BY <1>1, EmptySeq
<1> HIDE DEF C, D
<1>e. A = Append(C, c)
  OBVIOUS
<1> HIDE DEF A
<1>2. Queued(A, D)
  <2>1. \A i \in 1 .. Len(A) : ComputeCall(A[i])
    BY <1>a, <1>b, <1>h DEF Queued
  <2>2. ASSUME NEW i \in 1 .. Len(A) - 1 PROVE Follows(A[i], A[i + 1])
    <3>1. CASE i = Len(C)
      BY <1>a, <1>d, <1>h, <2>2, <3>1
    <3>2. CASE i # Len(C)
      <4>1. i \in 1 .. Len(C) - 1 /\ A[i] = C[i] /\ A[i + 1] = C[i + 1]
        BY <1>a, <2>2, <3>2
      <4> QED BY <1>b, <4>1 DEF Queued
    <3> QED BY <3>1, <3>2
  <2> QED BY <1>b, <2>1, <2>2 DEF Queued
<1>3. ComputeSeen(h.seen["compute"], A)
  <2>1. C # <<>> => A[1] = C[1]
    BY <1>a, <1>d
  <2> QED BY <1>a, <1>b, <1>h, <2>1 DEF ComputeSeen
<1>4. Fed(h.memory, A, D, to)
  <2> SUFFICES ASSUME NEW i \in 1 .. Len(A), NEW k \in Layers, A[i] = Multiplies(k), Live(A, i, to)
               PROVE  Own(g.memory, A, D, i, k)
    BY <1>h DEF Fed
  <2>1. CASE i = Len(C) + 1
    BY <1>a, <1>h, <2>1
  <2>2. CASE i # Len(C) + 1
    <3>1. i \in 1 .. Len(C) /\ C[i] = Multiplies(k)
      BY <1>a, <2>2
    <3>2. Own(g.memory, C, D, i, k)
      BY <1>b, <1>h, <3>1 DEF Fed
    <3> QED BY <1>1, <1>e, <3>1, <3>2, OwnPushCompute
  <2> QED BY <2>1, <2>2
<1>5. Sums(h.memory, h.seen["compute"], A, to)
  <2>1. CASE C = <<>>
    <3>1. A[1] = c /\ g.seen["compute"] = <<>> /\ 1 \in 1 .. Len(A)
      BY <1>a, <1>b, <1>d, <2>1 DEF ComputeSeen
    <3>2. Live(A, 1, to) => c # Embeds
      BY <1>a, <3>1, EmbedsNotLive
    <3> QED BY <1>h, <2>1, <3>1, <3>2 DEF Sums
  <2>2. CASE C # <<>>
    <3>1. 1 \in 1 .. Len(C) /\ A[1] = C[1]
      BY <1>a, <1>d, <2>2
    <3> QED BY <1>b, <1>h, <2>2, <3>1 DEF Sums
  <2> QED BY <2>1, <2>2
<1>6. Base(h, to)
  BY <1>2, <1>3, <1>4, <1>5, <1>b, <1>h DEF Base
<1>7. ASSUME NEW k \in Layers, Ready(g, k), h.recorded[<<"prefetch", k>>] = g.recorded[<<"prefetch", k>>]
      PROVE  Ready(h, k)
  BY <1>7, <1>h, <1>d DEF Ready
<1> QED BY <1>6, <1>7

(* A call d joins the side stream.                                         *)
SidePushed(g, h, d, on) ==
  LET C == g.queue["compute"]
      D == g.queue["side"]
  IN  /\ d \in Calls /\ SideCall(d)
      /\ h.queue["side"] = Append(D, d) /\ h.queue["compute"] = C /\ h.queue["null"] = g.queue["null"]
      /\ h.memory = g.memory /\ h.seen = g.seen
      /\ Numbered(h, C) /\ Numbered(h, Append(D, d))
      /\ d.do = "copy" => AllGuarded(g, on)

LEMMA PushSide ==
  ASSUME MoeLayers, NEW g, NEW h, NEW d, NEW on \in BOOLEAN,
         Typed(g), Base(g, on), SidePushed(g, h, d, on)
  PROVE  /\ Base(h, on)
         /\ AllGuarded(g, on) => AllGuarded(h, on)
         /\ \A k : AtLayer(g, k) => AtLayer(h, k)
         /\ \A k \in Layers :
              /\ Ready(g, k) /\ ~Overwrites(d, k)
              /\ h.recorded[<<"prefetch", k>>] = g.recorded[<<"prefetch", k>>]
              => Ready(h, k)
<1> DEFINE C == g.queue["compute"]
           D == g.queue["side"]
           A == Append(D, d)
<1>1. C \in Seq(Calls) /\ D \in Seq(Calls) /\ d \in Calls
  BY DEF Typed, Streams, SidePushed
<1>a. /\ A \in Seq(Calls) /\ Len(D) \in Nat /\ Len(A) = Len(D) + 1 /\ A # <<>>
      /\ A[Len(D) + 1] = d /\ \A i \in 1 .. Len(D) : A[i] = D[i]
  BY <1>1, AppendFacts
<1>b. /\ Queued(C, D) /\ SideSeen(g.seen["side"], D) /\ Fed(g.memory, C, D, on)
      /\ ComputeSeen(g.seen["compute"], C) /\ Sums(g.memory, g.seen["compute"], C, on)
      /\ g.queue["null"] = <<>> /\ Whole(g.memory)
  BY DEF Base
<1>h. /\ SideCall(d) /\ h.queue["compute"] = C /\ h.queue["side"] = A /\ h.queue["null"] = <<>>
      /\ h.memory = g.memory /\ h.seen = g.seen /\ Numbered(h, A) /\ Numbered(h, C)
      /\ d.do = "copy" => AllGuarded(g, on)
  BY <1>b DEF SidePushed
<1>d. /\ D = g.queue["side"] /\ C = g.queue["compute"] /\ (D = <<>> <=> Len(D) = 0)
  BY <1>1, EmptySeq
<1> HIDE DEF C, D
<1>e. A = Append(D, d)
  OBVIOUS
<1> HIDE DEF A
<1>2. Queued(C, A)
  <2>1. ASSUME NEW i \in 1 .. Len(A) PROVE SideCall(A[i])
    <3>1. CASE i = Len(D) + 1
      BY <1>a, <1>h, <3>1
    <3>2. CASE i # Len(D) + 1
      <4>1. i \in 1 .. Len(D) /\ A[i] = D[i]
        BY <1>a, <3>2
      <4> QED BY <1>b, <4>1 DEF Queued
    <3> QED BY <3>1, <3>2
  <2> QED BY <1>b, <2>1 DEF Queued
<1>3. SideSeen(h.seen["side"], A)
  <2>1. D # <<>> => A[1] = D[1]
    BY <1>a, <1>d
  <2> QED BY <1>a, <1>b, <1>h, <2>1 DEF SideSeen
<1>4. Fed(h.memory, C, A, on)
  <2> SUFFICES ASSUME NEW i \in 1 .. Len(C), NEW k \in Layers, C[i] = Multiplies(k), Live(C, i, on)
               PROVE  Own(g.memory, C, A, i, k)
    BY <1>h DEF Fed
  <2>1. Own(g.memory, C, D, i, k)
    BY <1>b DEF Fed
  <2>2. Overwrites(d, k) => Guarded(C, D, i, Len(D))
    BY <1>d, <1>h, OverwritesCopies DEF AllGuarded
  <2> QED BY <1>1, <1>e, <2>1, <2>2, OwnPushSide
<1>5. Base(h, on)
  BY <1>2, <1>3, <1>4, <1>b, <1>h DEF Base
<1>6. ASSUME AllGuarded(g, on) PROVE AllGuarded(h, on)
  <2> SUFFICES ASSUME NEW i \in 1 .. Len(C), NEW k \in Layers, C[i] = Multiplies(k), Live(C, i, on)
               PROVE  Guarded(C, A, i, Len(A))
    BY <1>h DEF AllGuarded
  <2>1. Guarded(C, D, i, Len(D))
    BY <1>6, <1>d DEF AllGuarded
  <2>2. Len(D) \in 0 .. Len(D) /\ Len(A) \in Len(D) .. Len(D) + 1 /\ i \in Nat
    BY <1>a
  <2> QED BY <1>1, <1>e, <2>1, <2>2, GuardPushSide
<1>7. \A k : AtLayer(g, k) => AtLayer(h, k)
  BY <1>d, <1>h DEF AtLayer
<1>8. ASSUME NEW k \in Layers, Ready(g, k), ~Overwrites(d, k),
             h.recorded[<<"prefetch", k>>] = g.recorded[<<"prefetch", k>>]
      PROVE  Ready(h, k)
  <2>1. PICK b \in 0 .. Len(D) :
          /\ b = 0 => g.memory[Slot(k)] = {<<k, k>>}
          /\ b > 0 => /\ D[b] = Fills(k) /\ b < Len(D)
                      /\ Does(D[b + 1], "record", <<"prefetch", k>>)
                      /\ D[b + 1].number = g.recorded[<<"prefetch", k>>]
          /\ \A q \in b + 1 .. Len(D) : ~Overwrites(D[q], k)
    BY <1>8, <1>d DEF Ready
  <2>2. b \in 0 .. Len(A) /\ (b > 0 => A[b] = D[b] /\ b < Len(A) /\ A[b + 1] = D[b + 1])
    BY <1>a, <2>1
  <2>3. \A q \in b + 1 .. Len(A) : ~Overwrites(A[q], k)
    BY <1>8, <1>a, <2>1
  <2> QED BY <1>8, <1>h, <2>1, <2>2, <2>3 DEF Ready
<1> QED BY <1>5, <1>6, <1>7, <1>8

(* The latest of an event's queued records has the recorded number.        *)
LEMMA LatestQueued ==
  ASSUME NEW g, NEW q \in Seq(Calls), Numbered(g, q), NEW e, NEW i \in 1 .. Len(q),
         Does(q[i], "record", e)
  PROVE  \E j \in i .. Len(q) : Does(q[j], "record", e) /\ q[j].number = g.recorded[e]
BY DEF Numbered, Does

(* A wait for e is issued to the side stream, while every live             *)
(* multiplication has a record of e behind it.                             *)
LEMMA GuardingWait ==
  ASSUME MoeLayers, NEW g, Typed(g), Base(g, TRUE), NEW l \in Layers,
         \A i \in 1 .. Len(g.queue["compute"]), k \in Layers :
           g.queue["compute"][i] = Multiplies(k) /\ Live(g.queue["compute"], i, TRUE)
             => \E j \in i + 1 .. Len(g.queue["compute"]) :
                  Does(g.queue["compute"][j], "record", <<"computed", l>>)
  PROVE  LET h == Issue(g, Wait("side", <<"computed", l>>))
         IN  /\ Typed(h) /\ Base(h, TRUE) /\ AllGuarded(h, TRUE)
             /\ \A k : AtLayer(g, k) => AtLayer(h, k)
             /\ \A k \in Layers : Ready(g, k) => Ready(h, k)
<1> DEFINE C == g.queue["compute"]
           D == g.queue["side"]
           e == <<"computed", l>>
           h == Issue(g, Wait("side", e))
           w == Awaiting(g, e)
<1>1. C \in Seq(Calls) /\ D \in Seq(Calls) /\ e \in Events
  BY LayerFacts DEF Typed, Streams
<1>2. /\ Typed(h) /\ w \in Calls /\ h.memory = g.memory /\ h.seen = g.seen
      /\ h.completed = g.completed /\ h.recorded = g.recorded
      /\ h.queue["side"] = Append(D, w) /\ h.queue["compute"] = C /\ h.queue["null"] = g.queue["null"]
  BY <1>1, IssueWait DEF Streams
<1>3. w.do = "wait" /\ w.event = e /\ w.number = g.recorded[e]
  BY DEF Awaiting
<1>b. Numbered(g, C) /\ Numbered(g, D)
  BY DEF Base
<1>f. \A i \in 1 .. Len(C), k \in Layers :
        C[i] = Multiplies(k) /\ Live(C, i, TRUE)
          => \E j \in i + 1 .. Len(C) : Does(C[j], "record", e)
  OBVIOUS
<1> HIDE DEF w, h
<1>4. Numbered(h, C) /\ Numbered(h, Append(D, w))
  <2>1. Numbered(h, Append(D, w))
    BY <1>1, <1>2, <1>3, <1>b, NumberedPush
  <2> QED BY <1>2, <1>b, <2>1 DEF Numbered
<1>5. SideCall(w) /\ \A k : ~Overwrites(w, k)
  BY <1>3, OverwritesCopies DEF SideCall, Does
<1>6. SidePushed(g, h, w, TRUE)
  BY <1>2, <1>3, <1>4, <1>5 DEF SidePushed
<1>7. /\ Base(h, TRUE) /\ \A k : AtLayer(g, k) => AtLayer(h, k)
      /\ \A k \in Layers : Ready(g, k) => Ready(h, k)
  BY <1>2, <1>5, <1>6, PushSide
<1>8. AllGuarded(h, TRUE)
  <2> SUFFICES ASSUME NEW i \in 1 .. Len(C), NEW k \in Layers, C[i] = Multiplies(k), Live(C, i, TRUE)
               PROVE  Guarded(C, Append(D, w), i, Len(Append(D, w)))
    BY <1>2 DEF AllGuarded
  <2>1. PICK j \in i + 1 .. Len(C) : Does(C[j], "record", e)
    BY <1>f
  <2>2. j \in 1 .. Len(C) /\ i \in Nat /\ Len(C) \in Nat
    BY <1>1
  <2>3. PICK n \in j .. Len(C) : Does(C[n], "record", e) /\ C[n].number = g.recorded[e]
    BY <1>1, <1>b, <2>1, <2>2, LatestQueued
  <2>4. n \in i + 1 .. Len(C)
    BY <2>2
  <2>5. Len(D) + 1 \in 1 .. Len(Append(D, w)) /\ Append(D, w)[Len(D) + 1] = w
    BY <1>1, <1>2, AppendFacts
  <2> QED BY <1>3, <2>3, <2>4, <2>5 DEF Guarded
<1> QED BY <1>2, <1>7, <1>8 DEF h

(* begin: x is set to the embeddings, ...                                  *)
LEMMA IssueEmbeds ==
  ASSUME MoeLayers, NEW g, Typed(g), Base(g, FALSE)
  PROVE  LET h == Issue(g, Embeds)
         IN  /\ Typed(h) /\ Base(h, TRUE) /\ AtLayer(h, 0)
             /\ h.queue["compute"] # <<>>
<1> DEFINE C == g.queue["compute"]
           D == g.queue["side"]
           h == Issue(g, Embeds)
<1>1. C \in Seq(Calls) /\ D \in Seq(Calls) /\ Embeds \in Calls /\ Embeds.do = "copy"
      /\ Embeds.on = "compute"
  BY CallFacts DEF Typed, Streams
<1>2. /\ Typed(h) /\ h.memory = g.memory /\ h.seen = g.seen
      /\ h.completed = g.completed /\ h.recorded = g.recorded
      /\ h.queue["compute"] = Append(C, Embeds) /\ h.queue["side"] = D
      /\ h.queue["null"] = g.queue["null"]
  <2>1. "compute" \in Streams /\ "side" \in Streams /\ "null" \in Streams
    BY DEF Streams
  <2> HIDE DEF h
  <2>2. /\ Typed(h) /\ h.memory = g.memory /\ h.seen = g.seen
        /\ h.completed = g.completed /\ h.recorded = g.recorded
        /\ h.queue[Embeds.on] = Append(g.queue[Embeds.on], Embeds)
        /\ \A s \in Streams : s # Embeds.on => h.queue[s] = g.queue[s]
    BY <1>1, <2>1, IssueMove DEF h
  <2> QED BY <1>1, <2>1, <2>2
<1>b. Numbered(g, C) /\ Numbered(g, D)
  BY DEF Base
<1> HIDE DEF C, D, h
<1>3. Numbered(h, Append(C, Embeds)) /\ Numbered(h, D)
  <2>1. Numbered(h, Append(C, Embeds))
    BY <1>1, <1>2, <1>b, NumberedPush
  <2> QED BY <1>2, <1>b, <2>1 DEF Numbered
<1>4. \A i \in 1 .. Len(C) : Live(Append(C, Embeds), i, TRUE) => Live(C, i, FALSE)
  <2> SUFFICES ASSUME NEW i \in 1 .. Len(C), Live(Append(C, Embeds), i, TRUE) PROVE Live(C, i, FALSE)
    OBVIOUS
  <2>1. i \in 1 .. Len(C) + 1
    BY <1>1
  <2> QED BY <1>1, <2>1, LivePushEmbeds
<1>5. ComputePushed(g, h, Embeds, FALSE, TRUE)
  BY <1>1, <1>2, <1>3, <1>4, CallFacts DEF ComputePushed, ComputeCall, Follows, C, D
<1>6. Base(h, TRUE)
  BY <1>5, PushCompute
<1>7. AtLayer(h, 0) /\ h.queue["compute"] # <<>>
  BY <1>1, <1>2, AppendFacts DEF AtLayer
<1> QED BY <1>2, <1>6, <1>7 DEF h

(* ... and the first copy waits for the last layer of the forward before:  *)
(* a live multiplication is behind it in an earlier forward, whose output  *)
(* is queued.                                                              *)
LEMMA IssueBeginWait ==
  ASSUME MoeLayers, NEW g, Typed(g), Base(g, TRUE), AtLayer(g, 0), g.queue["compute"] # <<>>
  PROVE  LET h == Issue(g, Wait("side", <<"computed", moe_layers - 1>>))
         IN  Typed(h) /\ Base(h, TRUE) /\ AllGuarded(h, TRUE) /\ AtLayer(h, 0)
<1> DEFINE C == g.queue["compute"]
           e == <<"computed", moe_layers - 1>>
<1>1. C \in Seq(Calls) /\ Len(C) \in Nat
  BY DEF Typed, Streams
<1>2. Queued(C, g.queue["side"]) /\ C[Len(C)] = Embeds
  BY DEF Base, AtLayer
<1> HIDE DEF C
<1>3. ASSUME NEW i \in 1 .. Len(C), NEW k \in Layers, C[i] = Multiplies(k), Live(C, i, TRUE)
      PROVE  \E j \in i + 1 .. Len(C) : Does(C[j], "record", e)
  <2>1. Len(C) \in i .. Len(C)
    BY <1>1
  <2>2. PICK j \in i .. Len(C) : IsOutput(C[j])
    BY <1>2, <1>3, <2>1 DEF Live
  <2>3. C[j] # C[i]
    BY <1>3, <2>2, CallFacts DEF IsOutput
  <2>4. j - 1 \in 1 .. Len(C) - 1 /\ (j - 1) + 1 = j /\ j - 1 \in i .. Len(C) /\ j \in 1 .. Len(C)
        /\ j - 1 \in 1 .. Len(C)
    BY <1>1, <2>3
  <2>5. Follows(C[j - 1], C[j])
    BY <1>2, <2>4 DEF Queued
  <2>6. C[j].do = "copy" /\ C[j] # Embeds
    BY <2>2, CallFacts DEF IsOutput
  <2>7. Does(C[j - 1], "record", e)
    BY <2>5, <2>6, CallFacts DEF Follows, Does
  <2>8. j - 1 # i
    BY <1>3, <2>7, CallFacts DEF Does
  <2>9. j - 1 \in i + 1 .. Len(C)
    BY <1>1, <2>4, <2>8
  <2> QED BY <2>7, <2>9
<1>4. moe_layers - 1 \in Layers
  BY LayerFacts
<1> QED BY <1>3, <1>4, GuardingWait DEF C

(* layer_begin: the next copy waits for the layer before.                  *)
LEMMA IssueLayerWait ==
  ASSUME MoeLayers, NEW g, Typed(g), Base(g, TRUE), NEW k \in Layers, k # 0, AtLayer(g, k)
  PROVE  LET h == Issue(g, Wait("side", <<"computed", k - 1>>))
         IN  /\ Typed(h) /\ Base(h, TRUE) /\ AllGuarded(h, TRUE) /\ AtLayer(h, k)
             /\ \A l \in Layers : Ready(g, l) => Ready(h, l)
<1> DEFINE C == g.queue["compute"]
           e == <<"computed", k - 1>>
<1>1. C \in Seq(Calls) /\ Len(C) \in Nat
  BY DEF Typed, Streams
<1>2. C # <<>> => Does(C[Len(C)], "record", e)
  BY DEF AtLayer
<1> HIDE DEF C
<1>3. ASSUME NEW i \in 1 .. Len(C), NEW l \in Layers, C[i] = Multiplies(l), Live(C, i, TRUE)
      PROVE  \E j \in i + 1 .. Len(C) : Does(C[j], "record", e)
  <2>1. Does(C[Len(C)], "record", e)
    BY <1>1, <1>2, EmptySeq
  <2>2. Len(C) # i
    BY <1>3, <2>1, CallFacts DEF Does
  <2>3. Len(C) \in i + 1 .. Len(C)
    BY <1>1, <2>2
  <2> QED BY <2>1, <2>3
<1>4. k - 1 \in Layers
  BY LayerFacts
<1> QED BY <1>3, <1>4, GuardingWait DEF C

(* prefetch: behind every live multiplication, layer k is copied, ...      *)
LEMMA IssueFills ==
  ASSUME MoeLayers, NEW g, Typed(g), Base(g, TRUE), AllGuarded(g, TRUE), NEW k \in Layers
  PROVE  LET h == Issue(g, Fills(k))
         IN  /\ Typed(h) /\ Base(h, TRUE) /\ AllGuarded(h, TRUE)
             /\ h.queue["side"] # <<>> /\ h.queue["side"][Len(h.queue["side"])] = Fills(k)
             /\ \A l : AtLayer(g, l) => AtLayer(h, l)
             /\ \A l \in Layers : Ready(g, l) /\ Slot(l) # Slot(k) => Ready(h, l)
<1> DEFINE C == g.queue["compute"]
           D == g.queue["side"]
           d == Fills(k)
           h == Issue(g, d)
<1>1. C \in Seq(Calls) /\ D \in Seq(Calls) /\ d \in Calls /\ d.do = "copy" /\ d.on = "side"
  BY CallFacts DEF Typed, Streams
<1>2. /\ Typed(h) /\ h.memory = g.memory /\ h.seen = g.seen
      /\ h.completed = g.completed /\ h.recorded = g.recorded
      /\ h.queue["side"] = Append(D, d) /\ h.queue["compute"] = C
      /\ h.queue["null"] = g.queue["null"]
  <2>1. "compute" \in Streams /\ "side" \in Streams /\ "null" \in Streams
    BY DEF Streams
  <2> HIDE DEF h, d
  <2>2. /\ Typed(h) /\ h.memory = g.memory /\ h.seen = g.seen
        /\ h.completed = g.completed /\ h.recorded = g.recorded
        /\ h.queue[d.on] = Append(g.queue[d.on], d)
        /\ \A s \in Streams : s # d.on => h.queue[s] = g.queue[s]
    BY <1>1, <2>1, IssueMove DEF h
  <2> QED BY <1>1, <2>1, <2>2
<1>b. Numbered(g, C) /\ Numbered(g, D)
  BY DEF Base
<1>3. SideCall(d) /\ \A l \in Layers : Overwrites(d, l) => Slot(l) = Slot(k)
  BY CallFacts DEF SideCall, Overwrites
<1> HIDE DEF h, d
<1>4. Numbered(h, C) /\ Numbered(h, Append(D, d))
  <2>1. Numbered(h, Append(D, d))
    BY <1>1, <1>2, <1>b, NumberedPush
  <2> QED BY <1>2, <1>b, <2>1 DEF Numbered
<1>5. SidePushed(g, h, d, TRUE)
  BY <1>1, <1>2, <1>3, <1>4 DEF SidePushed
<1>6. /\ Base(h, TRUE) /\ AllGuarded(h, TRUE)
      /\ \A l : AtLayer(g, l) => AtLayer(h, l)
      /\ \A l \in Layers : Ready(g, l) /\ Slot(l) # Slot(k) => Ready(h, l)
  BY <1>2, <1>3, <1>5, PushSide
<1>7. h.queue["side"] # <<>> /\ h.queue["side"][Len(h.queue["side"])] = d
  BY <1>1, <1>2, AppendFacts
<1> QED BY <1>2, <1>6, <1>7 DEF h, d

(* ... and recorded.                                                       *)
LEMMA IssueFilled ==
  ASSUME MoeLayers, NEW g, Typed(g), Base(g, TRUE), NEW k \in Layers,
         g.queue["side"] # <<>>, g.queue["side"][Len(g.queue["side"])] = Fills(k)
  PROVE  LET h == Issue(g, Record("side", <<"prefetch", k>>))
         IN  /\ Typed(h) /\ Base(h, TRUE) /\ (AllGuarded(g, TRUE) => AllGuarded(h, TRUE))
             /\ Ready(h, k)
             /\ \A l : AtLayer(g, l) => AtLayer(h, l)
             /\ \A l \in Layers : Ready(g, l) /\ l # k => Ready(h, l)
<1> DEFINE C == g.queue["compute"]
           D == g.queue["side"]
           e == <<"prefetch", k>>
           h == Issue(g, Record("side", e))
           r == Numbering(g, e)
<1>1. C \in Seq(Calls) /\ D \in Seq(Calls) /\ e \in Events
  BY LayerFacts DEF Typed, Streams
<1>2. /\ Typed(h) /\ r \in Calls /\ h.memory = g.memory /\ h.seen = g.seen
      /\ h.completed = g.completed /\ h.recorded[e] = g.recorded[e] + 1
      /\ \A c \in Events : c # e => h.recorded[c] = g.recorded[c]
      /\ h.queue["side"] = Append(D, r) /\ h.queue["compute"] = C
      /\ h.queue["null"] = g.queue["null"]
  <2>1. "compute" \in Streams /\ "side" \in Streams /\ "null" \in Streams
    BY DEF Streams
  <2>2. /\ Typed(h) /\ r \in Calls /\ h.memory = g.memory /\ h.seen = g.seen
        /\ h.completed = g.completed /\ h.recorded[e] = g.recorded[e] + 1
        /\ \A c \in Events : c # e => h.recorded[c] = g.recorded[c]
        /\ h.queue["side"] = Append(g.queue["side"], r)
        /\ \A s \in Streams : s # "side" => h.queue[s] = g.queue[s]
    <3>1. e \in Events
      BY <1>1
    <3> HIDE DEF e
    <3> QED BY <2>1, <3>1, IssueRecord
  <2> HIDE DEF h, r
  <2> QED BY <2>1, <2>2
<1>b. Queued(C, D) /\ Numbered(g, C) /\ Numbered(g, D)
  BY DEF Base
<1>d. D = g.queue["side"] /\ D # <<>> /\ D[Len(D)] = Fills(k)
  OBVIOUS
<1>3. r.do = "record" /\ r.event = e /\ r.number = g.recorded[e] + 1
  BY DEF Numbering
<1> HIDE DEF h, r, C, D
<1>4. SideCall(r) /\ \A l : ~Overwrites(r, l)
  BY <1>3, OverwritesCopies DEF SideCall, Does
<1>5. Numbered(h, Append(D, r))
  BY <1>1, <1>2, <1>3, <1>b, NumberedRecord
<1>6. Numbered(h, C)
  <2>1. \A i \in 1 .. Len(C) : ~Does(C[i], "record", e)
    <3> SUFFICES ASSUME NEW i \in 1 .. Len(C), Does(C[i], "record", e) PROVE FALSE
      OBVIOUS
    <3>1. ComputeCall(C[i])
      BY <1>b DEF Queued
    <3> QED BY <3>1, ComputeKinds, EventFacts DEF Does
  <2>2. Numbered(g, C) /\ C \in Seq(Calls) /\ h.completed = g.completed
        /\ \A c \in Events : c # e => h.recorded[c] = g.recorded[c]
    BY <1>1, <1>2, <1>b
  <2> QED BY SMTT(40), <2>1, <2>2, NumberedApart
<1>7. SidePushed(g, h, r, TRUE)
  BY <1>2, <1>3, <1>4, <1>5, <1>6 DEF SidePushed, C, D
<1>8. \A l \in Layers : l # k => h.recorded[<<"prefetch", l>>] = g.recorded[<<"prefetch", l>>]
  BY <1>2, LayerFacts, EventFacts
<1>9. /\ Base(h, TRUE) /\ (AllGuarded(g, TRUE) => AllGuarded(h, TRUE))
      /\ \A l : AtLayer(g, l) => AtLayer(h, l)
      /\ \A l \in Layers : Ready(g, l) /\ l # k => Ready(h, l)
  BY <1>4, <1>7, <1>8, PushSide
<1>10. Ready(h, k)
  <2> DEFINE A == Append(D, r)
  <2>1. /\ Len(D) \in Nat \ {0} /\ Len(A) = Len(D) + 1 /\ A[Len(D) + 1] = r
        /\ A[Len(D)] = Fills(k)
    <3>1. Len(D) \in Nat \ {0}
      BY <1>1, <1>d, EmptySeq
    <3> QED BY <1>1, <1>2, <1>d, <3>1, AppendFacts
  <2> HIDE DEF A
  <2>2. \A q \in Len(D) + 1 .. Len(A) : ~Overwrites(A[q], k)
    BY <1>4, <2>1
  <2>3. /\ Len(D) \in 0 .. Len(A) /\ Len(D) > 0 /\ Len(D) # 0 /\ Len(D) < Len(A)
        /\ Does(A[Len(D) + 1], "record", <<"prefetch", k>>)
        /\ A[Len(D) + 1].number = h.recorded[<<"prefetch", k>>]
    BY <1>2, <1>3, <2>1 DEF Does
  <2> QED BY <1>2, <2>1, <2>2, <2>3 DEF Ready, A
<1> QED BY <1>2, <1>9, <1>10 DEF h

(* weights_ready: the compute stream waits for layer k's weights, ...      *)
LEMMA IssueExpertsWait ==
  ASSUME MoeLayers, NEW g, Typed(g), Base(g, TRUE), NEW k \in Layers, AtLayer(g, k)
  PROVE  LET h == Issue(g, Wait("compute", <<"prefetch", k>>))
             A == h.queue["compute"]
         IN  /\ Typed(h) /\ Base(h, TRUE) /\ h.recorded = g.recorded
             /\ A # <<>> /\ Does(A[Len(A)], "wait", <<"prefetch", k>>)
             /\ A[Len(A)].number = h.recorded[<<"prefetch", k>>]
             /\ \A l \in Layers : Ready(g, l) => Ready(h, l)
<1> DEFINE C == g.queue["compute"]
           D == g.queue["side"]
           e == <<"prefetch", k>>
           h == Issue(g, Wait("compute", e))
           w == Awaiting(g, e)
<1>1. C \in Seq(Calls) /\ D \in Seq(Calls) /\ e \in Events
  BY LayerFacts DEF Typed, Streams
<1>2. /\ Typed(h) /\ w \in Calls /\ h.memory = g.memory /\ h.seen = g.seen
      /\ h.completed = g.completed /\ h.recorded = g.recorded
      /\ h.queue["compute"] = Append(C, w) /\ h.queue["side"] = D /\ h.queue["null"] = g.queue["null"]
  BY <1>1, IssueWait DEF Streams
<1>3. w.do = "wait" /\ w.event = e /\ w.number = g.recorded[e]
  BY DEF Awaiting
<1>b. Numbered(g, C) /\ Numbered(g, D) /\ Queued(C, D)
  BY DEF Base
<1>f. /\ C = <<>> => g.memory[x] = Partial(k)
      /\ C # <<>> => /\ k = 0 => C[Len(C)] = Embeds
                     /\ k # 0 => Does(C[Len(C)], "record", <<"computed", k - 1>>)
  BY DEF AtLayer
<1> HIDE DEF w, h, C, D
<1>4. Numbered(h, Append(C, w)) /\ Numbered(h, D)
  <2>1. Numbered(h, Append(C, w))
    BY <1>1, <1>2, <1>3, <1>b, NumberedPush
  <2> QED BY <1>2, <1>b, <2>1 DEF Numbered
<1>5. Does(w, "wait", <<"prefetch", k>>) /\ ComputeCall(w)
  BY <1>3 DEF ComputeCall, Does
<1>6. /\ \A l \in Layers : w # Multiplies(l)
      /\ w # Embeds /\ ~IsOutput(w)
  BY <1>3, CallFacts DEF IsOutput
<1>7. C # <<>> => Follows(C[Len(C)], w)
  BY <1>5, <1>f DEF Follows
<1>8. C = <<>> => Holds(g.memory[x], w)
  BY <1>3, <1>5, <1>6, <1>f, EventFacts DEF Holds, Does
<1>9. \A i \in 1 .. Len(C) : Live(Append(C, w), i, TRUE) => Live(C, i, TRUE)
  BY <1>1, <1>2, <1>6, LivePush
<1>10. ComputePushed(g, h, w, TRUE, TRUE)
  BY <1>2, <1>4, <1>5, <1>6, <1>7, <1>8, <1>9 DEF ComputePushed, C, D
<1>11. Base(h, TRUE) /\ \A l \in Layers : Ready(g, l) => Ready(h, l)
  BY <1>2, <1>10, PushCompute
<1>12. /\ h.queue["compute"] # <<>> /\ h.queue["compute"][Len(h.queue["compute"])] = w
  BY <1>1, <1>2, AppendFacts
<1> QED BY <1>2, <1>3, <1>5, <1>11, <1>12 DEF h

(* ... and multiplies by them.                                             *)
LEMMA IssueMultiplies ==
  ASSUME MoeLayers, NEW g, Typed(g), Base(g, TRUE), NEW k \in Layers, Ready(g, k),
         g.queue["compute"] # <<>>,
         Does(g.queue["compute"][Len(g.queue["compute"])], "wait", <<"prefetch", k>>),
         g.queue["compute"][Len(g.queue["compute"])].number = g.recorded[<<"prefetch", k>>]
  PROVE  LET h == Issue(g, Multiplies(k))
         IN  /\ Typed(h) /\ Base(h, TRUE) /\ AtEnd(h, k)
             /\ \A l \in Layers : Ready(g, l) => Ready(h, l)
<1> DEFINE C == g.queue["compute"]
           D == g.queue["side"]
           c == Multiplies(k)
           h == Issue(g, c)
           A == Append(C, c)
<1>1. C \in Seq(Calls) /\ D \in Seq(Calls) /\ c \in Calls /\ c.do = "accumulate" /\ c.on = "compute"
  BY CallFacts DEF Typed, Streams
<1>2. /\ Typed(h) /\ h.memory = g.memory /\ h.seen = g.seen
      /\ h.completed = g.completed /\ h.recorded = g.recorded
      /\ h.queue["compute"] = A /\ h.queue["side"] = D
      /\ h.queue["null"] = g.queue["null"]
  <2>1. "compute" \in Streams /\ "side" \in Streams /\ "null" \in Streams
    BY DEF Streams
  <2> HIDE DEF h, c
  <2>2. /\ Typed(h) /\ h.memory = g.memory /\ h.seen = g.seen
        /\ h.completed = g.completed /\ h.recorded = g.recorded
        /\ h.queue[c.on] = Append(g.queue[c.on], c)
        /\ \A s \in Streams : s # c.on => h.queue[s] = g.queue[s]
    BY <1>1, <2>1, IssueMove DEF h
  <2> QED BY <1>1, <2>1, <2>2
<1>b. Numbered(g, C) /\ Numbered(g, D)
  BY DEF Base
<1>3. /\ ComputeCall(c) /\ c # Embeds /\ ~IsOutput(c) /\ c.do # "record"
      /\ \A l \in Layers : c = Multiplies(l) => l = k
  BY CallFacts DEF ComputeCall, IsOutput
<1>d. /\ C # <<>> /\ Does(C[Len(C)], "wait", <<"prefetch", k>>)
      /\ C[Len(C)].number = g.recorded[<<"prefetch", k>>] /\ D = g.queue["side"]
  OBVIOUS
<1>e. Follows(C[Len(C)], c)
  BY <1>d DEF Follows
<1> HIDE DEF h, c, C, D
<1>a. /\ Len(C) \in Nat \ {0} /\ Len(A) = Len(C) + 1 /\ A[Len(C) + 1] = c
      /\ A[Len(C)] = C[Len(C)]
  <2>1. Len(C) \in Nat \ {0}
    BY <1>1, <1>d, EmptySeq
  <2> QED BY <1>1, <2>1, AppendFacts
<1>4. Numbered(h, A) /\ Numbered(h, D)
  <2>1. Numbered(h, A)
    BY <1>1, <1>2, <1>3, <1>b, NumberedPush
  <2> QED BY <1>2, <1>b, <2>1 DEF Numbered
<1>5. \A i \in 1 .. Len(C) : Live(A, i, TRUE) => Live(C, i, TRUE)
  BY <1>1, <1>3, LivePush
<1> HIDE DEF A
<1>6. Own(g.memory, A, D, Len(C) + 1, k)
  <2>1. PICK b \in 0 .. Len(D) :
          /\ b = 0 => g.memory[Slot(k)] = {<<k, k>>}
          /\ b > 0 => /\ D[b] = Fills(k) /\ b < Len(D)
                      /\ Does(D[b + 1], "record", <<"prefetch", k>>)
                      /\ D[b + 1].number = g.recorded[<<"prefetch", k>>]
          /\ \A q \in b + 1 .. Len(D) : ~Overwrites(D[q], k)
    BY <1>d DEF Ready
  <2>2. Len(C) + 1 > 1 /\ (Len(C) + 1) - 1 = Len(C)
    BY <1>a
  <2>3. b > 0 => /\ D[b] = Fills(k) /\ b < Len(D) /\ Len(C) + 1 > 1
                 /\ Does(A[(Len(C) + 1) - 1], "wait", <<"prefetch", k>>)
                 /\ Does(D[b + 1], "record", <<"prefetch", k>>)
                 /\ D[b + 1].number = A[(Len(C) + 1) - 1].number
    BY <1>a, <1>d, <2>1, <2>2
  <2> QED BY <2>1, <2>3 DEF Own
<1>7. ComputePushed(g, h, c, TRUE, TRUE)
  BY <1>1, <1>2, <1>3, <1>4, <1>5, <1>6, <1>d, <1>e DEF ComputePushed, C, D, A
<1>8. Base(h, TRUE) /\ \A l \in Layers : Ready(g, l) => Ready(h, l)
  BY <1>2, <1>7, PushCompute
<1>9. AtEnd(h, k)
  <2>1. A # <<>>
    BY <1>a, EmptySeq
  <2> QED BY <1>2, <1>a, <2>1 DEF AtEnd, c
<1> QED BY <1>2, <1>8, <1>9 DEF h, c

(* layer_end.                                                              *)
LEMMA IssueLayerEnd ==
  ASSUME MoeLayers, NEW g, Typed(g), Base(g, TRUE), NEW k \in Layers, AtEnd(g, k)
  PROVE  LET h == Issue(g, Record("compute", <<"computed", k>>))
         IN  /\ Typed(h) /\ Base(h, TRUE) /\ AtLayer(h, k + 1)
             /\ \A l \in Layers : Ready(g, l) => Ready(h, l)
<1> DEFINE C == g.queue["compute"]
           D == g.queue["side"]
           e == <<"computed", k>>
           h == Issue(g, Record("compute", e))
           r == Numbering(g, e)
<1>1. C \in Seq(Calls) /\ D \in Seq(Calls) /\ e \in Events
  BY LayerFacts DEF Typed, Streams
<1>2. /\ Typed(h) /\ r \in Calls /\ h.memory = g.memory /\ h.seen = g.seen
      /\ h.completed = g.completed /\ h.recorded[e] = g.recorded[e] + 1
      /\ \A c \in Events : c # e => h.recorded[c] = g.recorded[c]
      /\ h.queue["compute"] = Append(C, r) /\ h.queue["side"] = D
      /\ h.queue["null"] = g.queue["null"]
  <2>1. "compute" \in Streams /\ "side" \in Streams /\ "null" \in Streams
    BY DEF Streams
  <2>2. /\ Typed(h) /\ r \in Calls /\ h.memory = g.memory /\ h.seen = g.seen
        /\ h.completed = g.completed /\ h.recorded[e] = g.recorded[e] + 1
        /\ \A c \in Events : c # e => h.recorded[c] = g.recorded[c]
        /\ h.queue["compute"] = Append(g.queue["compute"], r)
        /\ \A s \in Streams : s # "compute" => h.queue[s] = g.queue[s]
    <3>1. e \in Events
      BY <1>1
    <3> HIDE DEF e
    <3> QED BY <2>1, <3>1, IssueRecord
  <2> HIDE DEF h, r
  <2> QED BY <2>1, <2>2
<1>b. Queued(C, D) /\ Numbered(g, C) /\ Numbered(g, D)
  BY DEF Base
<1>3. r.do = "record" /\ r.event = e /\ r.number = g.recorded[e] + 1
  BY DEF Numbering
<1>f. (C = <<>> => g.memory[x] = Partial(k + 1)) /\ (C # <<>> => C[Len(C)] = Multiplies(k))
  BY DEF AtEnd
<1> HIDE DEF h, r, C, D
<1>4. Does(r, "record", <<"computed", k>>) /\ ComputeCall(r)
  BY <1>3 DEF ComputeCall, Does
<1>5. (\A l \in Layers : r # Multiplies(l)) /\ r # Embeds /\ ~IsOutput(r)
  BY <1>3, CallFacts DEF IsOutput
<1>6. Numbered(h, Append(C, r))
  BY <1>1, <1>2, <1>3, <1>b, NumberedRecord
<1>7. Numbered(h, D)
  <2>1. \A i \in 1 .. Len(D) : ~Does(D[i], "record", e)
    <3> SUFFICES ASSUME NEW i \in 1 .. Len(D), Does(D[i], "record", e) PROVE FALSE
      OBVIOUS
    <3>1. SideCall(D[i])
      BY <1>b DEF Queued
    <3> QED BY <3>1, SideKinds, EventFacts DEF Does
  <2>2. Numbered(g, D) /\ D \in Seq(Calls) /\ h.completed = g.completed
        /\ \A c \in Events : c # e => h.recorded[c] = g.recorded[c]
    BY <1>1, <1>2, <1>b
  <2> QED BY SMTT(40), <2>1, <2>2, NumberedApart
<1>8. C # <<>> => Follows(C[Len(C)], r)
  BY <1>4, <1>f DEF Follows
<1>9. C = <<>> => Holds(g.memory[x], r)
  BY <1>3, <1>4, <1>5, <1>f, EventFacts DEF Holds, Does
<1>10. \A i \in 1 .. Len(C) : Live(Append(C, r), i, TRUE) => Live(C, i, TRUE)
  BY <1>1, <1>2, <1>5, LivePush
<1>11. ComputePushed(g, h, r, TRUE, TRUE)
  BY <1>2, <1>4, <1>5, <1>6, <1>7, <1>8, <1>9, <1>10 DEF ComputePushed, C, D
<1>12. \A l \in Layers : h.recorded[<<"prefetch", l>>] = g.recorded[<<"prefetch", l>>]
  BY <1>2, LayerFacts, EventFacts
<1>13. Base(h, TRUE) /\ \A l \in Layers : Ready(g, l) => Ready(h, l)
  BY <1>11, <1>12, PushCompute
<1>14. AtLayer(h, k + 1)
  <2>1. h.queue["compute"] # <<>> /\ h.queue["compute"][Len(h.queue["compute"])] = r
    BY <1>1, <1>2, AppendFacts
  <2>2. k + 1 # 0 /\ (k + 1) - 1 = k
    BY LayerFacts
  <2> QED BY <1>4, <2>1, <2>2 DEF AtLayer
<1> QED BY <1>2, <1>13, <1>14 DEF h

(* The output is read, and the forward has returned.                       *)
LEMMA IssueOutputs ==
  ASSUME MoeLayers, NEW g, Typed(g), Base(g, TRUE), AtLayer(g, moe_layers), NEW f \in 1 .. MaxForwards
  PROVE  LET h == Issue(g, Outputs(f))
         IN  Typed(h) /\ Base(h, FALSE)
<1> DEFINE C == g.queue["compute"]
           D == g.queue["side"]
           c == Outputs(f)
           h == Issue(g, c)
<1>1. C \in Seq(Calls) /\ D \in Seq(Calls) /\ c \in Calls /\ c.do = "copy" /\ c.on = "compute"
  BY CallFacts DEF Typed, Streams
<1>2. /\ Typed(h) /\ h.memory = g.memory /\ h.seen = g.seen
      /\ h.completed = g.completed /\ h.recorded = g.recorded
      /\ h.queue["compute"] = Append(C, c) /\ h.queue["side"] = D
      /\ h.queue["null"] = g.queue["null"]
  <2>1. "compute" \in Streams /\ "side" \in Streams /\ "null" \in Streams
    BY DEF Streams
  <2> HIDE DEF h, c
  <2>2. /\ Typed(h) /\ h.memory = g.memory /\ h.seen = g.seen
        /\ h.completed = g.completed /\ h.recorded = g.recorded
        /\ h.queue[c.on] = Append(g.queue[c.on], c)
        /\ \A s \in Streams : s # c.on => h.queue[s] = g.queue[s]
    BY <1>1, <2>1, IssueMove DEF h
  <2> QED BY <1>1, <2>1, <2>2
<1>b. Numbered(g, C) /\ Numbered(g, D)
  BY DEF Base
<1>3. IsOutput(c) /\ ComputeCall(c) /\ c # Embeds /\ \A k \in Layers : c # Multiplies(k)
  BY CallFacts DEF ComputeCall, IsOutput
<1>f. /\ C = <<>> => g.memory[x] = Partial(moe_layers)
      /\ C # <<>> => Does(C[Len(C)], "record", <<"computed", moe_layers - 1>>)
  BY LayerFacts DEF AtLayer
<1> HIDE DEF h, c, C, D
<1>4. Numbered(h, Append(C, c)) /\ Numbered(h, D)
  <2>1. Numbered(h, Append(C, c))
    BY <1>1, <1>2, <1>b, NumberedPush
  <2> QED BY <1>2, <1>b, <2>1 DEF Numbered
<1>5. C # <<>> => Follows(C[Len(C)], c)
  BY <1>3, <1>f DEF Follows
<1>6. C = <<>> => Holds(g.memory[x], c)
  BY <1>1, <1>3, <1>f DEF Holds, Does
<1>7. \A i \in 1 .. Len(C) : Live(Append(C, c), i, FALSE) => Live(C, i, TRUE)
  BY <1>1, LivePushOutput
<1>8. ComputePushed(g, h, c, TRUE, FALSE)
  BY <1>1, <1>2, <1>3, <1>4, <1>5, <1>6, <1>7 DEF ComputePushed, C, D
<1>9. Base(h, FALSE)
  BY <1>8, PushCompute
<1> QED BY <1>2, <1>9 DEF h, c

(* A forward that has failed: less is live.                                *)
LEMMA Stopped ==
  ASSUME NEW g, Base(g, TRUE)
  PROVE  Base(g, FALSE)
<1>1. \A C, i : Live(C, i, FALSE) => Live(C, i, TRUE)
  BY DEF Live
<1>2. ASSUME NEW m, NEW C, NEW D, Fed(m, C, D, TRUE) PROVE Fed(m, C, D, FALSE)
  BY <1>1, <1>2 DEF Fed
<1>3. ASSUME NEW m, NEW seen, NEW C, Sums(m, seen, C, TRUE) PROVE Sums(m, seen, C, FALSE)
  BY <1>1, <1>3 DEF Sums
<1> QED BY <1>2, <1>3 DEF Base

(* What the host relies on at its place in the forward.                    *)
OnTime(g, stage, k) ==
  /\ stage \in {"layer", "experts", "end"} => k \in Layers
  /\ stage \in {"layer", "experts"} => AtLayer(g, k) /\ Ready(g, k)
  /\ stage \in {"experts", "end"} /\ k + 1 \in Layers => Ready(g, k + 1)
  /\ stage = "end" => AtEnd(g, k)
  /\ stage = "output" => AtLayer(g, moe_layers)
  /\ stage = "layer" /\ k = 0 => AllGuarded(g, TRUE)

(* A stage's calls take the host to its next place, or stop at any call.   *)
Completes(calls, stage, k, on) ==
  LET g == IssueAll(calls) IN Typed(g) /\ Base(g, on) /\ OnTime(g, stage, k)

StopsAnywhere(calls) ==
  \A n \in 0 .. Len(calls) - 1 :
    LET g == IssueAll(SubSeq(calls, 1, n)) IN Typed(g) /\ Base(g, FALSE)

LEMMA PrefetchList ==
  ASSUME MoeLayers, NEW k \in Layers
  PROVE  Prefetch(k) = <<Fills(k), Record("side", <<"prefetch", k>>)>>
BY LayerFacts DEF Prefetch, Layers, Fills

LEMMA BeginStage ==
  ASSUME MoeLayers, Typed(gpu), Base(gpu, FALSE)
  PROVE  LET calls == <<Copy("compute", x, embed)>> \o BeginCalls
         IN  Completes(calls, "layer", 0, TRUE) /\ StopsAnywhere(calls)
<1> DEFINE w == Wait("side", <<"computed", moe_layers - 1>>)
           r == Record("side", <<"prefetch", 0>>)
           calls == <<Embeds, w, Fills(0), r>>
           g1 == Issue(gpu, Embeds)
           g2 == Issue(g1, w)
           g3 == Issue(g2, Fills(0))
           g4 == Issue(g3, r)
<1>1. <<Copy("compute", x, embed)>> \o BeginCalls = calls
  <2>1. 0 \in Layers
    BY LayerFacts
  <2>2. Prefetch(0) = <<Fills(0), r>>
    BY <2>1, PrefetchList
  <2>3. BeginCalls = <<w>> \o <<Fills(0), r>>
    BY <2>2 DEF BeginCalls
  <2> HIDE DEF w, r
  <2>4. <<w>> \o <<Fills(0), r>> = <<w, Fills(0), r>>
    BY ConcatThree
  <2>5. <<Embeds>> \o <<w, Fills(0), r>> = calls
    BY ConcatFour
  <2> QED BY <2>3, <2>4, <2>5 DEF Embeds
<1>2. Typed(g1) /\ Base(g1, TRUE) /\ AtLayer(g1, 0) /\ g1.queue["compute"] # <<>>
  BY IssueEmbeds
<1>3. Typed(g2) /\ Base(g2, TRUE) /\ AllGuarded(g2, TRUE) /\ AtLayer(g2, 0)
  <2> HIDE DEF g1
  <2> QED BY <1>2, IssueBeginWait
<1>4. /\ Typed(g3) /\ Base(g3, TRUE) /\ AllGuarded(g3, TRUE) /\ AtLayer(g3, 0)
      /\ g3.queue["side"] # <<>> /\ g3.queue["side"][Len(g3.queue["side"])] = Fills(0)
  <2> HIDE DEF g2
  <2> QED BY <1>3, LayerFacts, IssueFills
<1>5. Typed(g4) /\ Base(g4, TRUE) /\ AllGuarded(g4, TRUE) /\ AtLayer(g4, 0) /\ Ready(g4, 0)
  <2> HIDE DEF g3
  <2> QED BY <1>4, LayerFacts, IssueFilled
<1>6. /\ IssueAll(calls) = g4
      /\ \A n \in 0 .. Len(calls) - 1 : IssueAll(SubSeq(calls, 1, n)) \in {gpu, g1, g2, g3}
  <2> DEFINE f == Fills(0)
             e == Embeds
  <2> HIDE DEF w, r, f, e
  <2>1. /\ IssueAll(<<e, w, f, r>>) = Issue(Issue(Issue(Issue(gpu, e), w), f), r)
        /\ \A n \in 0 .. Len(<<e, w, f, r>>) - 1 :
             IssueAll(SubSeq(<<e, w, f, r>>, 1, n))
               \in {gpu, Issue(gpu, e), Issue(Issue(gpu, e), w), Issue(Issue(Issue(gpu, e), w), f)}
    BY IssueFour
  <2> QED BY <2>1 DEF e, f
<1> HIDE DEF g1, g2, g3, g4, calls
<1>8. Completes(calls, "layer", 0, TRUE)
  BY <1>5, <1>6, LayerFacts DEF Completes, OnTime
<1>9. StopsAnywhere(calls)
  BY <1>2, <1>3, <1>4, <1>6, Stopped DEF StopsAnywhere
<1> QED BY <1>1, <1>8, <1>9

(* Layer k + 1 is prefetched, if there is one.                             *)
LEMMA NextLayer ==
  ASSUME MoeLayers, NEW g, Typed(g), Base(g, TRUE), AllGuarded(g, TRUE),
         NEW k \in Layers, AtLayer(g, k), Ready(g, k), k + 1 \in Layers
  PROVE  LET g1 == Issue(g, Fills(k + 1))
             g2 == Issue(g1, Record("side", <<"prefetch", k + 1>>))
         IN  /\ Typed(g1) /\ Base(g1, TRUE)
             /\ Typed(g2) /\ Base(g2, TRUE) /\ OnTime(g2, "experts", k)
<1> DEFINE l == k + 1
           r == Record("side", <<"prefetch", l>>)
           g1 == Issue(g, Fills(l))
           g2 == Issue(g1, r)
<1>1. l \in Layers /\ l # k /\ k # l /\ Slot(k) # Slot(l)
  BY LayerFacts
<1>2. /\ Typed(g1) /\ Base(g1, TRUE) /\ AtLayer(g1, k) /\ Ready(g1, k)
      /\ g1.queue["side"] # <<>> /\ g1.queue["side"][Len(g1.queue["side"])] = Fills(l)
  <2> HIDE DEF l
  <2> QED BY <1>1, IssueFills
<1>3. Typed(g2) /\ Base(g2, TRUE) /\ AtLayer(g2, k) /\ Ready(g2, k) /\ Ready(g2, l)
  <2> HIDE DEF g1, l
  <2> QED BY <1>1, <1>2, IssueFilled
<1> HIDE DEF g1, g2
<1>4. OnTime(g2, "experts", k)
  BY <1>3 DEF OnTime
<1> QED BY <1>2, <1>3, <1>4 DEF g1, g2

LEMMA LayerStage ==
  ASSUME MoeLayers, Typed(gpu), Base(gpu, TRUE), NEW k \in Layers, OnTime(gpu, "layer", k)
  PROVE  Completes(LayerBegin(k), "experts", k, TRUE) /\ StopsAnywhere(LayerBegin(k))
<1> DEFINE w == Wait("side", <<"computed", k - 1>>)
           f == Fills(k + 1)
           r == Record("side", <<"prefetch", k + 1>>)
           h == Issue(gpu, w)
<1>1. AtLayer(gpu, k) /\ Ready(gpu, k) /\ (k = 0 => AllGuarded(gpu, TRUE))
  BY DEF OnTime
<1>2. k \in Nat /\ (k + 1 \notin Layers => k + 1 >= moe_layers)
  BY LayerFacts DEF Layers
<1>3. k # 0 => Typed(h) /\ Base(h, TRUE) /\ AllGuarded(h, TRUE) /\ AtLayer(h, k) /\ Ready(h, k)
  BY <1>1, IssueLayerWait
<1>4. Base(gpu, FALSE) /\ (k # 0 => Base(h, FALSE))
  BY <1>3, Stopped
<1>5. CASE k = 0 /\ k + 1 \in Layers
  <2>1. LayerBegin(k) = <<f, r>>
    <3>1. Prefetch(k + 1) = <<f, r>>
      BY <1>5, PrefetchList
    <3>2. LayerBegin(k) = <<>> \o <<f, r>>
      BY <1>5, <3>1 DEF LayerBegin
    <3> HIDE DEF f, r
    <3> QED BY <3>2, ConcatNone
  <2>2. /\ Typed(Issue(gpu, f)) /\ Base(Issue(gpu, f), TRUE)
        /\ Typed(Issue(Issue(gpu, f), r)) /\ Base(Issue(Issue(gpu, f), r), TRUE)
        /\ OnTime(Issue(Issue(gpu, f), r), "experts", k)
    BY <1>1, <1>5, NextLayer
  <2> HIDE DEF f, r
  <2>3. IssueAll(<<f, r>>) = Issue(Issue(gpu, f), r)
    BY IssueTwo
  <2>4. \A n \in 0 .. Len(<<f, r>>) - 1 : IssueAll(SubSeq(<<f, r>>, 1, n)) \in {gpu, Issue(gpu, f)}
    BY IssueTwo
  <2>5. Completes(LayerBegin(k), "experts", k, TRUE)
    BY <2>1, <2>2, <2>3 DEF Completes
  <2>6. StopsAnywhere(LayerBegin(k))
    BY <1>4, <2>1, <2>2, <2>4, Stopped DEF StopsAnywhere
  <2> QED BY <2>5, <2>6
<1>6. CASE k = 0 /\ k + 1 \notin Layers
  <2>1. LayerBegin(k) = <<>>
    BY <1>2, <1>6 DEF LayerBegin, Prefetch
  <2>2. IssueAll(<<>>) = gpu
    BY IssueNone
  <2>3. OnTime(gpu, "experts", k)
    BY <1>1, <1>6 DEF OnTime
  <2>4. Len(<<>>) = 0 /\ 0 .. 0 - 1 = {}
    OBVIOUS
  <2> QED BY <2>1, <2>2, <2>3, <2>4 DEF Completes, StopsAnywhere
<1>7. CASE k # 0 /\ k + 1 \notin Layers
  <2>1. LayerBegin(k) = <<w>>
    <3>1. LayerBegin(k) = <<w>> \o <<>>
      BY <1>2, <1>7 DEF LayerBegin, Prefetch
    <3> HIDE DEF w
    <3> QED BY <3>1, ConcatOne
  <2>2. OnTime(h, "experts", k)
    BY <1>3, <1>7 DEF OnTime
  <2> HIDE DEF w
  <2>3. IssueAll(<<w>>) = h
    BY IssueOne
  <2>4. \A n \in 0 .. Len(<<w>>) - 1 : IssueAll(SubSeq(<<w>>, 1, n)) = gpu
    BY IssueOne
  <2>5. Completes(LayerBegin(k), "experts", k, TRUE)
    BY <1>3, <1>7, <2>1, <2>2, <2>3 DEF Completes
  <2>6. StopsAnywhere(LayerBegin(k))
    BY <1>4, <2>1, <2>4 DEF StopsAnywhere
  <2> QED BY <2>5, <2>6
<1>8. CASE k # 0 /\ k + 1 \in Layers
  <2>1. LayerBegin(k) = <<w, f, r>>
    <3>1. Prefetch(k + 1) = <<f, r>>
      BY <1>8, PrefetchList
    <3>2. k >= 1
      BY <1>2, <1>8
    <3>3. LayerBegin(k) = <<w>> \o Prefetch(k + 1)
      BY <3>2 DEF LayerBegin
    <3> HIDE DEF f, r, w
    <3> QED BY <3>1, <3>3, ConcatThree
  <2>2. /\ Typed(Issue(h, f)) /\ Base(Issue(h, f), TRUE)
        /\ Typed(Issue(Issue(h, f), r)) /\ Base(Issue(Issue(h, f), r), TRUE)
        /\ OnTime(Issue(Issue(h, f), r), "experts", k)
    <3> HIDE DEF h
    <3> QED BY <1>3, <1>8, NextLayer
  <2> HIDE DEF f, r, w
  <2>3. IssueAll(<<w, f, r>>) = Issue(Issue(Issue(gpu, w), f), r)
    BY IssueThree
  <2>4. \A n \in 0 .. Len(<<w, f, r>>) - 1 :
          IssueAll(SubSeq(<<w, f, r>>, 1, n))
            \in {gpu, Issue(gpu, w), Issue(Issue(gpu, w), f)}
    BY IssueThree
  <2>9. Issue(gpu, w) = h
    OBVIOUS
  <2> HIDE DEF h
  <2>5. Completes(LayerBegin(k), "experts", k, TRUE)
    BY <2>1, <2>2, <2>3, <2>9 DEF Completes
  <2>6. StopsAnywhere(LayerBegin(k))
    BY <1>3, <1>4, <1>8, <2>1, <2>2, <2>4, <2>9, Stopped DEF StopsAnywhere
  <2> QED BY <2>5, <2>6
<1> QED BY <1>5, <1>6, <1>7, <1>8

LEMMA ExpertsStage ==
  ASSUME MoeLayers, Typed(gpu), Base(gpu, TRUE), NEW k \in Layers, OnTime(gpu, "experts", k)
  PROVE  Completes(Experts(k), "end", k, TRUE) /\ StopsAnywhere(Experts(k))
<1> DEFINE w == Wait("compute", <<"prefetch", k>>)
           c == Multiplies(k)
           g1 == Issue(gpu, w)
           g2 == Issue(g1, c)
<1>1. AtLayer(gpu, k) /\ Ready(gpu, k) /\ (k + 1 \in Layers => Ready(gpu, k + 1))
  BY DEF OnTime
<1>2. /\ Typed(g1) /\ Base(g1, TRUE) /\ g1.queue["compute"] # <<>>
      /\ Does(g1.queue["compute"][Len(g1.queue["compute"])], "wait", <<"prefetch", k>>)
      /\ g1.queue["compute"][Len(g1.queue["compute"])].number = g1.recorded[<<"prefetch", k>>]
      /\ Ready(g1, k) /\ (k + 1 \in Layers => Ready(g1, k + 1))
  BY <1>1, IssueExpertsWait
<1>3. /\ Typed(g2) /\ Base(g2, TRUE) /\ AtEnd(g2, k) /\ (k + 1 \in Layers => Ready(g2, k + 1))
  <2> HIDE DEF g1
  <2> QED BY <1>2, IssueMultiplies
<1>4. Experts(k) = <<w, c>>
  BY DEF Experts, Multiplies
<1>5. IssueAll(<<w, c>>) = g2
  <2> HIDE DEF w, c
  <2>1. IssueAll(<<w, c>>) = Issue(Issue(gpu, w), c)
    BY IssueTwo
  <2> QED BY <2>1
<1>6. \A n \in 0 .. Len(<<w, c>>) - 1 : IssueAll(SubSeq(<<w, c>>, 1, n)) \in {gpu, g1}
  BY IssueTwo
<1> HIDE DEF g1, g2, w, c
<1>7. Completes(Experts(k), "end", k, TRUE)
  BY <1>3, <1>4, <1>5 DEF Completes, OnTime
<1>8. StopsAnywhere(Experts(k))
  BY <1>2, <1>4, <1>6, Stopped DEF StopsAnywhere
<1> QED BY <1>7, <1>8

LEMMA EndStage ==
  ASSUME MoeLayers, Typed(gpu), Base(gpu, TRUE), NEW k \in Layers, OnTime(gpu, "end", k)
  PROVE  /\ k + 1 \in Layers => Completes(LayerEnd(k), "layer", k + 1, TRUE)
         /\ k + 1 \notin Layers => Completes(LayerEnd(k), "output", 0, TRUE)
         /\ StopsAnywhere(LayerEnd(k))
<1> DEFINE r == Record("compute", <<"computed", k>>)
           h == Issue(gpu, r)
<1>1. AtEnd(gpu, k) /\ (k + 1 \in Layers => Ready(gpu, k + 1))
  BY DEF OnTime
<1>2. /\ Typed(h) /\ Base(h, TRUE) /\ AtLayer(h, k + 1)
      /\ (k + 1 \in Layers => Ready(h, k + 1))
  BY <1>1, IssueLayerEnd
<1>3. k + 1 # 0 /\ (k + 1 \notin Layers => k + 1 = moe_layers)
  BY LayerFacts DEF Layers
<1> HIDE DEF r
<1>4. IssueAll(<<r>>) = h
  BY IssueOne
<1>5. \A n \in 0 .. Len(<<r>>) - 1 : IssueAll(SubSeq(<<r>>, 1, n)) = gpu
  BY IssueOne
<1>6. LayerEnd(k) = <<r>>
  BY DEF LayerEnd, r
<1> HIDE DEF h
<1>7. StopsAnywhere(LayerEnd(k))
  BY <1>5, <1>6, Stopped DEF StopsAnywhere
<1>8. /\ k + 1 \in Layers => Completes(LayerEnd(k), "layer", k + 1, TRUE)
      /\ k + 1 \notin Layers => Completes(LayerEnd(k), "output", 0, TRUE)
  BY <1>2, <1>3, <1>4, <1>6 DEF Completes, OnTime
<1> QED BY <1>7, <1>8

LEMMA OutputStage ==
  ASSUME MoeLayers, Typed(gpu), Base(gpu, TRUE), forward \in 1 .. MaxForwards,
         OnTime(gpu, "output", 0)
  PROVE  Completes(Output, "idle", 0, FALSE) /\ StopsAnywhere(Output)
<1> DEFINE c == Outputs(forward)
<1>1. Typed(Issue(gpu, c)) /\ Base(Issue(gpu, c), FALSE)
  BY IssueOutputs DEF OnTime
<1>2. Output = <<c>>
  BY DEF Output, Outputs
<1> HIDE DEF c
<1>3. IssueAll(<<c>>) = Issue(gpu, c)
  BY IssueOne
<1>4. \A n \in 0 .. Len(<<c>>) - 1 : IssueAll(SubSeq(<<c>>, 1, n)) = gpu
  BY IssueOne
<1>5. StopsAnywhere(Output)
  BY <1>2, <1>4, Stopped DEF StopsAnywhere
<1>6. Completes(Output, "idle", 0, FALSE)
  BY <1>1, <1>2, <1>3 DEF Completes, OnTime
<1> QED BY <1>5, <1>6

(***************************************************************************)
(* The prefetched path: the invariant and its steps                        *)
(***************************************************************************)

(* Nothing above reads a variable but the device it is given and           *)
(* moe_layers, which no step changes.                                      *)
LEMMA LayersStay == ASSUME moe_layers' = moe_layers PROVE Layers' = Layers
BY DEF Layers

LEMMA CallsStay ==
  ASSUME moe_layers' = moe_layers
  PROVE  /\ \A c : SideCall(c)' <=> SideCall(c)
         /\ \A c : ComputeCall(c)' <=> ComputeCall(c)
         /\ \A c, d : Follows(c, d)' <=> Follows(c, d)
         /\ \A c, k : Overwrites(c, k)' <=> Overwrites(c, k)
         /\ \A v, c : Holds(v, c)' <=> Holds(v, c)
<1>1. \A c : SideCall(c)' <=> SideCall(c)
  BY LayersStay DEF SideCall
<1>2. \A c : ComputeCall(c)' <=> ComputeCall(c)
  BY LayersStay DEF ComputeCall
<1>3. \A c, d : Follows(c, d)' <=> Follows(c, d)
  BY LayersStay DEF Follows
<1>4. \A c, k : Overwrites(c, k)' <=> Overwrites(c, k)
  BY LayersStay DEF Overwrites
<1>5. \A v, c : Holds(v, c)' <=> Holds(v, c)
  BY LayersStay DEF Holds
<1> QED BY <1>1, <1>2, <1>3, <1>4, <1>5

LEMMA PartsStay ==
  ASSUME moe_layers' = moe_layers
  PROVE  /\ \A C, D : Queued(C, D)' <=> Queued(C, D)
         /\ \A m : Whole(m)' <=> Whole(m)
         /\ \A seen, D : SideSeen(seen, D)' <=> SideSeen(seen, D)
         /\ \A m, C, D, i, k : Own(m, C, D, i, k)' <=> Own(m, C, D, i, k)
         /\ \A m, seen, C, on : Sums(m, seen, C, on)' <=> Sums(m, seen, C, on)
<1>1. \A C, D : Queued(C, D)' <=> Queued(C, D)
  BY CallsStay DEF Queued
<1>2. \A m : Whole(m)' <=> Whole(m)
  BY LayersStay DEF Whole
<1>3. \A seen, D : SideSeen(seen, D)' <=> SideSeen(seen, D)
  BY LayersStay DEF SideSeen
<1>4. \A m, C, D, i, k : Own(m, C, D, i, k)' <=> Own(m, C, D, i, k)
  BY CallsStay DEF Own
<1>5. \A m, seen, C, on : Sums(m, seen, C, on)' <=> Sums(m, seen, C, on)
  BY CallsStay, LayersStay DEF Sums
<1> QED BY <1>1, <1>2, <1>3, <1>4, <1>5

LEMMA FedStays ==
  ASSUME moe_layers' = moe_layers
  PROVE  \A m, C, D, on : Fed(m, C, D, on)' <=> Fed(m, C, D, on)
BY PartsStay, LayersStay DEF Fed

LEMMA BaseStays ==
  ASSUME moe_layers' = moe_layers
  PROVE  /\ \A g, on : Base(g, on)' <=> Base(g, on)
         /\ \A g, k : AtLayer(g, k)' <=> AtLayer(g, k)
         /\ \A g, k : AtEnd(g, k)' <=> AtEnd(g, k)
         /\ \A g, k : Ready(g, k)' <=> Ready(g, k)
         /\ \A g, on : AllGuarded(g, on)' <=> AllGuarded(g, on)
<1>1. \A g, on : Base(g, on)' <=> Base(g, on)
  BY PartsStay, FedStays DEF Base
<1>2. \A g, k : AtLayer(g, k)' <=> AtLayer(g, k)
  BY DEF AtLayer
<1>3. \A g, k : AtEnd(g, k)' <=> AtEnd(g, k)
  BY DEF AtEnd
<1>4. \A g, k : Ready(g, k)' <=> Ready(g, k)
  BY CallsStay DEF Ready
<1>5. \A g, on : AllGuarded(g, on)' <=> AllGuarded(g, on)
  BY LayersStay DEF AllGuarded
<1> QED BY <1>1, <1>2, <1>3, <1>4, <1>5

LEMMA OnTimeStays ==
  ASSUME moe_layers' = moe_layers, NEW g, NEW stage, NEW k
  PROVE  OnTime(g, stage, k)' <=> OnTime(g, stage, k)
<1>1. /\ AtLayer(g, k)' <=> AtLayer(g, k)
      /\ AtEnd(g, k)' <=> AtEnd(g, k)
      /\ Ready(g, k)' <=> Ready(g, k)
      /\ Ready(g, k + 1)' <=> Ready(g, k + 1)
      /\ AllGuarded(g, TRUE)' <=> AllGuarded(g, TRUE)
  BY BaseStays
<1>2. AtLayer(g, moe_layers)' <=> AtLayer(g, moe_layers)
  BY DEF AtLayer
<1> QED BY <1>1, <1>2, LayersStay DEF OnTime

Running == at.stage \notin {"idle", "begin"}

HostPlace ==
  /\ MoeLayers
  /\ forward \in 0 .. MaxForwards /\ returned \subseteq 1 .. forward
  /\ at = [stage |-> at.stage, k |-> at.k]
  /\ at.stage \in {"idle", "begin", "layer", "experts", "end", "output"}
  /\ at.stage # "idle" => forward # 0
  /\ at.stage = "output" => at.k = 0

PrefetchInv ==
  HostPlace /\ Base(gpu, Running) /\ OnTime(gpu, at.stage, at.k)

LEMMA PrefetchWhole ==
  ASSUME PrefetchInv
  PROVE  PrefetchedIsWhole
<1>1. returned \subseteq 1 .. MaxForwards
  BY Numbers DEF PrefetchInv, HostPlace
<1>2. Whole(gpu.memory)
  BY DEF PrefetchInv, Base
<1> QED BY <1>1, <1>2 DEF Whole, Partial, PrefetchedIsWhole

LEMMA PrefetchPlaced ==
  ASSUME moe_layers' = moe_layers, HostPlace',
         NEW on, on = Running', Base(gpu', on), OnTime(gpu', at'.stage, at'.k)
  PROVE  PrefetchInv'
<1>1. Base(gpu, Running)'
  BY BaseStays
<1>2. OnTime(gpu, at.stage, at.k)'
  BY OnTimeStays
<1> QED BY <1>1, <1>2 DEF PrefetchInv

LEMMA PrefetchStarts ==
  ASSUME StreamsInit, PrefetchInit
  PROVE  Typed(gpu) /\ PrefetchInv
<1>1. Typed(gpu)
  BY DEF StreamsInit, Typed
<1>2. /\ gpu.queue = [s \in Streams |-> <<>>] /\ gpu.seen = [s \in Streams |-> <<>>]
      /\ gpu.recorded = [e \in Events |-> 0] /\ gpu.completed = [e \in Events |-> 0]
      /\ \A s \in Streams : gpu.queue[s] = <<>> /\ gpu.seen[s] = <<>>
  BY DEF StreamsInit
<1>3. HostPlace /\ Running = FALSE /\ at.stage = "idle"
  <2>1. /\ moe_layers \in 1 .. Cardinality(Weights) /\ forward = 0 /\ returned = {}
        /\ at.stage = "idle" /\ at.k = 0 /\ at = [stage |-> "idle", k |-> 0]
    BY DEF PrefetchInit
  <2> QED BY <2>1, Numbers DEF HostPlace, Running, MoeLayers
<1>4. Whole(gpu.memory)
  <2>1. \A k \in Layers : <<"staged", k>> \in Buffers /\ gpu.memory[<<"staged", k>>] = {<<k, k>>}
    BY <1>3, LayerFacts, BufferFacts DEF StreamsInit, HostPlace, Buffers
  <2>2. gpu.memory[embed] = Residual
    BY BufferFacts DEF StreamsInit, embed
  <2>3. \A f \in 1 .. MaxForwards : gpu.memory[<<"out", f>>] = Torn
    BY BufferFacts DEF StreamsInit, Buffers
  <2> QED BY <2>1, <2>2, <2>3 DEF Whole
<1>5. Base(gpu, FALSE)
  <2>1. gpu.queue["compute"] = <<>> /\ gpu.queue["side"] = <<>> /\ gpu.queue["null"] = <<>>
        /\ gpu.seen["compute"] = <<>> /\ gpu.seen["side"] = <<>> /\ Len(<<>>) = 0
    BY <1>2 DEF Streams
  <2>2. Queued(gpu.queue["compute"], gpu.queue["side"])
    BY <2>1 DEF Queued
  <2>3. Numbered(gpu, gpu.queue["compute"]) /\ Numbered(gpu, gpu.queue["side"])
    BY <2>1 DEF Numbered
  <2>4. SideSeen(gpu.seen["side"], gpu.queue["side"]) /\ ComputeSeen(gpu.seen["compute"], gpu.queue["compute"])
    BY <2>1 DEF SideSeen, ComputeSeen
  <2>5. Fed(gpu.memory, gpu.queue["compute"], gpu.queue["side"], FALSE)
    BY <2>1 DEF Fed
  <2>6. Sums(gpu.memory, gpu.seen["compute"], gpu.queue["compute"], FALSE)
    BY <2>1 DEF Sums
  <2> QED BY <1>4, <2>1, <2>2, <2>3, <2>4, <2>5, <2>6 DEF Base
<1>6. OnTime(gpu, at.stage, at.k)
  BY <1>3 DEF OnTime
<1> QED BY <1>1, <1>3, <1>5, <1>6 DEF PrefetchInv

LEMMA PrefetchForward ==
  ASSUME Typed(gpu), PrefetchInv, ForwardStarts
  PROVE  Typed(gpu') /\ PrefetchInv'
<1>1. gpu' = gpu /\ moe_layers' = moe_layers /\ at'.stage = "begin" /\ forward' = forward + 1
      /\ returned' = returned /\ at' = [stage |-> "begin", k |-> 0] /\ at.stage = "idle"
      /\ forward < MaxForwards
  BY DEF ForwardStarts
<1>2. HostPlace'
  BY <1>1, Numbers DEF PrefetchInv, HostPlace, MoeLayers
<1>3. Base(gpu', FALSE)
  BY <1>1 DEF PrefetchInv, Running
<1>4. OnTime(gpu', at'.stage, at'.k)
  BY <1>1 DEF OnTime
<1>5. Running' = FALSE
  BY <1>1 DEF Running
<1> QED BY <1>1, <1>2, <1>3, <1>4, <1>5, PrefetchPlaced

(* What the stage issues takes the host to its next place.                 *)
LEMMA PrefetchRuns ==
  ASSUME Typed(gpu), PrefetchInv, StageRuns
  PROVE  Typed(gpu') /\ PrefetchInv'
<1>1. /\ at.stage \in {"begin", "layer", "experts", "end", "output"} /\ MoeLayers
      /\ gpu' = IssueAll(Stages[at.stage]) /\ at' = After
      /\ returned' = IF at.stage = "output" THEN returned \cup {forward} ELSE returned
      /\ moe_layers' = moe_layers /\ forward' = forward
      /\ forward \in 1 .. MaxForwards /\ at = [stage |-> at.stage, k |-> at.k]
      /\ OnTime(gpu, at.stage, at.k)
  BY Numbers DEF StageRuns, PrefetchInv, HostPlace
<1>2. returned' \subseteq 1 .. forward'
  BY <1>1 DEF PrefetchInv, HostPlace
<1>3. ASSUME Completes(Stages[at.stage], at'.stage, at'.k, Running'),
             at' = [stage |-> at'.stage, k |-> at'.k],
             at'.stage \in {"idle", "layer", "experts", "end", "output"},
             at'.stage = "output" => at'.k = 0
      PROVE  Typed(gpu') /\ PrefetchInv'
  <2>1. Typed(gpu') /\ Base(gpu', Running') /\ OnTime(gpu', at'.stage, at'.k)
    BY <1>1, <1>3 DEF Completes
  <2>2. MoeLayers'
    BY <1>1 DEF MoeLayers
  <2>3. HostPlace'
    BY <1>1, <1>2, <1>3, <2>2, Numbers DEF HostPlace
  <2> QED BY <1>1, <2>1, <2>3, PrefetchPlaced
<1>4. CASE at.stage = "begin"
  <2>1. at' = [stage |-> "layer", k |-> 0]
    BY <1>1, <1>4 DEF After
  <2>2. Running' = TRUE /\ Running = FALSE
    BY <1>4, <2>1 DEF Running
  <2>3. Base(gpu, FALSE) /\ Stages["begin"] = <<Copy("compute", x, embed)>> \o BeginCalls
    BY <2>2 DEF Stages, PrefetchInv
  <2>4. Completes(Stages["begin"], "layer", 0, TRUE)
    BY <1>1, <2>3, BeginStage
  <2> QED BY <1>3, <1>4, <2>1, <2>2, <2>4
<1>5. CASE at.stage = "layer"
  <2>1. at' = [stage |-> "experts", k |-> at.k] /\ at.k \in Layers
    BY <1>1, <1>5 DEF After, OnTime
  <2>2. Running' = TRUE /\ Running = TRUE
    BY <1>5, <2>1 DEF Running
  <2>3. Completes(Stages["layer"], "experts", at.k, TRUE)
    BY <1>1, <1>5, <2>1, <2>2, LayerStage DEF Stages, PrefetchInv
  <2> QED BY <1>3, <1>5, <2>1, <2>2, <2>3
<1>6. CASE at.stage = "experts"
  <2>1. at' = [stage |-> "end", k |-> at.k] /\ at.k \in Layers
    BY <1>1, <1>6 DEF After, OnTime
  <2>2. Running' = TRUE /\ Running = TRUE
    BY <1>6, <2>1 DEF Running
  <2>3. Completes(Stages["experts"], "end", at.k, TRUE)
    BY <1>1, <1>6, <2>1, <2>2, ExpertsStage DEF Stages, PrefetchInv
  <2> QED BY <1>3, <1>6, <2>1, <2>2, <2>3
<1>7. CASE at.stage = "end"
  <2>1. at.k \in Layers /\ Running = TRUE
    BY <1>1, <1>7 DEF OnTime, Running
  <2>2. at.k + 1 < moe_layers <=> at.k + 1 \in Layers
    BY <1>1, <2>1, LayerFacts DEF Layers
  <2>3. at' = IF at.k + 1 \in Layers THEN [stage |-> "layer", k |-> at.k + 1]
              ELSE [stage |-> "output", k |-> 0]
    BY <1>1, <1>7, <2>2 DEF After
  <2>4. Running' = TRUE
    BY <2>3 DEF Running
  <2>5. /\ at.k + 1 \in Layers => Completes(Stages["end"], "layer", at.k + 1, TRUE)
        /\ at.k + 1 \notin Layers => Completes(Stages["end"], "output", 0, TRUE)
    BY <1>1, <1>7, <2>1, EndStage DEF Stages, PrefetchInv
  <2>6. CASE at.k + 1 \in Layers
    BY <1>3, <1>7, <2>3, <2>4, <2>5, <2>6
  <2>7. CASE at.k + 1 \notin Layers
    BY <1>3, <1>7, <2>3, <2>4, <2>5, <2>7
  <2> QED BY <2>6, <2>7
<1>8. CASE at.stage = "output"
  <2>1. at' = [stage |-> "idle", k |-> 0] /\ at.k = 0
    BY <1>1, <1>8 DEF After, PrefetchInv, HostPlace
  <2>2. Running' = FALSE /\ Running = TRUE
    BY <1>8, <2>1 DEF Running
  <2>3. Completes(Stages["output"], "idle", 0, FALSE)
    BY <1>1, <1>8, <2>1, <2>2, OutputStage DEF Stages, PrefetchInv
  <2> QED BY <1>3, <1>8, <2>1, <2>2, <2>3
<1> QED BY <1>1, <1>4, <1>5, <1>6, <1>7, <1>8

LEMMA PrefetchFails ==
  ASSUME Typed(gpu), PrefetchInv, StageFails
  PROVE  Typed(gpu') /\ PrefetchInv'
<1>1. /\ at.stage \in {"begin", "layer", "experts", "end", "output"} /\ MoeLayers
      /\ at' = [stage |-> "idle", k |-> 0]
      /\ moe_layers' = moe_layers /\ forward' = forward /\ returned' = returned
      /\ forward \in 1 .. MaxForwards /\ OnTime(gpu, at.stage, at.k)
  BY Numbers DEF StageFails, PrefetchInv, HostPlace
<1>2. PICK n \in 0 .. Len(Stages[at.stage]) - 1 : gpu' = IssueAll(SubSeq(Stages[at.stage], 1, n))
  BY DEF StageFails
<1>3. StopsAnywhere(Stages[at.stage])
  <2>1. CASE at.stage = "begin"
    <3>1. Running = FALSE
      BY <2>1 DEF Running
    <3>2. Base(gpu, FALSE) /\ Stages["begin"] = <<Copy("compute", x, embed)>> \o BeginCalls
      BY <3>1 DEF Stages, PrefetchInv
    <3>3. StopsAnywhere(Stages["begin"])
      BY <1>1, <3>2, BeginStage
    <3> QED BY <2>1, <3>3
  <2>2. CASE at.stage \in {"layer", "experts", "end", "output"}
    <3>1. Running = TRUE /\ (at.stage # "output" => at.k \in Layers) /\ (at.stage = "output" => at.k = 0)
      BY <1>1, <2>2 DEF Running, OnTime, PrefetchInv, HostPlace
    <3>2. Base(gpu, TRUE)
      BY <3>1 DEF PrefetchInv
    <3>3. CASE at.stage = "layer"
      <4>1. Stages[at.stage] = LayerBegin(at.k)
        BY <3>3 DEF Stages
      <4> QED BY <1>1, <3>1, <3>2, <3>3, <4>1, LayerStage
    <3>4. CASE at.stage = "experts"
      <4>1. Stages[at.stage] = Experts(at.k)
        BY <3>4 DEF Stages
      <4> QED BY <1>1, <3>1, <3>2, <3>4, <4>1, ExpertsStage
    <3>5. CASE at.stage = "end"
      <4>1. Stages[at.stage] = LayerEnd(at.k)
        BY <3>5 DEF Stages
      <4> QED BY <1>1, <3>1, <3>2, <3>5, <4>1, EndStage
    <3>6. CASE at.stage = "output"
      <4>1. Stages[at.stage] = Output
        BY <3>6 DEF Stages
      <4> QED BY <1>1, <3>1, <3>2, <3>6, <4>1, OutputStage
    <3> QED BY <2>2, <3>3, <3>4, <3>5, <3>6
  <2> QED BY <1>1, <2>1, <2>2
<1>4. Typed(gpu') /\ Base(gpu', FALSE)
  BY <1>2, <1>3 DEF StopsAnywhere
<1>5. MoeLayers' /\ Running' = FALSE /\ OnTime(gpu', at'.stage, at'.k)
  BY <1>1 DEF MoeLayers, Running, OnTime
<1>6. HostPlace'
  BY <1>1, <1>5, Numbers DEF PrefetchInv, HostPlace
<1> QED BY <1>1, <1>4, <1>5, <1>6, PrefetchPlaced

LEMMA PrefetchDevice ==
  ASSUME Typed(gpu), PrefetchInv, Device, UNCHANGED prefetchVars
  PROVE  Typed(gpu') /\ PrefetchInv'
<1>1. /\ moe_layers' = moe_layers /\ forward' = forward /\ at' = at /\ returned' = returned
      /\ MoeLayers /\ Running \in BOOLEAN
  BY DEF prefetchVars, PrefetchInv, HostPlace, Running
<1>2. Kept(gpu, gpu', Running)
  BY <1>1, DeviceKeeps DEF PrefetchInv
<1>3. Running' = Running
  BY <1>1 DEF Running
<1>4. MoeLayers'
  BY <1>1 DEF MoeLayers
<1>5. HostPlace'
  BY <1>1, <1>4 DEF PrefetchInv, HostPlace
<1>6. OnTime(gpu', at.stage, at.k)
  <2>1. Running /\ AllGuarded(gpu, TRUE) => AllGuarded(gpu', TRUE)
    BY <1>2 DEF Kept, HostKeeps
  <2> QED BY <1>1, <1>2, <2>1 DEF OnTime, Kept, HostKeeps, Running, PrefetchInv
<1> QED BY <1>1, <1>2, <1>3, <1>5, <1>6, PrefetchPlaced DEF Kept
(***************************************************************************)
(* The bounded path: what is queued and what it leaves                     *)
(***************************************************************************)
routerDone  == <<"router_done", 0>>
partDone    == <<"part_done", 0>>
SlotOf(s)   == <<"slot", s>>
Loads(s, e) == Copy("null", SlotOf(s), <<"staged", e>>)
Gathers(G)  == Accumulate("compute", x, G)
ToHost      == Copy("side", xh, x)
ToDevice    == Copy("side", x, xh)

Exact(E) == {<<e, e>> : e \in E}

(* v has every expert of W from its own weights, once the host adds those  *)
(* in H; those in M may be wrong.                                          *)
Right(v, W, M, H) == {t \in v \cup Exact(H) : t[1] \notin M} = Residual \cup Exact(W \ M)

(* The host's place, as the device's calls depend on it: the forward       *)
(* launched last (0 if it failed) with what it gathers or leaves to the    *)
(* host (W), may misread (M) and leaves to the host (H), and the slots.    *)
ViewOk(v) ==
  /\ v.W \subseteq Weights /\ v.M \subseteq Weights /\ v.H \subseteq Weights
  /\ v.stage \in {"idle", "routing", "upload", "fallback", "output"}
  /\ v.stage # "fallback" => v.H = {}
  /\ v.stage \in {"idle", "routing"} => v.f <= v.ended
  /\ v.f \in 0 .. MaxForwards /\ v.ended \in Nat
  /\ v.f # 0 => v.W = v.wanted[v.f] /\ v.M = v.misread[v.f]
  /\ DOMAIN v.held \subseteq Slots /\ \A s \in DOMAIN v.held : v.held[s] \in Weights \cup {-1}

SlotCall(c, v) ==
  \/ c.do = "accumulate" /\ c = Gathers(c.terms)
  \/ Does(c, "record", partDone)
  \/ c = Outputs(v.f) /\ v.f \in 1 .. MaxForwards /\ v.stage \in {"idle", "routing"}
  \/ c = Embeds /\ v.stage \in {"idle", "routing"}
  \/ Does(c, "record", routerDone) /\ v.stage \in {"idle", "routing"}

(* The next forward may follow any call, where the last one failed.        *)
SlotFollows(c, d, v) ==
  \/ d = Embeds
  \/ c.do = "accumulate" /\ Does(d, "record", partDone)
  \/ Does(c, "record", partDone) /\ d = Outputs(v.f)
  \/ c = Embeds /\ Does(d, "record", routerDone)

(* The gathered slots hold what they are gathered for.                     *)
Gathered(m, G, v) ==
  /\ \A t \in G : \E s \in Slots : /\ t = <<t[1], SlotOf(s)>>
                                   /\ t[1] \in v.M \/ m[SlotOf(s)] = {<<t[1], t[1]>>}
  /\ {t[1] : t \in G} \cup v.H = v.W

(* The call at the head of the compute stream finds what it needs.         *)
HeadHolds(g, v) ==
  LET c    == g.queue["compute"][1]
      seen == g.seen["compute"]
  IN  /\ c.do = "accumulate" =>
           /\ Gathered(g.memory, c.terms, v)
           /\ seen = <<>> => g.memory[x] = Residual
           /\ seen # <<>> => seen[x] = Residual /\ \A t \in c.terms : seen[t[2]] = g.memory[t[2]]
      /\ Does(c, "record", partDone) => Right(g.memory[x], v.W, v.M, v.H)
      /\ c = Outputs(v.f) => /\ Right(g.memory[x], v.W, v.M, v.H)
                             /\ seen # <<>> => seen[x] = g.memory[x]
      /\ c = Embeds => (seen # <<>> => seen[embed] = Residual)
      /\ Does(c, "record", routerDone) => g.memory[x] = Residual

(* The last call the host's place leaves in the queue.                     *)
EndsAs(C, v) ==
  /\ v.stage = "upload" => C = <<>>
  /\ C # <<>> =>
       /\ v.stage = "routing" => Does(C[Len(C)], "record", routerDone)
       /\ v.stage \in {"fallback", "output"} => Does(C[Len(C)], "record", partDone)

(* What x holds once the compute stream is done.                           *)
Drained(g, v) ==
  g.queue["compute"] = <<>> =>
    /\ v.stage \in {"routing", "upload"} => g.memory[x] = Residual
    /\ v.stage = "fallback" \/ (v.stage = "output" /\ g.queue["side"] = <<>>) =>
         Right(g.memory[x], v.W, v.M, v.H)

OnCompute(g, v) ==
  LET C == g.queue["compute"]
  IN  /\ \A i \in 1 .. Len(C) : SlotCall(C[i], v)
      /\ \A i \in 1 .. Len(C) - 1 : SlotFollows(C[i], C[i + 1], v)
      /\ Numbered(g, C)
      /\ g.seen["compute"] # <<>> => C # <<>> /\ C[1].do \in {"copy", "accumulate"}
      /\ C # <<>> => HeadHolds(g, v)
      /\ EndsAs(C, v) /\ Drained(g, v)

Awaits(g, c, e) == Does(c, "wait", e) /\ c.number = g.recorded[e]

(* The copy stream: at most the two waits and the copy of the fallback.    *)
ForHost(g, v) ==
  LET D == g.queue["side"]
  IN  \/ D = <<>> /\ g.queue["compute"] = <<>> /\ Right(g.memory[xh], v.W, v.M, v.H)
      \/ /\ Len(D) \in 1 .. 3 /\ D[Len(D)] = ToHost
         /\ Len(D) = 1 => /\ g.queue["compute"] = <<>>
                          /\ g.seen["side"] # <<>> => g.seen["side"][x] = g.memory[x]
         /\ Len(D) >= 2 => Awaits(g, D[Len(D) - 1], partDone)
         /\ Len(D) = 3 => D[1].do = "wait"

FromHost(g, v) ==
  LET D == g.queue["side"]
  IN  D # <<>> => /\ Len(D) = 1 /\ D[1] = ToDevice /\ g.queue["compute"] = <<>>
                  /\ Right(g.memory[xh], v.W, v.M, v.H)
                  /\ g.seen["side"] # <<>> => g.seen["side"][xh] = g.memory[xh]

(* The waits of forwards that failed, before that of this one.             *)
OnlyWaits(D) == \A i \in 1 .. Len(D) : D[i].do = "wait"

ForRouter(g) ==
  LET D == g.queue["side"]
  IN  IF D = <<>> THEN g.queue["compute"] = <<>>
      ELSE Awaits(g, D[Len(D)], routerDone)

OnSide(g, v) ==
  LET D == g.queue["side"]
  IN  /\ g.seen["side"] # <<>> => D # <<>> /\ D[1].do = "copy"
      /\ v.stage = "upload" => D = <<>>
      /\ v.stage \in {"idle", "routing"} => OnlyWaits(D)
      /\ v.stage = "routing" => ForRouter(g)
      /\ v.stage = "fallback" => ForHost(g, v)
      /\ v.stage = "output" => FromHost(g, v)

(* The upload the host waits for.                                          *)
OnNull(g, v) ==
  LET N == g.queue["null"]
  IN  /\ v.stage # "upload" => N = <<>>
      /\ N = <<>> => g.seen["null"] = <<>>
      /\ N # <<>> =>
           \E s \in DOMAIN v.held \ v.pending :
             /\ Len(N) = 1 /\ N[1] = Loads(s, v.held[s]) /\ v.held[s] \in Weights
             /\ g.seen["null"] # <<>> =>
                  g.seen["null"][<<"staged", v.held[s]>>] = {<<v.held[s], v.held[s]>>}

Uploading(N) == {N[i].to[2] : i \in 1 .. Len(N)}

(* The slots hold what slot_expert says, but for those an upload is to     *)
(* fill or failed to fill.                                                 *)
SlotsHold(g, v) ==
  \A s \in DOMAIN v.held \ (v.stale \cup v.pending \cup Uploading(g.queue["null"])) :
    v.held[s] # -1 => g.memory[SlotOf(s)] = {<<v.held[s], v.held[s]>>}

(* Whole weights on the host, and the outputs of the forwards so far.      *)
Stored(g, v) ==
  /\ \A e \in Weights : g.memory[<<"staged", e>>] = {<<e, e>>}
  /\ g.memory[embed] = Residual
  /\ \A f \in 1 .. MaxForwards :
       g.memory[<<"out", f>>] # Torn =>
         f <= v.ended /\ Right(g.memory[<<"out", f>>], v.wanted[f], v.misread[f], {})

SlotsBase(g, v) ==
  OnCompute(g, v) /\ OnSide(g, v) /\ OnNull(g, v) /\ SlotsHold(g, v) /\ Stored(g, v)

(* The calls are different things.                                         *)
LEMMA SlotCallFacts ==
  /\ \A f : Outputs(f) = [do |-> "copy", on |-> "compute", to |-> <<"out", f>>, terms |-> {<<-1, x>>}]
  /\ Embeds = [do |-> "copy", on |-> "compute", to |-> x, terms |-> {<<-1, embed>>}]
  /\ ToHost = [do |-> "copy", on |-> "side", to |-> xh, terms |-> {<<-1, x>>}]
  /\ ToDevice = [do |-> "copy", on |-> "side", to |-> x, terms |-> {<<-1, xh>>}]
  /\ \A s, e : Loads(s, e) = [do |-> "copy", on |-> "null", to |-> SlotOf(s), terms |-> {<<-1, <<"staged", e>>>>}]
  /\ \A G : Gathers(G) = [do |-> "accumulate", on |-> "compute", to |-> x, terms |-> G]
BY DEF Outputs, Embeds, ToHost, ToDevice, Loads, Gathers, Copy, Accumulate

LEMMA SlotKinds ==
  ASSUME NEW c, NEW v, SlotCall(c, v)
  PROVE  /\ c.do \in {"copy", "accumulate", "record"}
         /\ c.do = "accumulate" => c.to = x
         /\ c.do = "copy" => c = Outputs(v.f) \/ c = Embeds
         /\ c.do = "record" => Does(c, "record", partDone) \/ Does(c, "record", routerDone)
         /\ c = Outputs(v.f) => c.do = "copy" /\ c # Embeds /\ v.f \in 1 .. MaxForwards /\ v.stage \in {"idle", "routing"}
         /\ c = Embeds => c.do = "copy" /\ v.stage \in {"idle", "routing"}
<1>1. Outputs(v.f).to # Embeds.to
  BY SlotCallFacts, BufferFacts
<1>2. Outputs(v.f).do = "copy" /\ Embeds.do = "copy" /\ Gathers(c.terms).to = x
  BY SlotCallFacts
<1> QED BY <1>1, <1>2 DEF SlotCall, Does

LEMMA SlotReads ==
  /\ Reads(Embeds) = {embed} /\ Reads(ToHost) = {x} /\ Reads(ToDevice) = {xh}
  /\ \A f : Reads(Outputs(f)) = {x}
  /\ \A s, e : Reads(Loads(s, e)) = {<<"staged", e>>}
  /\ \A G : Reads(Gathers(G)) = {t[2] : t \in G} \cup {x}
<1>1. \A s, to, from : Reads(Copy(s, to, from)) = {from}
  BY DEF Reads, Copy
<1>2. \A G : Reads(Gathers(G)) = {t[2] : t \in G} \cup {x}
  BY DEF Reads, Gathers, Accumulate
<1> QED BY <1>1, <1>2 DEF Embeds, ToHost, ToDevice, Outputs, Loads

(* What is right is not torn, and what the host adds makes it right.       *)
LEMMA RightFacts ==
  ASSUME NEW W \in SUBSET Weights, NEW M \in SUBSET Weights, NEW H \in SUBSET Weights, NEW v
  PROVE  /\ Right(v, W, M, H) => v # Torn
         /\ Right(v \cup Exact(H), W, M, {}) <=> Right(v, W, M, H)
<1>1. -1 \notin M /\ -1 \notin H
  BY Numbers
<1>2. Exact({}) = {}
  BY DEF Exact
<1>3. Right(v \cup Exact(H), W, M, {}) <=> Right(v, W, M, H)
  BY <1>2 DEF Right
<1>4. ASSUME Right(v, W, M, H) PROVE v # Torn
  <2>1. <<-1, -1>> \in v \cup Exact(H)
    BY <1>4 DEF Right, Residual
  <2>2. <<-1, -1>> \notin Exact(H)
    BY <1>1 DEF Exact
  <2> QED BY <2>1, <2>2 DEF Torn
<1> QED BY <1>3, <1>4

(* What the multiplication of the gathered experts leaves.                 *)
LEMMA GatherWrites ==
  ASSUME NEW s, NEW G, NEW v, ViewOk(v), gpu.seen[s][x] = Residual,
         \A t \in G : gpu.seen[s][t[2]] = gpu.memory[t[2]],
         Gathered(gpu.memory, G, v)
  PROVE  Right(Written(s, Gathers(G)), v.W, v.M, v.H)
<1> DEFINE V(t) == IF ReadWhole(s, t[2]) THEN gpu.memory[t[2]] ELSE Corrupt
           S(t) == {<<t[1], w[2]>> : w \in V(t)}
           out == Written(s, Gathers(G))
<1>1. out = Residual \cup UNION {S(t) : t \in G}
  <2>1. Gathers(G).do # "copy" /\ Gathers(G).to = x /\ Gathers(G).terms = G
    BY SlotCallFacts
  <2> QED BY <2>1 DEF Written
<1>2. \A t \in G : t[1] \notin v.M => S(t) = {<<t[1], t[1]>>}
  <2> SUFFICES ASSUME NEW t \in G, t[1] \notin v.M PROVE S(t) = {<<t[1], t[1]>>}
    OBVIOUS
  <2>1. PICK a \in Slots : t = <<t[1], SlotOf(a)>> /\ gpu.memory[SlotOf(a)] = {<<t[1], t[1]>>}
    BY DEF Gathered
  <2>2. t[2] = SlotOf(a)
    BY <2>1
  <2>3. V(t) = {<<t[1], t[1]>>}
    BY <2>1, <2>2 DEF ReadWhole, Torn
  <2> HIDE DEF V
  <2> QED BY <2>3
<1>3. \A t \in G : \A p \in S(t) : p[1] = t[1]
  OBVIOUS
<1> HIDE DEF S, out
<1>4. ASSUME NEW p, p \in out \cup Exact(v.H), p[1] \notin v.M
      PROVE  p \in Residual \cup Exact(v.W \ v.M)
  <2>1. CASE p \in Residual
    BY <2>1
  <2>2. CASE p \in Exact(v.H)
    <3>1. v.H \subseteq v.W
      BY DEF Gathered
    <3> QED BY <1>4, <2>2, <3>1 DEF Exact
  <2>3. ASSUME NEW t \in G, p \in S(t) PROVE p \in Exact(v.W \ v.M)
    <3>1. p[1] = t[1] /\ t[1] \in v.W
      BY <1>3, <2>3 DEF Gathered
    <3>2. p = <<t[1], t[1]>>
      BY <1>2, <1>4, <2>3, <3>1
    <3> QED BY <1>4, <3>1, <3>2 DEF Exact
  <2> QED BY <1>1, <1>4, <2>1, <2>2, <2>3
<1>5. ASSUME NEW e \in v.W \ v.M PROVE <<e, e>> \in out \cup Exact(v.H)
  <2>1. CASE e \in v.H
    BY <2>1 DEF Exact
  <2>2. ASSUME NEW t \in G, e = t[1] PROVE <<e, e>> \in out
    <3>1. S(t) = {<<e, e>>}
      BY <1>2, <1>5, <2>2
    <3> QED BY <1>1, <3>1
  <2> QED BY <1>5, <2>1, <2>2 DEF Gathered
<1>6. \A p \in Residual \cup Exact(v.W \ v.M) : p[1] \notin v.M /\ p \in out \cup Exact(v.H)
  <2>1. ASSUME NEW p \in Residual PROVE p[1] \notin v.M /\ p \in out
    <3>1. p[1] = -1
      BY <2>1 DEF Residual
    <3> QED BY <1>1, <2>1, <3>1, Numbers DEF ViewOk
  <2>2. ASSUME NEW p \in Exact(v.W \ v.M) PROVE p[1] \notin v.M /\ p \in out \cup Exact(v.H)
    <3>1. PICK e \in v.W \ v.M : p = <<e, e>>
      BY <2>2 DEF Exact
    <3> QED BY <1>5, <3>1
  <2> QED BY <2>1, <2>2
<1>7. {t \in out \cup Exact(v.H) : t[1] \notin v.M} = Residual \cup Exact(v.W \ v.M)
  BY <1>4, <1>6
<1> QED BY <1>7 DEF Right, out

(***************************************************************************)
(* The bounded path: the device                                            *)
(***************************************************************************)

(* The head of the compute stream is done.                                 *)
SlotPopped(g, h, v) ==
  LET C == g.queue["compute"]
  IN  /\ C # <<>> /\ h.queue["compute"] = Tail(C)
      /\ h.queue["side"] = g.queue["side"] /\ h.queue["null"] = g.queue["null"]
      /\ h.seen["compute"] = <<>> /\ h.seen["side"] = g.seen["side"] /\ h.seen["null"] = g.seen["null"]
      /\ h.recorded = g.recorded /\ Numbered(h, Tail(C))
      /\ h.memory[xh] = g.memory[xh] /\ \A s \in Slots : h.memory[SlotOf(s)] = g.memory[SlotOf(s)]
      /\ C[1].do = "accumulate" \/ Does(C[1], "record", partDone) => Right(h.memory[x], v.W, v.M, v.H)
      /\ C[1] = Embeds \/ Does(C[1], "record", routerDone) => h.memory[x] = Residual

LEMMA PopSlotCompute ==
  ASSUME NEW g, NEW h, NEW v, Typed(g), ViewOk(v),
         OnCompute(g, v), OnSide(g, v), OnNull(g, v), SlotsHold(g, v), SlotPopped(g, h, v)
  PROVE  OnCompute(h, v) /\ OnSide(h, v) /\ OnNull(h, v) /\ SlotsHold(h, v)
<1> DEFINE C == g.queue["compute"]
           T == Tail(C)
<1>1. /\ T \in Seq(Calls) /\ Len(C) \in Nat \ {0} /\ Len(T) = Len(C) - 1
      /\ \A i \in 1 .. Len(C) - 1 : T[i] = C[i + 1]
  <2>1. C \in Seq(Calls) /\ C # <<>>
    BY DEF Typed, SlotPopped, Streams
  <2> HIDE DEF C
  <2> QED BY <2>1, TailFacts
<1>2. /\ \A i \in 1 .. Len(C) : SlotCall(C[i], v)
      /\ \A i \in 1 .. Len(C) - 1 : SlotFollows(C[i], C[i + 1], v)
      /\ EndsAs(C, v) /\ C # <<>>
  BY DEF OnCompute, SlotPopped
<1>3. h.queue["compute"] = T /\ h.seen["compute"] = <<>> /\ Numbered(h, T)
  BY DEF SlotPopped
<1>4. /\ C[1].do = "accumulate" \/ Does(C[1], "record", partDone) => Right(h.memory[x], v.W, v.M, v.H)
      /\ C[1] = Embeds \/ Does(C[1], "record", routerDone) => h.memory[x] = Residual
  BY DEF SlotPopped
<1> HIDE DEF C, T
<1>5. T # <<>> => /\ T[1] = C[2] /\ SlotFollows(C[1], T[1], v) /\ SlotCall(C[1], v) /\ SlotCall(T[1], v)
                  /\ T[Len(T)] = C[Len(C)] /\ Len(T) \in Nat \ {0}
  <2>1. T # <<>> => Len(T) # 0
    BY <1>1
  <2> QED BY <1>1, <1>2, <2>1
<1>6. T = <<>> => C[1] = C[Len(C)] /\ Len(C) = 1
  <2>1. T = <<>> => Len(T) = 0
    OBVIOUS
  <2>2. T = <<>> => Len(C) = 1
    BY <1>1, <2>1
  <2> QED BY <2>2
<1>7. OnCompute(h, v)
  <2>1. \A i \in 1 .. Len(T) : SlotCall(T[i], v)
    BY <1>1, <1>2
  <2>2. \A i \in 1 .. Len(T) - 1 : SlotFollows(T[i], T[i + 1], v)
    <3> TAKE i \in 1 .. Len(T) - 1
    <3>1. i + 1 \in 1 .. Len(C) - 1 /\ T[i] = C[i + 1] /\ T[i + 1] = C[(i + 1) + 1]
      BY <1>1
    <3> QED BY <1>2, <3>1
  <2>3. EndsAs(T, v)
    BY <1>2, <1>5 DEF EndsAs
  <2>4. ASSUME T # <<>> PROVE HeadHolds(h, v)
    <3>1. SlotFollows(C[1], T[1], v) /\ SlotCall(C[1], v) /\ SlotCall(T[1], v)
      BY <1>5, <2>4
    <3>2. T[1].do # "accumulate"
      BY <3>1, SlotCallFacts DEF SlotFollows, Does
    <3>e. T[1] = Embeds => T[1].do = "copy" /\ T[1] # Outputs(v.f)
      <4>1. Embeds.to # Outputs(v.f).to
        BY SlotCallFacts, BufferFacts
      <4> QED BY <4>1, SlotCallFacts
    <3>3. Does(T[1], "record", partDone) => Right(h.memory[x], v.W, v.M, v.H)
      <4>1. Does(T[1], "record", partDone) => C[1].do = "accumulate"
        BY <3>1, <3>e, SlotCallFacts, EventFacts DEF SlotFollows, Does, routerDone, partDone
      <4> QED BY <1>4, <4>1
    <3>4. T[1] = Outputs(v.f) => Right(h.memory[x], v.W, v.M, v.H)
      <4>1. Outputs(v.f).do = "copy" /\ Outputs(v.f).to # x
        BY SlotCallFacts, BufferFacts
      <4>2. T[1] = Outputs(v.f) => Does(C[1], "record", partDone)
        BY <3>1, <3>e, <4>1, SlotCallFacts DEF SlotFollows, Does
      <4> QED BY <1>4, <4>2
    <3>5. Does(T[1], "record", routerDone) => h.memory[x] = Residual
      <4>1. Does(T[1], "record", routerDone) => C[1] = Embeds
        BY <3>1, <3>e, SlotCallFacts, EventFacts DEF SlotFollows, Does, routerDone, partDone
      <4> QED BY <1>4, <4>1
    <3> QED BY <1>3, <3>2, <3>3, <3>4, <3>5 DEF HeadHolds
  <2>5. Drained(h, v)
    <3> SUFFICES ASSUME T = <<>> PROVE Drained(h, v)
      BY <1>3 DEF Drained
    <3>1. v.stage # "upload"
      BY <1>2 DEF EndsAs
    <3>2. v.stage = "routing" => h.memory[x] = Residual
      BY <1>2, <1>4, <1>6 DEF EndsAs
    <3>3. v.stage \in {"fallback", "output"} => Right(h.memory[x], v.W, v.M, v.H)
      BY <1>2, <1>4, <1>6 DEF EndsAs
    <3> QED BY <3>1, <3>2, <3>3 DEF Drained
  <2> QED BY <1>3, <2>1, <2>2, <2>3, <2>4, <2>5 DEF OnCompute
<1>8. /\ h.queue["side"] = g.queue["side"] /\ h.seen["side"] = g.seen["side"] /\ C # <<>>
      /\ h.recorded = g.recorded /\ h.memory[xh] = g.memory[xh]
  BY <1>2 DEF SlotPopped
<1>9. OnSide(h, v)
  <2>1. v.stage = "routing" => ForRouter(h)
    BY <1>8 DEF OnSide, ForRouter, Awaits, C
  <2>2. v.stage = "fallback" => ForHost(h, v)
    BY <1>8 DEF OnSide, ForHost, Awaits, C
  <2>3. v.stage = "output" => FromHost(h, v)
    BY <1>8 DEF OnSide, FromHost, C
  <2> QED BY <1>8, <2>1, <2>2, <2>3 DEF OnSide
<1>10. OnNull(h, v)
  BY DEF OnNull, SlotPopped
<1>11. SlotsHold(h, v)
  BY DEF SlotsHold, SlotPopped, ViewOk
<1> QED BY <1>7, <1>9, <1>10, <1>11

(* The outputs, when the compute stream writes x or that of v's forward.   *)
LEMMA StoredKept ==
  ASSUME NEW g, NEW h, NEW v, Stored(g, v), ViewOk(v), NEW b,
         b \in {x, xh} \/ (b = <<"out", v.f>> /\ v.f \in 1 .. MaxForwards) \/ \E s : b = SlotOf(s),
         \A c \in Buffers : c # b => h.memory[c] = g.memory[c],
         b = <<"out", v.f>> /\ v.f \in 1 .. MaxForwards /\ h.memory[b] # Torn =>
           v.f <= v.ended /\ Right(h.memory[b], v.W, v.M, {})
  PROVE  Stored(h, v)
<1>1. \A e \in Weights : <<"staged", e>> # b /\ h.memory[<<"staged", e>>] = {<<e, e>>}
  BY BufferFacts DEF Stored, SlotOf
<1>2. embed # b /\ h.memory[embed] = Residual
  BY BufferFacts DEF Stored, SlotOf
<1>3. ASSUME NEW f \in 1 .. MaxForwards, h.memory[<<"out", f>>] # Torn
      PROVE  f <= v.ended /\ Right(h.memory[<<"out", f>>], v.wanted[f], v.misread[f], {})
  <2>1. CASE b = <<"out", f>>
    <3>1. f = v.f /\ f # 0
      BY <2>1, BufferFacts DEF SlotOf
    <3> QED BY <1>3, <2>1, <3>1 DEF ViewOk
  <2>2. CASE b # <<"out", f>>
    <3>1. h.memory[<<"out", f>>] = g.memory[<<"out", f>>]
      BY <2>2, BufferFacts
    <3> QED BY <1>3, <3>1 DEF Stored
  <2> QED BY <2>1, <2>2
<1> QED BY <1>1, <1>2, <1>3 DEF Stored

LEMMA SlotComputeStarts ==
  ASSUME NEW v, Typed(gpu), ViewOk(v), SlotsBase(gpu, v), Starts("compute")
  PROVE  Typed(gpu') /\ SlotsBase(gpu', v)
<1> DEFINE C == gpu.queue["compute"]
           c == C[1]
           seen == gpu'.seen["compute"]
<1>1. /\ Typed(gpu') /\ C # <<>> /\ c.do \in {"copy", "accumulate"} /\ gpu.seen["compute"] = <<>>
      /\ gpu'.queue = gpu.queue /\ gpu'.recorded = gpu.recorded /\ gpu'.completed = gpu.completed
      /\ seen = [b \in Reads(c) |-> gpu.memory[b]]
      /\ gpu'.seen["side"] = gpu.seen["side"] /\ gpu'.seen["null"] = gpu.seen["null"]
      /\ c.to \in Buffers => gpu'.memory[c.to] = Torn
      /\ \A b \in Buffers : b # c.to => gpu'.memory[b] = gpu.memory[b]
  BY StartsFacts DEF Streams
<1>2. OnCompute(gpu, v) /\ OnSide(gpu, v) /\ OnNull(gpu, v) /\ SlotsHold(gpu, v) /\ Stored(gpu, v)
  BY DEF SlotsBase
<1>3. C \in Seq(Calls) /\ Len(C) \in Nat \ {0} /\ SlotCall(c, v) /\ HeadHolds(gpu, v)
  <2>1. C \in Seq(Calls)
    BY DEF Typed, Streams
  <2> HIDE DEF C
  <2>2. Len(C) \in Nat \ {0}
    BY <1>1, <2>1
  <2> QED BY <1>1, <1>2, <2>1, <2>2 DEF OnCompute, C
<1> HIDE DEF C, c
<1>4. \/ c.do = "accumulate" /\ c = Gathers(c.terms) /\ c.to = x
      \/ c = Outputs(v.f) /\ c.to = <<"out", v.f>> /\ v.f \in 1 .. MaxForwards /\ c # Embeds
      \/ c = Embeds /\ c.to = x
  <2>1. Outputs(v.f).to = <<"out", v.f>> /\ Embeds.to = x /\ Gathers(c.terms).to = x
    BY SlotCallFacts
  <2> QED BY <1>1, <1>3, <2>1, SlotKinds DEF SlotCall, Does
<1>5. c.to \in Buffers /\ c.to # xh /\ c.to # embed /\ \A s : c.to # SlotOf(s)
  BY <1>4, BufferFacts DEF SlotOf
<1>6. gpu'.memory[xh] = gpu.memory[xh] /\ \A s \in Slots : gpu'.memory[SlotOf(s)] = gpu.memory[SlotOf(s)]
  BY <1>1, <1>5, BufferFacts DEF SlotOf
<1>7. HeadHolds(gpu', v)
  <2>1. ASSUME c.do = "accumulate"
        PROVE  /\ Gathered(gpu'.memory, c.terms, v)
               /\ seen[x] = Residual /\ \A t \in c.terms : seen[t[2]] = gpu'.memory[t[2]]
    <3>1. Gathered(gpu.memory, c.terms, v) /\ gpu.memory[x] = Residual
      BY <1>1, <1>3, <2>1 DEF HeadHolds, c, C
    <3>2. c = Gathers(c.terms)
      BY <1>4, <2>1, SlotCallFacts
    <3>3. Reads(c) = {t[2] : t \in c.terms} \cup {x}
      BY <3>2, SlotReads
    <3>4. Gathered(gpu'.memory, c.terms, v)
      BY <1>6, <3>1 DEF Gathered
    <3>5. \A t \in c.terms : seen[t[2]] = gpu'.memory[t[2]]
      <4> TAKE t \in c.terms
      <4>1. PICK s \in Slots : t = <<t[1], SlotOf(s)>>
        BY <3>1 DEF Gathered
      <4>2. t[2] = SlotOf(s) /\ t[2] \in Reads(c)
        BY <3>3, <4>1
      <4> QED BY <1>1, <1>6, <4>2
    <3> QED BY <1>1, <3>1, <3>3, <3>4, <3>5
  <2>2. ASSUME c = Outputs(v.f) PROVE Right(gpu'.memory[x], v.W, v.M, v.H) /\ seen[x] = gpu'.memory[x]
    <3>1. Right(gpu.memory[x], v.W, v.M, v.H)
      BY <1>3, <2>2 DEF HeadHolds, c, C
    <3>2. Reads(c) = {x} /\ c.to # x /\ gpu'.memory[x] = gpu.memory[x]
      BY <1>1, <2>2, SlotReads, SlotCallFacts, BufferFacts
    <3> QED BY <1>1, <3>1, <3>2
  <2>3. ASSUME c = Embeds PROVE seen[embed] = Residual
    <3>1. Reads(c) = {embed} /\ gpu.memory[embed] = Residual
      BY <1>2, <2>3, SlotReads DEF Stored
    <3> QED BY <1>1, <3>1
  <2>4. c.do # "record"
    BY <1>1
  <2>5. c.do = "accumulate" => seen # <<>>
    <3>1. c.do = "accumulate" => x \in DOMAIN seen
      <4>1. c.do = "accumulate" => c = Gathers(c.terms)
        BY <1>4, SlotCallFacts
      <4> QED BY <1>1, <4>1, SlotReads
    <3>2. x \notin DOMAIN <<>>
      BY DEF x
    <3> QED BY <3>1, <3>2
  <2> HIDE DEF seen
  <2> QED BY <1>1, <2>1, <2>2, <2>3, <2>4, <2>5 DEF HeadHolds, c, C, seen, Does
<1>8. OnCompute(gpu', v)
  <2>1. Numbered(gpu', C)
    BY <1>1, <1>2 DEF OnCompute, Numbered, C
  <2>2. Drained(gpu', v)
    BY <1>1 DEF Drained, C
  <2> QED BY <1>1, <1>2, <1>7, <2>1, <2>2 DEF OnCompute, C, c
<1>9. OnSide(gpu', v)
  <2>1. v.stage = "routing" => ForRouter(gpu')
    BY <1>1, <1>2 DEF OnSide, ForRouter, Awaits
  <2>2. v.stage = "fallback" => ForHost(gpu', v)
    BY <1>1, <1>2, <1>6 DEF OnSide, ForHost, Awaits, C
  <2>3. v.stage = "output" => FromHost(gpu', v)
    BY <1>1, <1>2, <1>6 DEF OnSide, FromHost, C
  <2> QED BY <1>1, <1>2, <2>1, <2>2, <2>3 DEF OnSide
<1>10. OnNull(gpu', v)
  BY <1>1, <1>2 DEF OnNull
<1>11. SlotsHold(gpu', v)
  BY <1>1, <1>2, <1>6 DEF SlotsHold, ViewOk
<1>12. Stored(gpu', v)
  <2>1. c.to \in {x, xh} \/ (c.to = <<"out", v.f>> /\ v.f \in 1 .. MaxForwards)
    BY <1>4
  <2>2. gpu'.memory[c.to] = Torn
    BY <1>1, <1>5
  <2>3. \A b \in Buffers : b # c.to => gpu'.memory[b] = gpu.memory[b]
    BY <1>1
  <2> QED BY <1>2, <2>1, <2>2, <2>3, StoredKept
<1> QED BY <1>1, <1>8, <1>9, <1>10, <1>11, <1>12 DEF SlotsBase

LEMMA SlotComputeFinishes ==
  ASSUME NEW v, Typed(gpu), ViewOk(v), SlotsBase(gpu, v), Finishes("compute")
  PROVE  Typed(gpu') /\ SlotsBase(gpu', v)
<1> DEFINE C == gpu.queue["compute"]
           c == C[1]
           seen == gpu.seen["compute"]
<1>1. /\ Typed(gpu') /\ C # <<>> /\ c.do \in {"copy", "accumulate"} /\ seen # <<>>
      /\ gpu'.queue["compute"] = Tail(C) /\ gpu'.seen["compute"] = <<>>
      /\ gpu'.recorded = gpu.recorded /\ gpu'.completed = gpu.completed
      /\ gpu'.queue["side"] = gpu.queue["side"] /\ gpu'.queue["null"] = gpu.queue["null"]
      /\ gpu'.seen["side"] = gpu.seen["side"] /\ gpu'.seen["null"] = gpu.seen["null"]
      /\ c.to \in Buffers => gpu'.memory[c.to] = Written("compute", c)
      /\ \A b \in Buffers : b # c.to => gpu'.memory[b] = gpu.memory[b]
  BY FinishesFacts DEF Streams
<1>2. OnCompute(gpu, v) /\ OnSide(gpu, v) /\ OnNull(gpu, v) /\ SlotsHold(gpu, v) /\ Stored(gpu, v)
  BY DEF SlotsBase
<1>3. C \in Seq(Calls) /\ Len(C) \in Nat \ {0} /\ SlotCall(c, v) /\ HeadHolds(gpu, v)
  <2>1. C \in Seq(Calls)
    BY DEF Typed, Streams
  <2> HIDE DEF C
  <2>2. Len(C) \in Nat \ {0}
    BY <1>1, <2>1
  <2> QED BY <1>1, <1>2, <2>1, <2>2 DEF OnCompute, C
<1> HIDE DEF C, c
<1>4. \/ c.do = "accumulate" /\ c = Gathers(c.terms) /\ c.to = x
      \/ c = Outputs(v.f) /\ c.to = <<"out", v.f>> /\ v.f \in 1 .. MaxForwards /\ c # Embeds
      \/ c = Embeds /\ c.to = x
  <2>1. Outputs(v.f).to = <<"out", v.f>> /\ Embeds.to = x /\ Gathers(c.terms).to = x
    BY SlotCallFacts
  <2> QED BY <1>1, <1>3, <2>1, SlotKinds DEF SlotCall, Does
<1>5. c.to \in Buffers /\ c.to # xh /\ c.to # embed /\ \A s : c.to # SlotOf(s)
  BY <1>4, BufferFacts DEF SlotOf
<1>6. gpu'.memory[xh] = gpu.memory[xh] /\ \A s \in Slots : gpu'.memory[SlotOf(s)] = gpu.memory[SlotOf(s)]
  BY <1>1, <1>5, BufferFacts DEF SlotOf
<1>7. c.do = "accumulate" => Right(gpu'.memory[x], v.W, v.M, v.H)
  <2> SUFFICES ASSUME c.do = "accumulate" PROVE Right(gpu'.memory[x], v.W, v.M, v.H)
    OBVIOUS
  <2>1. /\ Gathered(gpu.memory, c.terms, v) /\ seen[x] = Residual
        /\ \A t \in c.terms : seen[t[2]] = gpu.memory[t[2]]
    BY <1>1, <1>3 DEF HeadHolds, c, C
  <2>2. c = Gathers(c.terms) /\ c.to = x
    BY <1>4, SlotCallFacts
  <2>3. Right(Written("compute", Gathers(c.terms)), v.W, v.M, v.H)
    BY <2>1, GatherWrites
  <2> QED BY <1>1, <1>5, <2>2, <2>3
<1>8. c = Embeds => gpu'.memory[x] = Residual
  <2> SUFFICES ASSUME c = Embeds PROVE gpu'.memory[x] = Residual
    OBVIOUS
  <2>1. seen[embed] = Residual /\ gpu.memory[embed] = Residual
    BY <1>1, <1>2, <1>3 DEF HeadHolds, Stored, c, C
  <2>2. Written("compute", Embeds) = Residual
    BY <2>1, CopyWrites DEF Embeds, Torn, Residual
  <2> QED BY <1>1, <1>5, <2>2, SlotCallFacts
<1>9. c = Outputs(v.f) => /\ v.f <= v.ended
                          /\ Right(gpu'.memory[<<"out", v.f>>], v.W, v.M, {})
  <2> SUFFICES ASSUME c = Outputs(v.f)
               PROVE  v.f <= v.ended /\ Right(gpu'.memory[<<"out", v.f>>], v.W, v.M, {})
    OBVIOUS
  <2>1. Right(gpu.memory[x], v.W, v.M, v.H) /\ seen[x] = gpu.memory[x]
    BY <1>1, <1>3 DEF HeadHolds, c, C
  <2>2. v.stage \in {"idle", "routing"}
    BY <1>3, SlotKinds
  <2>3. v.f <= v.ended /\ v.H = {}
    BY <2>2 DEF ViewOk
  <2>4. gpu.memory[x] # Torn
    BY <2>1, RightFacts DEF ViewOk
  <2>5. Written("compute", Outputs(v.f)) = gpu.memory[x]
    BY <2>1, <2>4, CopyWrites DEF Outputs
  <2>6. c.to = <<"out", v.f>>
    BY SlotCallFacts
  <2> QED BY <1>1, <1>5, <2>1, <2>3, <2>5, <2>6
<1>10. Numbered(gpu', Tail(C))
  <2>1. c.do # "record"
    BY <1>1
  <2> QED BY <1>1, <1>2, <1>3, <2>1, NumberedPop DEF OnCompute, C, c
<1>11. SlotPopped(gpu, gpu', v)
  <2>1. c.do # "record"
    BY <1>1
  <2> QED BY <1>1, <1>6, <1>7, <1>8, <1>10, <2>1 DEF SlotPopped, C, c, Does
<1>12. OnCompute(gpu', v) /\ OnSide(gpu', v) /\ OnNull(gpu', v) /\ SlotsHold(gpu', v)
  BY <1>2, <1>11, PopSlotCompute
<1>13. Stored(gpu', v)
  <2>1. c.to \in {x, xh} \/ (c.to = <<"out", v.f>> /\ v.f \in 1 .. MaxForwards)
    BY <1>4
  <2>2. c.to = <<"out", v.f>> => v.f <= v.ended /\ Right(gpu'.memory[c.to], v.W, v.M, {})
    <3>1. c.to = <<"out", v.f>> => c = Outputs(v.f)
      BY <1>4, BufferFacts
    <3> QED BY <1>9, <3>1
  <2> DEFINE a == c.to
  <2>3. /\ \A b \in Buffers : b # a => gpu'.memory[b] = gpu.memory[b]
        /\ a \in {x, xh} \/ (a = <<"out", v.f>> /\ v.f \in 1 .. MaxForwards) \/ \E s : a = SlotOf(s)
        /\ a = <<"out", v.f>> /\ v.f \in 1 .. MaxForwards /\ gpu'.memory[a] # Torn =>
             v.f <= v.ended /\ Right(gpu'.memory[a], v.W, v.M, {})
    BY <1>1, <2>1, <2>2
  <2> HIDE DEF a
  <2> QED BY <1>2, <2>3, StoredKept
<1> QED BY <1>1, <1>12, <1>13 DEF SlotsBase

LEMMA SlotComputeSignals ==
  ASSUME NEW v, Typed(gpu), ViewOk(v), SlotsBase(gpu, v), Signals("compute")
  PROVE  Typed(gpu') /\ SlotsBase(gpu', v)
<1> DEFINE C == gpu.queue["compute"]
           c == C[1]
<1>1. C \in Seq(Calls) /\ C # <<>> /\ c.do = "record" /\ Len(C) \in Nat \ {0}
  <2>1. gpu.queue["compute"] \in Seq(Calls) /\ gpu.queue["compute"] # <<>>
        /\ Head(gpu.queue["compute"]).do = "record"
    BY DEF Typed, Streams, Signals
  <2> QED BY <2>1
<1>2. OnCompute(gpu, v) /\ OnSide(gpu, v) /\ OnNull(gpu, v) /\ SlotsHold(gpu, v) /\ Stored(gpu, v)
  BY DEF SlotsBase
<1>3. SlotCall(c, v) /\ HeadHolds(gpu, v) /\ Numbered(gpu, C) /\ gpu.seen["compute"] = <<>>
  BY <1>1, <1>2 DEF OnCompute
<1>4. c.number <= gpu.recorded[c.event]
  <2> HIDE DEF C
  <2> QED BY <1>1, <1>3 DEF Numbered
<1>5. /\ Typed(gpu') /\ gpu'.queue["compute"] = Tail(C)
      /\ gpu'.recorded = gpu.recorded /\ gpu'.seen = gpu.seen /\ gpu'.memory = gpu.memory
      /\ gpu'.queue["side"] = gpu.queue["side"] /\ gpu'.queue["null"] = gpu.queue["null"]
      /\ gpu'.completed[c.event] = c.number
      /\ \A e \in Events : e # c.event => gpu'.completed[e] = gpu.completed[e]
  BY <1>4, SignalsFacts DEF Streams
<1>6. Numbered(gpu', Tail(C))
  <2> HIDE DEF C
  <2> QED BY <1>1, <1>3, <1>5, NumberedSignal
<1>7. /\ Does(c, "record", partDone) => Right(gpu.memory[x], v.W, v.M, v.H)
      /\ Does(c, "record", routerDone) => gpu.memory[x] = Residual
  BY <1>3 DEF HeadHolds
<1>8. c.do # "accumulate" /\ c # Embeds
  BY <1>1, SlotCallFacts
<1>9. SlotPopped(gpu, gpu', v)
  BY <1>1, <1>3, <1>5, <1>6, <1>7, <1>8 DEF SlotPopped
<1>10. OnCompute(gpu', v) /\ OnSide(gpu', v) /\ OnNull(gpu', v) /\ SlotsHold(gpu', v)
  BY <1>2, <1>9, PopSlotCompute
<1>11. Stored(gpu', v)
  BY <1>2, <1>5 DEF Stored
<1> QED BY <1>5, <1>10, <1>11 DEF SlotsBase

LEMMA SlotComputeProceeds ==
  ASSUME NEW v, Typed(gpu), SlotsBase(gpu, v), Proceeds("compute")
  PROVE  FALSE
<1> DEFINE C == gpu.queue["compute"]
<1>1. C \in Seq(Calls) /\ C # <<>> /\ C[1].do = "wait" /\ Len(C) \in Nat \ {0}
  <2>1. gpu.queue["compute"] \in Seq(Calls) /\ gpu.queue["compute"] # <<>>
        /\ Head(gpu.queue["compute"]).do = "wait"
    BY DEF Typed, Streams, Proceeds
  <2> QED BY <2>1
<1>2. SlotCall(C[1], v)
  BY <1>1 DEF SlotsBase, OnCompute
<1> QED BY <1>1, <1>2, SlotKinds

LEMMA OneCall ==
  ASSUME NEW q \in Seq(Calls), Len(q) = 1
  PROVE  Tail(q) = <<>> /\ Head(q) = q[1]
<1>1. q # <<>>
  <2> SUFFICES ASSUME q = <<>> PROVE FALSE
    OBVIOUS
  <2>1. Len(q) = 0
    OBVIOUS
  <2> QED BY <2>1
<1>2. Head(q) = q[1]
  BY <1>1
<1>3. Tail(q) \in Seq(Calls) /\ Len(Tail(q)) = 0
  BY <1>1, TailFacts
<1>4. Tail(q) = <<>>
  BY <1>3, EmptySeq
<1> QED BY <1>2, <1>4

(* What the copy stream can be at.                                         *)
LEMMA SideHead ==
  ASSUME NEW v, Typed(gpu), ViewOk(v), SlotsBase(gpu, v), gpu.queue["side"] # <<>>
  PROVE  LET D == gpu.queue["side"]
             c == D[1]
         IN  /\ D \in Seq(Calls) /\ Len(D) \in Nat \ {0} /\ Head(D) = c
             /\ Len(Tail(D)) = Len(D) - 1 /\ \A i \in 1 .. Len(D) - 1 : Tail(D)[i] = D[i + 1]
             /\ \/ /\ c = ToHost /\ v.stage = "fallback" /\ Len(D) = 1 /\ gpu.queue["compute"] = <<>>
                   /\ gpu.seen["side"] # <<>> => gpu.seen["side"][x] = gpu.memory[x]
                \/ /\ c = ToDevice /\ v.stage = "output" /\ Len(D) = 1 /\ gpu.queue["compute"] = <<>>
                   /\ Right(gpu.memory[xh], v.W, v.M, v.H)
                   /\ gpu.seen["side"] # <<>> => gpu.seen["side"][xh] = gpu.memory[xh]
                \/ /\ v.stage \in {"idle", "routing"} /\ c.do = "wait" /\ OnlyWaits(D)
                   /\ v.stage = "routing" => Awaits(gpu, D[Len(D)], routerDone)
                \/ /\ v.stage = "fallback" /\ D[Len(D)] = ToHost
                   /\ \/ Len(D) = 2 /\ Awaits(gpu, c, partDone)
                      \/ Len(D) = 3 /\ c.do = "wait" /\ Awaits(gpu, D[2], partDone)
<1> DEFINE D == gpu.queue["side"]
           c == D[1]
<1>1. /\ D \in Seq(Calls) /\ D # <<>> /\ v.stage \in {"idle", "routing", "fallback", "output"}
      /\ v.stage \in {"idle", "routing"} => OnlyWaits(D)
      /\ v.stage = "routing" => ForRouter(gpu)
      /\ v.stage = "fallback" => ForHost(gpu, v)
      /\ v.stage = "output" => FromHost(gpu, v)
  BY DEF Typed, Streams, SlotsBase, OnSide, ViewOk
<1>2. /\ Len(D) \in Nat \ {0}
      /\ v.stage = "output" => Len(D) = 1
      /\ v.stage = "fallback" => Len(D) \in 1 .. 3
  <2>1. Len(D) \in Nat \ {0}
    <3> HIDE DEF D
    <3> QED BY <1>1
  <2> QED BY <1>1, <2>1 DEF FromHost, ForHost
<1>3. Head(D) = c /\ Len(Tail(D)) = Len(D) - 1 /\ \A i \in 1 .. Len(D) - 1 : Tail(D)[i] = D[i + 1]
  <2> HIDE DEF D
  <2> QED BY <1>1, <1>2
<1>4. CASE v.stage \in {"idle", "routing"}
  <2>1. c.do = "wait"
    <3> HIDE DEF D
    <3> QED BY <1>1, <1>2, <1>4 DEF OnlyWaits
  <2> QED BY <1>1, <1>2, <1>3, <1>4, <2>1 DEF ForRouter
<1>5. CASE v.stage = "output"
  BY <1>1, <1>2, <1>3, <1>5 DEF FromHost
<1>6. CASE v.stage = "fallback"
  <2>1. /\ D[Len(D)] = ToHost
        /\ Len(D) = 1 => /\ gpu.queue["compute"] = <<>>
                         /\ gpu.seen["side"] # <<>> => gpu.seen["side"][x] = gpu.memory[x]
        /\ Len(D) >= 2 => Awaits(gpu, D[Len(D) - 1], partDone)
        /\ Len(D) = 3 => D[1].do = "wait"
    BY <1>1, <1>6 DEF ForHost
  <2> HIDE DEF D
  <2>2. CASE Len(D) = 1
    <3>1. c = ToHost
      BY <2>1, <2>2
    <3> QED BY <1>1, <1>2, <1>3, <1>6, <2>1, <2>2, <3>1 DEF D
  <2>3. CASE Len(D) = 2
    <3>1. Awaits(gpu, c, partDone)
      BY <2>1, <2>3
    <3> QED BY <1>1, <1>2, <1>3, <1>6, <2>1, <2>3, <3>1 DEF D
  <2>4. CASE Len(D) = 3
    <3>1. Awaits(gpu, D[2], partDone)
      BY <2>1, <2>4
    <3> QED BY <1>1, <1>2, <1>3, <1>6, <2>1, <2>4, <3>1 DEF D
  <2> QED BY <1>2, <1>6, <2>2, <2>3, <2>4
<1> QED BY <1>1, <1>4, <1>5, <1>6

(* A wait for the last record the compute stream's queue can end with.     *)
LEMMA AllPassed ==
  ASSUME NEW v, Typed(gpu), OnCompute(gpu, v), NEW e \in Events,
         gpu.completed[e] >= gpu.recorded[e],
         gpu.queue["compute"] # <<>> =>
           Does(gpu.queue["compute"][Len(gpu.queue["compute"])], "record", e)
  PROVE  gpu.queue["compute"] = <<>>
<1> DEFINE C == gpu.queue["compute"]
<1> SUFFICES ASSUME C # <<>> PROVE FALSE
  OBVIOUS
<1>1. C \in Seq(Calls) /\ Numbered(gpu, C) /\ Does(C[Len(C)], "record", e)
  BY DEF Typed, Streams, OnCompute
<1> HIDE DEF C
<1>2. Len(C) \in Nat \ {0}
  BY <1>1
<1>3. gpu.completed[e] < C[Len(C)].number /\ C[Len(C)].number <= gpu.recorded[e]
  BY <1>1, <1>2 DEF Numbered, Does
<1>4. C[Len(C)].number \in Nat
  BY <1>1, <1>2 DEF Calls, Does
<1>5. gpu.completed[e] \in Nat /\ gpu.recorded[e] \in Nat
  BY DEF Typed
<1> QED BY <1>3, <1>4, <1>5

LEMMA SlotSideStarts ==
  ASSUME NEW v, Typed(gpu), ViewOk(v), SlotsBase(gpu, v), Starts("side")
  PROVE  Typed(gpu') /\ SlotsBase(gpu', v)
<1> DEFINE D == gpu.queue["side"]
           c == D[1]
           seen == gpu'.seen["side"]
<1>1. /\ Typed(gpu') /\ D # <<>> /\ c.do \in {"copy", "accumulate"} /\ gpu.seen["side"] = <<>>
      /\ gpu'.queue = gpu.queue /\ gpu'.recorded = gpu.recorded /\ gpu'.completed = gpu.completed
      /\ seen = [b \in Reads(c) |-> gpu.memory[b]]
      /\ gpu'.seen["compute"] = gpu.seen["compute"] /\ gpu'.seen["null"] = gpu.seen["null"]
      /\ c.to \in Buffers => gpu'.memory[c.to] = Torn
      /\ \A b \in Buffers : b # c.to => gpu'.memory[b] = gpu.memory[b]
  BY StartsFacts DEF Streams
<1>2. OnCompute(gpu, v) /\ OnSide(gpu, v) /\ OnNull(gpu, v) /\ SlotsHold(gpu, v) /\ Stored(gpu, v)
  BY DEF SlotsBase
<1>3. /\ gpu.queue["compute"] = <<>> /\ Len(D) = 1
      /\ \/ c = ToHost /\ v.stage = "fallback"
         \/ c = ToDevice /\ v.stage = "output" /\ Right(gpu.memory[xh], v.W, v.M, v.H)
  BY <1>1, SideHead DEF Awaits, Does
<1> HIDE DEF D, c
<1>4. /\ c.to \in {x, xh} /\ c.to \in Buffers /\ c.do = "copy"
      /\ c = ToHost => c.to = xh /\ Reads(c) = {x}
      /\ c = ToDevice => c.to = x /\ Reads(c) = {xh}
  <2>1. ToHost.to = xh /\ ToHost.do = "copy" /\ Reads(ToHost) = {x}
    BY SlotCallFacts, SlotReads
  <2>2. ToDevice.to = x /\ ToDevice.do = "copy" /\ Reads(ToDevice) = {xh}
    BY SlotCallFacts, SlotReads
  <2>3. ToHost # ToDevice /\ x \in Buffers /\ xh \in Buffers
    BY <2>1, <2>2, BufferFacts
  <2> QED BY <1>3, <2>1, <2>2, <2>3
<1>5. /\ c = ToHost => gpu'.memory[x] = gpu.memory[x] /\ seen[x] = gpu'.memory[x]
      /\ c = ToDevice => gpu'.memory[xh] = gpu.memory[xh] /\ seen[xh] = gpu'.memory[xh]
  BY <1>1, <1>4, BufferFacts
<1>6. OnCompute(gpu', v)
  <2>1. gpu'.queue["compute"] = <<>> /\ Numbered(gpu', <<>>)
    BY <1>1, <1>2, <1>3 DEF OnCompute, Numbered
  <2>2. Drained(gpu', v)
    BY <1>1, <1>2, <1>3, <1>5 DEF Drained, OnCompute, D
  <2> QED BY <1>1, <1>2, <1>3, <2>1, <2>2 DEF OnCompute
<1>7. OnSide(gpu', v)
  <2>1. v.stage = "fallback" => ForHost(gpu', v)
    <3>1. v.stage = "fallback" => c = ToHost
      BY <1>3
    <3> HIDE DEF seen
    <3> QED BY <1>1, <1>3, <1>5, <3>1 DEF ForHost, D, c, seen
  <2>2. v.stage = "output" => FromHost(gpu', v)
    <3>1. v.stage = "output" => c = ToDevice
      BY <1>3
    <3> HIDE DEF seen
    <3> QED BY <1>1, <1>3, <1>5, <3>1 DEF FromHost, D, c, seen
  <2> QED BY <1>1, <1>3, <1>4, <2>1, <2>2 DEF OnSide, D, c
<1>8. OnNull(gpu', v)
  BY <1>1, <1>2 DEF OnNull
<1>9. SlotsHold(gpu', v)
  <2>1. \A s \in Slots : SlotOf(s) \in Buffers /\ SlotOf(s) # c.to
    BY <1>4, BufferFacts DEF SlotOf
  <2>2. \A s \in Slots : gpu'.memory[SlotOf(s)] = gpu.memory[SlotOf(s)]
    BY <1>1, <2>1
  <2> QED BY <1>1, <1>2, <2>2 DEF SlotsHold, ViewOk
<1>10. Stored(gpu', v)
  <2> DEFINE a == c.to
  <2>1. /\ \A b \in Buffers : b # a => gpu'.memory[b] = gpu.memory[b]
        /\ a \in {x, xh} /\ a # <<"out", v.f>>
    BY <1>1, <1>4, BufferFacts
  <2> HIDE DEF a
  <2> QED BY <1>2, <2>1, StoredKept
<1> QED BY <1>1, <1>6, <1>7, <1>8, <1>9, <1>10 DEF SlotsBase

LEMMA SlotSideFinishes ==
  ASSUME NEW v, Typed(gpu), ViewOk(v), SlotsBase(gpu, v), Finishes("side")
  PROVE  Typed(gpu') /\ SlotsBase(gpu', v)
<1> DEFINE D == gpu.queue["side"]
           c == D[1]
           seen == gpu.seen["side"]
<1>1. /\ Typed(gpu') /\ D # <<>> /\ c.do \in {"copy", "accumulate"} /\ seen # <<>>
      /\ gpu'.queue["side"] = Tail(D) /\ gpu'.seen["side"] = <<>>
      /\ gpu'.recorded = gpu.recorded /\ gpu'.completed = gpu.completed
      /\ gpu'.queue["compute"] = gpu.queue["compute"] /\ gpu'.queue["null"] = gpu.queue["null"]
      /\ gpu'.seen["compute"] = gpu.seen["compute"] /\ gpu'.seen["null"] = gpu.seen["null"]
      /\ c.to \in Buffers => gpu'.memory[c.to] = Written("side", c)
      /\ \A b \in Buffers : b # c.to => gpu'.memory[b] = gpu.memory[b]
  BY FinishesFacts DEF Streams
<1>2. OnCompute(gpu, v) /\ OnSide(gpu, v) /\ OnNull(gpu, v) /\ SlotsHold(gpu, v) /\ Stored(gpu, v)
  BY DEF SlotsBase
<1>3. /\ gpu.queue["compute"] = <<>> /\ Len(D) = 1 /\ D \in Seq(Calls)
      /\ \/ c = ToHost /\ v.stage = "fallback" /\ seen[x] = gpu.memory[x]
         \/ /\ c = ToDevice /\ v.stage = "output" /\ Right(gpu.memory[xh], v.W, v.M, v.H)
            /\ seen[xh] = gpu.memory[xh]
  BY <1>1, SideHead DEF Awaits, Does
<1> HIDE DEF D, c
<1>4. /\ c.to \in {x, xh} /\ c.to \in Buffers
      /\ c = ToHost => c.to = xh
      /\ c = ToDevice => c.to = x
  BY <1>3, SlotCallFacts, BufferFacts
<1>5. c = ToHost => gpu'.memory[x] = gpu.memory[x] /\ Right(gpu'.memory[xh], v.W, v.M, v.H)
                    /\ Right(gpu.memory[x], v.W, v.M, v.H)
  <2> SUFFICES ASSUME c = ToHost PROVE gpu'.memory[x] = gpu.memory[x] /\ Right(gpu'.memory[xh], v.W, v.M, v.H)
                                       /\ Right(gpu.memory[x], v.W, v.M, v.H)
    OBVIOUS
  <2>1. v.stage = "fallback" /\ seen[x] = gpu.memory[x]
    <3>1. ToHost # ToDevice
      BY SlotCallFacts, BufferFacts
    <3> QED BY <1>3, <3>1
  <2>2. Right(gpu.memory[x], v.W, v.M, v.H)
    BY <1>2, <1>3, <2>1 DEF OnCompute, Drained
  <2>3. gpu.memory[x] # Torn
    BY <2>2, RightFacts DEF ViewOk
  <2>4. Written("side", ToHost) = gpu.memory[x]
    BY <2>1, <2>3, CopyWrites DEF ToHost
  <2> QED BY <1>1, <1>4, <2>2, <2>4, BufferFacts
<1>6. c = ToDevice => Right(gpu'.memory[x], v.W, v.M, v.H)
  <2> SUFFICES ASSUME c = ToDevice PROVE Right(gpu'.memory[x], v.W, v.M, v.H)
    OBVIOUS
  <2>1. seen[xh] = gpu.memory[xh] /\ Right(gpu.memory[xh], v.W, v.M, v.H)
    <3>1. ToHost # ToDevice
      BY SlotCallFacts, BufferFacts
    <3> QED BY <1>3, <3>1
  <2>2. gpu.memory[xh] # Torn
    BY <2>1, RightFacts DEF ViewOk
  <2>3. Written("side", ToDevice) = gpu.memory[xh]
    BY <2>1, <2>2, CopyWrites DEF ToDevice
  <2> QED BY <1>1, <1>4, <2>1, <2>3
<1>7. Tail(D) = <<>>
  BY <1>3, OneCall
<1>8. OnCompute(gpu', v)
  <2>1. gpu'.queue["compute"] = <<>> /\ Numbered(gpu', <<>>)
    BY <1>1, <1>2, <1>3 DEF OnCompute, Numbered
  <2>2. Drained(gpu', v)
    BY <1>1, <1>3, <1>5, <1>6 DEF Drained
  <2> QED BY <1>1, <1>2, <1>3, <2>1, <2>2 DEF OnCompute
<1>9. OnSide(gpu', v)
  <2>1. v.stage = "fallback" => ForHost(gpu', v)
    BY <1>1, <1>3, <1>5, <1>7 DEF ForHost
  <2>2. v.stage = "output" => FromHost(gpu', v)
    BY <1>1, <1>7 DEF FromHost
  <2> QED BY <1>1, <1>3, <1>7, <2>1, <2>2 DEF OnSide
<1>10. OnNull(gpu', v)
  BY <1>1, <1>2 DEF OnNull
<1>11. SlotsHold(gpu', v)
  <2>1. \A s \in Slots : SlotOf(s) \in Buffers /\ SlotOf(s) # c.to
    BY <1>4, BufferFacts DEF SlotOf
  <2>2. \A s \in Slots : gpu'.memory[SlotOf(s)] = gpu.memory[SlotOf(s)]
    BY <1>1, <2>1
  <2> QED BY <1>1, <1>2, <2>2 DEF SlotsHold, ViewOk
<1>12. Stored(gpu', v)
  <2> DEFINE a == c.to
  <2>1. /\ \A b \in Buffers : b # a => gpu'.memory[b] = gpu.memory[b]
        /\ a \in {x, xh} /\ a # <<"out", v.f>>
    BY <1>1, <1>4, BufferFacts
  <2> HIDE DEF a
  <2> QED BY <1>2, <2>1, StoredKept
<1> QED BY <1>1, <1>8, <1>9, <1>10, <1>11, <1>12 DEF SlotsBase

LEMMA SlotSideSignals ==
  ASSUME NEW v, Typed(gpu), ViewOk(v), SlotsBase(gpu, v), Signals("side")
  PROVE  FALSE
<1>1. gpu.queue["side"] # <<>> /\ Head(gpu.queue["side"]).do = "record"
  BY DEF Signals
<1> QED BY <1>1, SideHead, SlotCallFacts DEF Awaits, Does

LEMMA SlotSideProceeds ==
  ASSUME NEW v, Typed(gpu), ViewOk(v), SlotsBase(gpu, v), Proceeds("side")
  PROVE  Typed(gpu') /\ SlotsBase(gpu', v)
<1> DEFINE C == gpu.queue["compute"]
           D == gpu.queue["side"]
           T == Tail(D)
           c == D[1]
<1>1. /\ Typed(gpu') /\ D # <<>> /\ c.do = "wait" /\ c.event \in Events
      /\ gpu.completed[c.event] >= c.number
      /\ gpu'.queue["side"] = T
      /\ gpu'.recorded = gpu.recorded /\ gpu'.completed = gpu.completed
      /\ gpu'.seen = gpu.seen /\ gpu'.memory = gpu.memory
      /\ gpu'.queue["compute"] = C /\ gpu'.queue["null"] = gpu.queue["null"]
  BY ProceedsFacts DEF Streams
<1>2. OnCompute(gpu, v) /\ OnSide(gpu, v) /\ OnNull(gpu, v) /\ SlotsHold(gpu, v) /\ Stored(gpu, v)
  BY DEF SlotsBase
<1>3. gpu.seen["side"] = <<>>
  BY <1>1, <1>2 DEF OnSide
<1>4. /\ D \in Seq(Calls) /\ Len(T) = Len(D) - 1 /\ \A i \in 1 .. Len(D) - 1 : T[i] = D[i + 1]
      /\ \/ /\ v.stage \in {"idle", "routing"} /\ OnlyWaits(D) /\ Len(D) \in Nat \ {0}
            /\ v.stage = "routing" => Awaits(gpu, D[Len(D)], routerDone)
         \/ /\ v.stage = "fallback" /\ D[Len(D)] = ToHost
            /\ \/ Len(D) = 2 /\ Awaits(gpu, c, partDone)
               \/ Len(D) = 3 /\ Awaits(gpu, D[2], partDone)
  <2>1. ToHost.do = "copy" /\ ToDevice.do = "copy"
    BY SlotCallFacts
  <2> QED BY <1>1, <2>1, SideHead
<1>5. OnCompute(gpu', v)
  <2>1. Drained(gpu', v)
    BY <1>1, <1>2, <1>4 DEF Drained, OnCompute
  <2>2. C # <<>> => HeadHolds(gpu', v)
    BY <1>1, <1>2 DEF OnCompute, HeadHolds
  <2>3. Numbered(gpu', C)
    BY <1>1, <1>2 DEF OnCompute, Numbered
  <2> QED BY <1>1, <1>2, <2>1, <2>2, <2>3 DEF OnCompute
<1> HIDE DEF C, D, T, c
<1>6. OnSide(gpu', v)
  <2>1. CASE v.stage \in {"idle", "routing"}
    <3>1. OnlyWaits(T)
      <4>1. \A i \in 1 .. Len(T) : i \in 1 .. Len(D) - 1 /\ i + 1 \in 1 .. Len(D) /\ T[i] = D[i + 1]
        BY <1>4, <2>1
      <4> QED BY <1>4, <2>1, <4>1 DEF OnlyWaits
    <3>2. ASSUME v.stage = "routing", T = <<>> PROVE C = <<>>
      <4>1. Len(T) = 0
        BY <3>2
      <4>2. Len(D) = 1
        BY <1>4, <2>1, <4>1
      <4>3. Does(c, "wait", routerDone) /\ c.number = gpu.recorded[routerDone]
        BY <1>4, <3>2, <4>2 DEF Awaits, c, D
      <4>4. gpu.completed[routerDone] >= gpu.recorded[routerDone]
        BY <1>1, <4>3 DEF Does
      <4>5. C # <<>> => Does(C[Len(C)], "record", routerDone)
        BY <1>2, <3>2 DEF OnCompute, EndsAs, C
      <4> QED BY <1>2, <4>4, <4>5, AllPassed, EventFacts DEF C, routerDone
    <3>3. ASSUME v.stage = "routing", T # <<>> PROVE Awaits(gpu, T[Len(T)], routerDone)
      <4>1. T \in Seq(Calls)
        BY <1>1 DEF Typed, Streams
      <4>2. Len(T) # 0
        BY <3>3, <4>1
      <4>3. T[Len(T)] = D[Len(D)]
        BY <1>4, <2>1, <4>2
      <4> QED BY <1>4, <3>3, <4>3
    <3>4. v.stage = "routing" => ForRouter(gpu')
      BY <1>1, <3>2, <3>3 DEF ForRouter, Awaits
    <3> QED BY <1>1, <1>3, <2>1, <3>1, <3>4 DEF OnSide
  <2>2. CASE v.stage = "fallback" /\ Len(D) = 2
    <3>1. Len(T) = 1 /\ T[1] = ToHost /\ Does(c, "wait", partDone) /\ c.number = gpu.recorded[partDone]
      BY <1>4, <2>2 DEF Awaits
    <3>2. gpu.completed[partDone] >= gpu.recorded[partDone]
      BY <1>1, <3>1 DEF Does
    <3>3. C = <<>>
      <4>1. C # <<>> => Does(C[Len(C)], "record", partDone)
        BY <1>2, <2>2 DEF OnCompute, EndsAs, C
      <4> QED BY <1>2, <3>2, <4>1, AllPassed, EventFacts DEF C, partDone
    <3>4. ForHost(gpu', v)
      BY <1>1, <1>3, <3>1, <3>3 DEF ForHost
    <3> QED BY <1>1, <1>3, <2>2, <3>4 DEF OnSide
  <2>3. CASE v.stage = "fallback" /\ Len(D) = 3
    <3>1. Len(T) = 2 /\ T[2] = ToHost /\ T[1] = D[2] /\ Awaits(gpu, D[2], partDone)
      BY <1>4, <2>3
    <3>2. ForHost(gpu', v)
      BY <1>1, <3>1 DEF ForHost, Awaits
    <3> QED BY <1>1, <1>3, <2>3, <3>2 DEF OnSide
  <2> QED BY <1>4, <2>1, <2>2, <2>3
<1>7. OnNull(gpu', v)
  BY <1>1, <1>2 DEF OnNull
<1>8. SlotsHold(gpu', v)
  BY <1>1, <1>2 DEF SlotsHold
<1>9. Stored(gpu', v)
  BY <1>1, <1>2 DEF Stored
<1> QED BY <1>1, <1>5, <1>6, <1>7, <1>8, <1>9 DEF SlotsBase

(* The uploads.                                                            *)
LEMMA NullHead ==
  ASSUME NEW v, Typed(gpu), ViewOk(v), SlotsBase(gpu, v), gpu.queue["null"] # <<>>
  PROVE  LET N == gpu.queue["null"]
         IN  /\ N \in Seq(Calls) /\ Len(N) = 1 /\ Head(N) = N[1] /\ Tail(N) = <<>>
             /\ v.stage = "upload" /\ gpu.queue["compute"] = <<>>
             /\ \E s \in DOMAIN v.held \ v.pending :
                  /\ N[1] = Loads(s, v.held[s]) /\ v.held[s] \in Weights
                  /\ Uploading(N) = {s}
                  /\ gpu.seen["null"] # <<>> =>
                       gpu.seen["null"][<<"staged", v.held[s]>>] = {<<v.held[s], v.held[s]>>}
<1> DEFINE N == gpu.queue["null"]
<1>1. N \in Seq(Calls) /\ N # <<>>
  BY DEF Typed, Streams
<1>2. v.stage = "upload" /\ gpu.queue["compute"] = <<>>
  BY <1>1 DEF SlotsBase, OnNull, OnCompute, EndsAs
<1>3. PICK s \in DOMAIN v.held \ v.pending :
        /\ Len(N) = 1 /\ N[1] = Loads(s, v.held[s]) /\ v.held[s] \in Weights
        /\ gpu.seen["null"] # <<>> =>
             gpu.seen["null"][<<"staged", v.held[s]>>] = {<<v.held[s], v.held[s]>>}
  BY <1>1 DEF SlotsBase, OnNull
<1>4. Head(N) = N[1] /\ Tail(N) = <<>>
  <2> HIDE DEF N
  <2> QED BY <1>1, <1>3, OneCall
<1>5. Uploading(N) = {s}
  <2>1. N[1].to = SlotOf(s) /\ SlotOf(s)[2] = s
    BY <1>3, SlotCallFacts DEF SlotOf
  <2>2. \A i \in 1 .. Len(N) : i = 1
    BY <1>3
  <2> HIDE DEF N
  <2> QED BY <1>3, <2>1, <2>2 DEF Uploading
<1> QED BY <1>1, <1>2, <1>3, <1>4, <1>5

LEMMA SlotNullStarts ==
  ASSUME NEW v, Typed(gpu), ViewOk(v), SlotsBase(gpu, v), Starts("null")
  PROVE  Typed(gpu') /\ SlotsBase(gpu', v)
<1> DEFINE N == gpu.queue["null"]
           c == N[1]
           seen == gpu'.seen["null"]
<1>1. /\ Typed(gpu') /\ N # <<>> /\ gpu.seen["null"] = <<>>
      /\ gpu'.queue = gpu.queue /\ gpu'.recorded = gpu.recorded /\ gpu'.completed = gpu.completed
      /\ seen = [b \in Reads(c) |-> gpu.memory[b]]
      /\ gpu'.seen["compute"] = gpu.seen["compute"] /\ gpu'.seen["side"] = gpu.seen["side"]
      /\ c.to \in Buffers => gpu'.memory[c.to] = Torn
      /\ \A b \in Buffers : b # c.to => gpu'.memory[b] = gpu.memory[b]
  BY StartsFacts DEF Streams
<1>2. OnCompute(gpu, v) /\ OnSide(gpu, v) /\ OnNull(gpu, v) /\ SlotsHold(gpu, v) /\ Stored(gpu, v)
  BY DEF SlotsBase
<1>3. v.stage = "upload" /\ gpu.queue["compute"] = <<>> /\ Len(N) = 1
  BY <1>1, NullHead
<1>4. PICK s \in DOMAIN v.held \ v.pending :
        c = Loads(s, v.held[s]) /\ v.held[s] \in Weights /\ Uploading(N) = {s}
  BY <1>1, NullHead
<1> HIDE DEF N, c
<1>5. c.to = SlotOf(s) /\ Reads(c) = {<<"staged", v.held[s]>>}
  BY <1>4, SlotCallFacts, SlotReads
<1>6. gpu'.memory[x] = gpu.memory[x] /\ gpu'.memory[xh] = gpu.memory[xh]
      /\ \A a \in Slots : a # s => gpu'.memory[SlotOf(a)] = gpu.memory[SlotOf(a)]
  <2>1. x # c.to /\ xh # c.to /\ \A a \in Slots : SlotOf(a) \in Buffers /\ (a # s => SlotOf(a) # c.to)
    BY <1>5, BufferFacts DEF SlotOf
  <2> QED BY <1>1, <2>1, BufferFacts
<1>7. OnCompute(gpu', v)
  <2>1. Drained(gpu', v)
    BY <1>1, <1>2, <1>3, <1>6 DEF Drained, OnCompute
  <2>2. Numbered(gpu', gpu.queue["compute"])
    BY <1>1, <1>2, ZenonT(60) DEF OnCompute, Numbered
  <2> QED BY <1>1, <1>2, <1>3, <2>1, <2>2 DEF OnCompute
<1>8. OnSide(gpu', v)
  BY <1>1, <1>2, <1>3 DEF OnSide
<1>9. OnNull(gpu', v)
  <2>1. seen[<<"staged", v.held[s]>>] = {<<v.held[s], v.held[s]>>}
    BY <1>1, <1>2, <1>4, <1>5 DEF Stored
  <2> HIDE DEF seen
  <2> QED BY <1>1, <1>3, <1>4, <2>1 DEF OnNull, N, c, seen
<1>10. SlotsHold(gpu', v)
  BY <1>1, <1>2, <1>4, <1>6 DEF SlotsHold, ViewOk, N
<1>11. Stored(gpu', v)
  <2> DEFINE a == c.to
  <2>1. /\ \A b \in Buffers : b # a => gpu'.memory[b] = gpu.memory[b]
        /\ a = SlotOf(s) /\ a # <<"out", v.f>>
    BY <1>1, <1>5, BufferFacts DEF SlotOf
  <2> HIDE DEF a
  <2> QED BY <1>2, <2>1, StoredKept
<1> QED BY <1>1, <1>7, <1>8, <1>9, <1>10, <1>11 DEF SlotsBase

LEMMA SlotNullFinishes ==
  ASSUME NEW v, Typed(gpu), ViewOk(v), SlotsBase(gpu, v), Finishes("null")
  PROVE  Typed(gpu') /\ SlotsBase(gpu', v)
<1> DEFINE N == gpu.queue["null"]
           c == N[1]
           seen == gpu.seen["null"]
<1>1. /\ Typed(gpu') /\ N # <<>> /\ seen # <<>>
      /\ gpu'.queue["null"] = Tail(N) /\ gpu'.seen["null"] = <<>>
      /\ gpu'.recorded = gpu.recorded /\ gpu'.completed = gpu.completed
      /\ gpu'.queue["compute"] = gpu.queue["compute"] /\ gpu'.queue["side"] = gpu.queue["side"]
      /\ gpu'.seen["compute"] = gpu.seen["compute"] /\ gpu'.seen["side"] = gpu.seen["side"]
      /\ c.to \in Buffers => gpu'.memory[c.to] = Written("null", c)
      /\ \A b \in Buffers : b # c.to => gpu'.memory[b] = gpu.memory[b]
  BY FinishesFacts DEF Streams
<1>2. OnCompute(gpu, v) /\ OnSide(gpu, v) /\ OnNull(gpu, v) /\ SlotsHold(gpu, v) /\ Stored(gpu, v)
  BY DEF SlotsBase
<1>3. v.stage = "upload" /\ gpu.queue["compute"] = <<>> /\ Tail(N) = <<>>
  BY <1>1, NullHead
<1>4. PICK s \in DOMAIN v.held \ v.pending :
        /\ c = Loads(s, v.held[s]) /\ v.held[s] \in Weights /\ Uploading(N) = {s}
        /\ seen[<<"staged", v.held[s]>>] = {<<v.held[s], v.held[s]>>}
  BY <1>1, NullHead
<1> HIDE DEF N, c
<1>5. c.to = SlotOf(s) /\ s \in Slots /\ c.to \in Buffers
  BY <1>4, SlotCallFacts, BufferFacts DEF ViewOk, SlotOf
<1>6. gpu'.memory[x] = gpu.memory[x] /\ gpu'.memory[xh] = gpu.memory[xh]
      /\ \A a \in Slots : a # s => gpu'.memory[SlotOf(a)] = gpu.memory[SlotOf(a)]
  <2>1. x # c.to /\ xh # c.to /\ \A a \in Slots : SlotOf(a) \in Buffers /\ (a # s => SlotOf(a) # c.to)
    BY <1>5, BufferFacts DEF SlotOf
  <2> QED BY <1>1, <2>1, BufferFacts
<1>7. gpu'.memory[SlotOf(s)] = {<<v.held[s], v.held[s]>>}
  <2>1. gpu.memory[<<"staged", v.held[s]>>] = {<<v.held[s], v.held[s]>>}
    BY <1>2, <1>4 DEF Stored
  <2>2. Written("null", Loads(s, v.held[s])) = {<<v.held[s], v.held[s]>>}
    BY <1>4, <2>1, CopyWrites DEF Loads, Torn
  <2> QED BY <1>1, <1>4, <1>5, <2>2
<1>8. OnCompute(gpu', v)
  <2>1. Drained(gpu', v)
    BY <1>1, <1>2, <1>3, <1>6 DEF Drained, OnCompute
  <2>2. Numbered(gpu', gpu.queue["compute"])
    BY <1>1, <1>2 DEF OnCompute, Numbered
  <2> QED BY <1>1, <1>2, <1>3, <2>1, <2>2 DEF OnCompute
<1>9. OnSide(gpu', v)
  BY <1>1, <1>2, <1>3 DEF OnSide
<1>10. OnNull(gpu', v)
  BY <1>1, <1>3 DEF OnNull
<1>11. SlotsHold(gpu', v)
  <2>1. Uploading(gpu'.queue["null"]) = {}
    <3>1. Len(<<>>) = 0 /\ gpu'.queue["null"] = <<>>
      BY <1>1, <1>3
    <3>2. Uploading(<<>>) = {}
      BY DEF Uploading
    <3> QED BY <3>1, <3>2
  <2> SUFFICES ASSUME NEW a \in DOMAIN v.held, a \notin v.stale, a \notin v.pending, v.held[a] # -1
               PROVE  gpu'.memory[SlotOf(a)] = {<<v.held[a], v.held[a]>>}
    BY DEF SlotsHold
  <2>2. CASE a = s
    BY <1>7, <2>2
  <2>3. CASE a # s
    BY <1>2, <1>4, <1>6, <2>3 DEF SlotsHold, ViewOk, N
  <2> QED BY <2>2, <2>3
<1>12. Stored(gpu', v)
  <2> DEFINE a == c.to
  <2>1. /\ \A b \in Buffers : b # a => gpu'.memory[b] = gpu.memory[b]
        /\ a = SlotOf(s) /\ a # <<"out", v.f>>
    BY <1>1, <1>5, BufferFacts DEF SlotOf
  <2> HIDE DEF a
  <2> QED BY <1>2, <2>1, StoredKept
<1> QED BY <1>1, <1>8, <1>9, <1>10, <1>11, <1>12 DEF SlotsBase

(* A step of the device keeps what the host relies on.                     *)
LEMMA SlotDevice ==
  ASSUME NEW v, Typed(gpu), ViewOk(v), SlotsBase(gpu, v), Device
  PROVE  Typed(gpu') /\ SlotsBase(gpu', v)
<1>1. PICK s \in Streams : Starts(s) \/ Finishes(s) \/ Signals(s) \/ Proceeds(s)
  BY DEF Device
<1>2. CASE s = "compute"
  BY <1>1, <1>2, SlotComputeStarts, SlotComputeFinishes, SlotComputeSignals, SlotComputeProceeds
<1>3. CASE s = "side"
  BY <1>1, <1>3, SlotSideStarts, SlotSideFinishes, SlotSideSignals, SlotSideProceeds
<1>4. CASE s = "null"
  <2>1. ~Signals("null") /\ ~Proceeds("null")
    <3>1. gpu.queue["null"] # <<>> => Head(gpu.queue["null"]).do = "copy"
      <4>1. gpu.queue["null"] # <<>> =>
              \E k, e : Head(gpu.queue["null"]) = Loads(k, e)
        BY NullHead
      <4> QED BY <4>1, SlotCallFacts
    <3> QED BY <3>1 DEF Signals, Proceeds
  <2> QED BY <1>1, <1>4, <2>1, SlotNullStarts, SlotNullFinishes
<1> QED BY <1>1, <1>2, <1>3, <1>4 DEF Streams

(***************************************************************************)
(* The bounded path: the LRU index                                         *)
(***************************************************************************)
Entries(s) == {s[i] : i \in 1 .. Len(s)}
Apart(s)   == \A i, j \in 1 .. Len(s) : s[i] = s[j] => i = j

LEMMA RemovedFacts ==
  ASSUME NEW T, NEW s \in Seq(T), Apart(s), NEW gone \in 1 .. Len(s)
  PROVE  /\ RemoveAt(s, gone) \in Seq(T) /\ Apart(RemoveAt(s, gone))
         /\ Entries(RemoveAt(s, gone)) = Entries(s) \ {s[gone]}
<1> DEFINE left  == RemoveAt(s, gone)
           front == SubSeq(s, 1, gone - 1)
           back  == SubSeq(s, gone + 1, Len(s))
<1>1. left = front \o back
  BY Zenon DEF RemoveAt
<1>2. /\ front \in Seq(T) /\ Len(front) = gone - 1
      /\ \A i \in 1 .. gone - 1 : front[i] = s[i]
  OBVIOUS
<1>3. /\ back \in Seq(T) /\ Len(back) = Len(s) - gone
      /\ \A i \in 1 .. Len(s) - gone : back[i] = s[gone + i]
  OBVIOUS
<1> HIDE DEF left, front, back
<1>4. left \in Seq(T) /\ Len(left) = Len(s) - 1
  <2>1. front \o back \in Seq(T) /\ Len(front \o back) = Len(front) + Len(back)
    BY <1>2, <1>3
  <2>2. Len(s) \in Nat /\ (gone - 1) + (Len(s) - gone) = Len(s) - 1
    OBVIOUS
  <2> QED BY <1>1, <1>2, <1>3, <2>1, <2>2
<1>5. \A i \in 1 .. Len(left) : left[i] = IF i <= gone - 1 THEN front[i] ELSE back[i - (gone - 1)]
  BY <1>1, <1>2, <1>3
<1>6. ASSUME NEW i \in 1 .. Len(left)
      PROVE  left[i] = IF i < gone THEN s[i] ELSE s[i + 1]
  <2>1. CASE i < gone
    BY <1>2, <1>5, <2>1
  <2>2. CASE ~(i < gone)
    <3>1. i - (gone - 1) \in 1 .. Len(s) - gone /\ gone + (i - (gone - 1)) = i + 1
      BY <1>4, <2>2
    <3> QED BY <1>3, <1>5, <2>2, <3>1
  <2> QED BY <2>1, <2>2
<1> DEFINE Was(n) == IF n < gone THEN n ELSE n + 1
<1>7. \A i \in 1 .. Len(left) : Was(i) \in 1 .. Len(s) /\ Was(i) # gone /\ left[i] = s[Was(i)]
  BY <1>4, <1>6
<1>8. Apart(left)
  <2> SUFFICES ASSUME NEW i \in 1 .. Len(left), NEW k \in 1 .. Len(left), left[i] = left[k]
               PROVE  i = k
    BY DEF Apart
  <2>1. Was(i) = Was(k)
    <3> HIDE DEF Was
    <3> QED BY <1>7 DEF Apart
  <2> QED BY <1>4, <2>1
<1>9. \A i \in 1 .. Len(s) : i # gone => \E k \in 1 .. Len(left) : left[k] = s[i]
  <2> SUFFICES ASSUME NEW i \in 1 .. Len(s), i # gone PROVE \E k \in 1 .. Len(left) : left[k] = s[i]
    OBVIOUS
  <2>1. CASE i < gone
    BY <1>4, <1>6, <2>1
  <2>2. CASE ~(i < gone)
    <3>1. i - 1 \in 1 .. Len(left) /\ ~(i - 1 < gone) /\ (i - 1) + 1 = i
      BY <1>4, <2>2
    <3> QED BY <1>6, <3>1
  <2> QED BY <2>1, <2>2
<1>10. Entries(left) = Entries(s) \ {s[gone]}
  <2>1. \A i \in 1 .. Len(s) : i # gone => s[i] # s[gone]
    BY DEF Apart
  <2> HIDE DEF Was
  <2>2. Entries(left) \subseteq Entries(s) \ {s[gone]}
    BY <1>7, <2>1 DEF Entries
  <2>3. Entries(s) \ {s[gone]} \subseteq Entries(left)
    BY <1>9 DEF Entries
  <2> QED BY <2>2, <2>3
<1> QED BY <1>4, <1>8, <1>10 DEF left

LEMMA PrependedFacts ==
  ASSUME NEW T, NEW r \in Seq(T), Apart(r), NEW e \in T, e \notin Entries(r)
  PROVE  /\ <<e>> \o r \in Seq(T) /\ Apart(<<e>> \o r)
         /\ Entries(<<e>> \o r) = {e} \cup Entries(r)
<1> DEFINE s == <<e>> \o r
<1>1. s \in Seq(T) /\ Len(s) = Len(r) + 1 /\ Len(r) \in Nat
  OBVIOUS
<1>2. s[1] = e
  OBVIOUS
<1>3. \A i \in 2 .. Len(s) : s[i] = r[i - 1] /\ i - 1 \in 1 .. Len(r)
  <2> SUFFICES ASSUME NEW i \in 2 .. Len(s) PROVE s[i] = r[i - 1] /\ i - 1 \in 1 .. Len(r)
    OBVIOUS
  <2>1. i - 1 \in 1 .. Len(r)
    BY <1>1
  <2>2. <<e>> \in Seq(T) /\ Len(<<e>>) = 1
    OBVIOUS
  <2>3. \A k \in 1 .. 1 + Len(r) : s[k] = IF k <= 1 THEN <<e>>[k] ELSE r[k - 1]
    BY <2>2, ConcatProperties
  <2>4. i \in 1 .. 1 + Len(r) /\ ~(i <= 1)
    BY <1>1
  <2> HIDE DEF s
  <2> QED BY <2>1, <2>3, <2>4
<1>4. \A k \in 1 .. Len(r) : k + 1 \in 2 .. Len(s) /\ s[k + 1] = r[k]
  <2> SUFFICES ASSUME NEW k \in 1 .. Len(r) PROVE k + 1 \in 2 .. Len(s) /\ s[k + 1] = r[k]
    OBVIOUS
  <2>1. k + 1 \in 2 .. Len(s) /\ (k + 1) - 1 = k
    BY <1>1
  <2> HIDE DEF s
  <2> QED BY <1>3, <2>1
<1> HIDE DEF s
<1>5. Entries(s) = {e} \cup Entries(r)
  <2>1. \A i \in 1 .. Len(s) : i = 1 \/ i \in 2 .. Len(s)
    BY <1>1
  <2>2. Entries(s) \subseteq {e} \cup Entries(r)
    BY <1>2, <1>3, <2>1 DEF Entries
  <2>3. e \in Entries(s)
    BY <1>1, <1>2 DEF Entries
  <2>4. Entries(r) \subseteq Entries(s)
    BY <1>4 DEF Entries
  <2> QED BY <2>2, <2>3, <2>4
<1>6. Apart(s)
  <2> SUFFICES ASSUME NEW i \in 1 .. Len(s), NEW k \in 1 .. Len(s), s[i] = s[k], i # k
               PROVE  FALSE
    BY DEF Apart
  <2>1. \A n \in 2 .. Len(s) : s[n] # e
    BY <1>3 DEF Entries
  <2>2. i \in 2 .. Len(s) /\ k \in 2 .. Len(s)
    BY <1>1, <1>2, <2>1
  <2>3. i - 1 = k - 1
    BY <1>3, <2>2 DEF Apart
  <2> QED BY <2>2, <2>3
<1> QED BY <1>1, <1>5, <1>6 DEF s

(* LruExpertCache and slot_expert agree: each resident expert has a place  *)
(* in the recency list and a slot that is held to contain it.              *)
Agree(c, held) ==
  /\ c = [recency |-> c.recency, slots |-> c.slots]
  /\ c.recency \in Seq(Weights) /\ Apart(c.recency)
  /\ Resident(c) = Entries(c.recency)
  /\ \A e \in Resident(c) : c.slots[e] \in DOMAIN held /\ held[c.slots[e]] = e

LEMMA AgreeApart ==
  ASSUME NEW c, NEW held, Agree(c, held), NEW e \in Resident(c), NEW d \in Resident(c),
         c.slots[e] = c.slots[d]
  PROVE  e = d
BY DEF Agree

LEMMA TouchedAgrees ==
  ASSUME NEW c, NEW held, Agree(c, held), NEW id \in Resident(c)
  PROVE  Agree(Touched(c, id), held) /\ Touched(c, id).slots = c.slots
<1> DEFINE i == At(c, id)
           r == RemoveAt(c.recency, i)
           l == <<id>> \o r
<1>1. i \in 1 .. Len(c.recency) /\ c.recency[i] = id
  <2>1. \E k \in DOMAIN c.recency : c.recency[k] = id
    BY DEF Agree, Entries
  <2>2. DOMAIN c.recency = 1 .. Len(c.recency)
    BY DEF Agree
  <2> QED BY <2>1, <2>2 DEF At
<1> HIDE DEF i
<1>2. r \in Seq(Weights) /\ Apart(r) /\ Entries(r) = Resident(c) \ {id}
  BY <1>1, RemovedFacts DEF Agree
<1> HIDE DEF r
<1>3. id \in Weights
  BY <1>1 DEF Agree
<1>4. l \in Seq(Weights) /\ Apart(l) /\ Entries(l) = Resident(c)
  <2>1. id \notin Entries(r)
    BY <1>2
  <2>2. l \in Seq(Weights) /\ Apart(l) /\ Entries(l) = {id} \cup Entries(r)
    BY <1>2, <1>3, <2>1, PrependedFacts
  <2> QED BY <1>2, <2>2
<1>5. Touched(c, id) = [c EXCEPT !.recency = l]
  BY DEF Touched, l, r, i
<1> HIDE DEF l
<1>6. Touched(c, id) = [recency |-> l, slots |-> c.slots]
  BY <1>5 DEF Agree
<1>7. Resident(Touched(c, id)) = Resident(c)
  BY <1>6 DEF Resident
<1> QED BY <1>4, <1>6, <1>7 DEF Agree

LEMMA WithoutAgrees ==
  ASSUME NEW c, NEW held, Agree(c, held), NEW i \in 1 .. Len(c.recency)
  PROVE  LET d == Without(c, i)
         IN  /\ Agree(d, held) /\ Resident(d) = Resident(c) \ {c.recency[i]}
             /\ \A e \in Resident(d) : d.slots[e] = c.slots[e]
<1> DEFINE d == Without(c, i)
           r == RemoveAt(c.recency, i)
           f == [e \in Resident(c) \ {c.recency[i]} |-> c.slots[e]]
<1>1. r \in Seq(Weights) /\ Apart(r) /\ Entries(r) = Resident(c) \ {c.recency[i]}
  BY RemovedFacts DEF Agree
<1>2. d = [recency |-> r, slots |-> f]
  BY DEF Without
<1>3. DOMAIN f = Resident(c) \ {c.recency[i]} /\ \A e \in DOMAIN f : f[e] = c.slots[e]
  OBVIOUS
<1> HIDE DEF d, r, f
<1>4. Resident(d) = DOMAIN f
  BY <1>2 DEF Resident
<1>5. Agree(d, held)
  BY <1>1, <1>2, <1>3, <1>4 DEF Agree
<1> QED BY <1>2, <1>3, <1>4, <1>5 DEF d

LEMMA GivenAgrees ==
  ASSUME NEW c, NEW held, Agree(c, held), NEW id \in Weights, id \notin Resident(c),
         NEW s \in DOMAIN held, \A e \in Resident(c) : c.slots[e] # s
  PROVE  LET d == Given(c, id, s)
         IN  /\ Agree(d, [held EXCEPT ![s] = id]) /\ Resident(d) = Resident(c) \cup {id}
             /\ d.slots[id] = s
             /\ \A e \in Resident(c) : d.slots[e] = c.slots[e]
<1> DEFINE d == Given(c, id, s)
           r == <<id>> \o c.recency
           f == [e \in Resident(c) \cup {id} |-> IF e = id THEN s ELSE c.slots[e]]
           h == [held EXCEPT ![s] = id]
<1>1. r \in Seq(Weights) /\ Apart(r) /\ Entries(r) = Resident(c) \cup {id}
  <2>1. c.recency \in Seq(Weights) /\ Apart(c.recency) /\ id \notin Entries(c.recency)
    BY DEF Agree
  <2>2. r \in Seq(Weights) /\ Apart(r) /\ Entries(r) = {id} \cup Entries(c.recency)
    BY <2>1, PrependedFacts
  <2> QED BY <2>2 DEF Agree
<1>2. d = [recency |-> r, slots |-> f]
  BY DEF Given
<1>3. DOMAIN f = Resident(c) \cup {id} /\ f[id] = s /\ \A e \in Resident(c) : f[e] = c.slots[e]
  OBVIOUS
<1>4. DOMAIN h = DOMAIN held /\ h[s] = id /\ \A a \in DOMAIN held : a # s => h[a] = held[a]
  OBVIOUS
<1> HIDE DEF d, r, f, h
<1>5. Resident(d) = DOMAIN f
  BY <1>2 DEF Resident
<1>6. \A e \in Resident(d) : d.slots[e] \in DOMAIN h /\ h[d.slots[e]] = e
  BY <1>2, <1>3, <1>4, <1>5 DEF Agree
<1>7. Agree(d, h)
  BY <1>1, <1>2, <1>3, <1>5, <1>6 DEF Agree
<1> QED BY <1>2, <1>3, <1>5, <1>7 DEF d, h

(* A non-empty set of naturals has a least element, which Min returns.     *)
LEMMA LeastOf ==
  ASSUME NEW S \in SUBSET Nat, S # {}
  PROVE  Min(S) \in S /\ \A n \in S : Min(S) <= n
<1>1. PICK m \in S : \A n \in S : ~(<<n, m>> \in OpToRel(<, Nat))
  <2>1. IsWellFoundedOn(OpToRel(<, Nat), Nat)
    BY NatLessThanWellFounded
  <2> QED BY <2>1, WFMin, Zenon
<1>2. ASSUME NEW n \in S PROVE m <= n
  <2>1. SUFFICES ASSUME n < m PROVE FALSE
    OBVIOUS
  <2>2. <<n, m>> \in OpToRel(<, Nat)
    BY <2>1 DEF OpToRel
  <2> QED BY <1>1, <2>2
<1> QED BY <1>2 DEF Min

(* A bounded one has a greatest, which Max returns.                        *)
LEMMA GreatestOf ==
  ASSUME NEW b \in Nat, NEW S \in SUBSET (0 .. b), S # {}
  PROVE  Max(S) \in S /\ \A n \in S : n <= Max(S)
<1> DEFINE D == {b - n : n \in S}
<1>1. D \in SUBSET Nat /\ D # {}
  <2>1. \A n \in S : b - n \in Nat
    OBVIOUS
  <2>2. D # {}
    OBVIOUS
  <2> QED BY <2>1, <2>2
<1>2. PICK d \in D : \A n \in D : d <= n
  BY <1>1, LeastOf
<1>3. PICK m \in S : d = b - m
  BY <1>2
<1>4. \A n \in S : b - n \in D
  OBVIOUS
<1> HIDE DEF D
<1>5. \A n \in S : n <= m
  BY <1>2, <1>3, <1>4
<1> QED BY <1>5 DEF Max

(***************************************************************************)
(* The bounded path: moe_slot_place                                        *)
(***************************************************************************)

(* What placing the experts of D has made of the cache, when slot_expert   *)
(* was "was".                                                              *)
Placing(p, D, was) ==
  /\ p = [cache |-> p.cache, slot_expert |-> p.slot_expert, upload |-> p.upload,
          gather |-> p.gather, cpu |-> p.cpu]
  /\ Agree(p.cache, p.slot_expert)
  /\ p.slot_expert \in [0 .. cap - 1 -> Weights \cup {-1}]
  /\ p.upload \in Seq((0 .. cap - 1) \X Weights)
  /\ \A i \in 1 .. Len(p.upload) :
       \E e \in Resident(p.cache) \cap D : p.upload[i] = <<p.cache.slots[e], e>>
  /\ \A i, j \in 1 .. Len(p.upload) : p.upload[i][1] = p.upload[j][1] => i = j
  /\ \A t \in p.gather : \E e \in Resident(p.cache) \cap D : t = <<e, SlotOf(p.cache.slots[e])>>
  /\ {t[1] : t \in p.gather} \cup p.cpu = D
  /\ \A s \in 0 .. cap - 1 : \/ \E i \in 1 .. Len(p.upload) : p.upload[i][1] = s
                             \/ p.slot_expert[s] = was[s]

(* p, made of these parts.                                                 *)
Parts(c, h, u, G, k) == [cache |-> c, slot_expert |-> h, upload |-> u, gather |-> G, cpu |-> k]

LEMMA PartsFacts ==
  ASSUME NEW p, NEW D, NEW was, Placing(p, D, was)
  PROVE  p = Parts(p.cache, p.slot_expert, p.upload, p.gather, p.cpu)
BY DEF Placing, Parts

LEMMA FirstOf ==
  ASSUME NEW A, NEW e, NEW b
  PROVE  {t[1] : t \in A \cup {<<e, b>>}} = {t[1] : t \in A} \cup {e}
<1>1. \A t \in A \cup {<<e, b>>} : t \in A \/ t[1] = e
  OBVIOUS
<1>2. <<e, b>> \in A \cup {<<e, b>>} /\ <<e, b>>[1] = e
  OBVIOUS
<1> DEFINE w == <<e, b>>
<1> HIDE DEF w
<1> QED BY <1>1, <1>2 DEF w

LEMMA PlacedOnHost ==
  ASSUME NEW p, NEW D, NEW was, Placing(p, D, was), NEW e
  PROVE  Placing(Parts(p.cache, p.slot_expert, p.upload, p.gather, p.cpu \cup {e}), D \cup {e}, was)
<1> DEFINE k == p.cpu \cup {e}
           F == D \cup {e}
           q == Parts(p.cache, p.slot_expert, p.upload, p.gather, k)
<1>1. {t[1] : t \in p.gather} \cup k = F /\ D \subseteq F
  BY DEF Placing
<1>2. /\ q.cache = p.cache /\ q.slot_expert = p.slot_expert /\ q.upload = p.upload
      /\ q.gather = p.gather /\ q.cpu = k
      /\ q = [cache |-> q.cache, slot_expert |-> q.slot_expert, upload |-> q.upload,
              gather |-> q.gather, cpu |-> q.cpu]
  BY DEF Parts
<1> HIDE DEF k, F, q
<1>3. /\ \A i \in 1 .. Len(p.upload) :
           \E d \in Resident(p.cache) \cap F : p.upload[i] = <<p.cache.slots[d], d>>
      /\ \A t \in p.gather : \E d \in Resident(p.cache) \cap F : t = <<d, SlotOf(p.cache.slots[d])>>
  BY <1>1 DEF Placing
<1>4. Placing(q, F, was)
  BY <1>1, <1>2, <1>3 DEF Placing
<1> QED BY <1>4 DEF q, k, F

(* A hit: the expert is gathered from the slot it is in.                   *)
LEMMA PlacedByHit ==
  ASSUME NEW p, NEW D, NEW was, Placing(p, D, was), NEW e \in Resident(p.cache)
  PROVE  Placing(Parts(Touched(p.cache, e), p.slot_expert, p.upload,
                       p.gather \cup {<<e, SlotOf(p.cache.slots[e])>>}, p.cpu), D \cup {e}, was)
<1> DEFINE c == Touched(p.cache, e)
           G == p.gather \cup {<<e, SlotOf(p.cache.slots[e])>>}
           F == D \cup {e}
           q == Parts(c, p.slot_expert, p.upload, G, p.cpu)
<1>1. Agree(c, p.slot_expert) /\ c.slots = p.cache.slots /\ Resident(c) = Resident(p.cache)
  BY TouchedAgrees DEF Placing, Resident
<1>2. {t[1] : t \in G} \cup p.cpu = F
  <2>1. {t[1] : t \in G} = {t[1] : t \in p.gather} \cup {e}
    BY FirstOf
  <2>2. {t[1] : t \in p.gather} \cup p.cpu = D
    BY DEF Placing
  <2> HIDE DEF G
  <2> QED BY <2>1, <2>2
<1>3. /\ q.cache = c /\ q.slot_expert = p.slot_expert /\ q.upload = p.upload
      /\ q.gather = G /\ q.cpu = p.cpu
      /\ q = [cache |-> q.cache, slot_expert |-> q.slot_expert, upload |-> q.upload,
              gather |-> q.gather, cpu |-> q.cpu]
  BY DEF Parts
<1> HIDE DEF c, q
<1>4. \A t \in G : \E d \in Resident(c) \cap F : t = <<d, SlotOf(c.slots[d])>>
  BY <1>1 DEF Placing
<1> HIDE DEF G
<1>5. \A i \in 1 .. Len(p.upload) :
        \E d \in Resident(c) \cap F : p.upload[i] = <<c.slots[d], d>>
  BY <1>1 DEF Placing
<1> HIDE DEF F
<1>6. Placing(q, F, was)
  BY <1>1, <1>2, <1>3, <1>4, <1>5 DEF Placing
<1> QED BY <1>6 DEF q, c, G, F

(* The cache with room for e: an expert this step does not route to goes   *)
(* if there is none.                                                       *)
LEMMA RoomFacts ==
  ASSUME NEW c, NEW held, Agree(c, held), DOMAIN held = 0 .. cap - 1, cap \in Nat, NEW R,
         Free(c) # {} \/ Evictable(c, R) # {},
         NEW b, b = IF Free(c) # {} THEN c ELSE Without(c, Max(Evictable(c, R)))
  PROVE  /\ Agree(b, held) /\ Free(b) # {} /\ Resident(b) \subseteq Resident(c)
         /\ Resident(c) \cap R \subseteq Resident(b)
         /\ \A e \in Resident(b) : b.slots[e] = c.slots[e]
<1>1. CASE Free(c) # {}
  BY <1>1
<1>2. CASE Free(c) = {}
  <2> DEFINE E == Evictable(c, R)
             m == Max(E)
             d == Without(c, m)
  <2>1. DOMAIN c.recency = 1 .. Len(c.recency) /\ Len(c.recency) \in Nat
    BY DEF Agree
  <2>2. E \subseteq 0 .. Len(c.recency) /\ E # {}
    BY <1>2, <2>1 DEF Evictable
  <2>3. m \in E
    <3> HIDE DEF E
    <3> QED BY <2>1, <2>2, GreatestOf
  <2>4. m \in 1 .. Len(c.recency) /\ c.recency[m] \notin R
    BY <2>1, <2>3 DEF Evictable
  <2>5. b = d
    BY <1>2
  <2> HIDE DEF m, d, E
  <2>6. /\ Agree(d, held) /\ Resident(d) = Resident(c) \ {c.recency[m]}
        /\ \A e \in Resident(d) : d.slots[e] = c.slots[e]
    BY <2>4, WithoutAgrees DEF d
  <2> DEFINE gone == c.recency[m]
  <2>7. gone \in Resident(c)
    BY <2>4 DEF Agree, Entries
  <2> HIDE DEF gone
  <2>8. c.slots[gone] \in Free(d)
    <3>1. c.slots[gone] \in 0 .. cap - 1
      BY <2>7 DEF Agree
    <3>2. \A e \in Resident(d) : e \in Resident(c) /\ e # gone /\ d.slots[e] = c.slots[e]
      BY <2>6 DEF gone
    <3>3. \A e \in Resident(d) : d.slots[e] # c.slots[gone]
      BY <2>7, <3>2, AgreeApart
    <3> QED BY <3>1, <3>3 DEF Free
  <2> QED BY <2>4, <2>5, <2>6, <2>8
<1> QED BY <1>1, <1>2

(* A miss that is given a slot: it is uploaded unless the slot is held to  *)
(* contain it already.                                                     *)
Uploads(u, p, s, e) == u = IF p.slot_expert[s] = e THEN p.upload ELSE Append(p.upload, <<s, e>>)
HeldWith(h, p, s, e)   == h = [p.slot_expert EXCEPT ![s] = e]

(* The uploads, one more or not.                                           *)
LEMMA UploadGrows ==
  ASSUME NEW T, NEW v \in Seq(T), NEW w \in T, NEW u, u = v \/ u = Append(v, w)
  PROVE  /\ u \in Seq(T) /\ Len(v) \in Nat
         /\ \A i \in 1 .. Len(u) : (i \in 1 .. Len(v) /\ u[i] = v[i]) \/ (i = Len(v) + 1 /\ u[i] = w)
         /\ \A i \in 1 .. Len(v) : i \in 1 .. Len(u) /\ u[i] = v[i]
         /\ u = v \/ (Len(u) \in 1 .. Len(u) /\ u[Len(u)] = w)
<1>1. CASE u = v
  BY <1>1
<1>2. CASE u = Append(v, w)
  <2>1. /\ u \in Seq(T) /\ Len(v) \in Nat /\ Len(u) = Len(v) + 1 /\ u[Len(v) + 1] = w
        /\ \A i \in 1 .. Len(v) : u[i] = v[i]
    BY <1>2, AppendFacts
  <2>2. \A i \in 1 .. Len(u) : (i \in 1 .. Len(v) /\ u[i] = v[i]) \/ (i = Len(v) + 1 /\ u[i] = w)
    BY <2>1
  <2>3. \A i \in 1 .. Len(v) : i \in 1 .. Len(u)
    <3> SUFFICES ASSUME NEW i \in 1 .. Len(v) PROVE i \in 1 .. Len(v) + 1
      BY <2>1
    <3> QED BY <2>1
  <2>4. Len(u) \in 1 .. Len(u) /\ u[Len(u)] = w
    BY <2>1
  <2> QED BY <2>1, <2>2, <2>3, <2>4
<1> QED BY <1>1, <1>2

LEMMA SlotOfGiven ==
  ASSUME NEW b, NEW e, NEW n
  PROVE  Given(b, e, n).slots[e] = n
BY DEF Given

LEMMA FreeAreNumbers ==
  ASSUME NEW b, cap \in Nat
  PROVE  Free(b) \subseteq Nat
BY DEF Free

LEMMA PlacedInSlot ==
  ASSUME NEW p, NEW R \in SUBSET Weights, NEW D \in SUBSET R, NEW was, Placing(p, D, was), cap \in Nat,
         NEW e \in R \ D, e \notin Resident(p.cache),
         NEW b, b = IF Free(p.cache) # {} THEN p.cache ELSE Without(p.cache, Max(Evictable(p.cache, R))),
         Free(p.cache) # {} \/ Evictable(p.cache, R) # {},
         NEW put, put = Put(b, e), NEW s, s = put.slots[e],
         NEW h, HeldWith(h, p, s, e), NEW u, Uploads(u, p, s, e)
  PROVE  Placing(Parts(put, h, u, p.gather \cup {<<e, SlotOf(s)>>}, p.cpu), D \cup {e}, was)
<1> DEFINE G == p.gather \cup {<<e, SlotOf(s)>>}
           q == Parts(put, h, u, G, p.cpu)
<1>2. DOMAIN p.slot_expert = 0 .. cap - 1 /\ Agree(p.cache, p.slot_expert)
  BY DEF Placing
<1>3. /\ Agree(b, p.slot_expert) /\ Free(b) # {} /\ Resident(b) \subseteq Resident(p.cache)
      /\ Resident(p.cache) \cap R \subseteq Resident(b)
      /\ \A d \in Resident(b) : b.slots[d] = p.cache.slots[d]
  BY <1>2, RoomFacts
<1>4. put = Given(b, e, Min(Free(b))) /\ e \notin Resident(b)
  BY <1>3 DEF Put
<1>5. Min(Free(b)) \in Free(b)
  <2>1. Free(b) \subseteq Nat
    BY FreeAreNumbers
  <2> QED BY <1>3, <2>1, LeastOf
<1>6. Min(Free(b)) \in 0 .. cap - 1 /\ \A d \in Resident(b) : b.slots[d] # Min(Free(b))
  BY <1>5 DEF Free
<1>7. e \in Weights
  OBVIOUS
<1>8. /\ s = Min(Free(b))
      /\ Agree(put, h) /\ Resident(put) = Resident(b) \cup {e}
      /\ \A d \in Resident(b) : put.slots[d] = b.slots[d]
  <2> DEFINE n == Min(Free(b))
  <2>1. n \in DOMAIN p.slot_expert /\ \A d \in Resident(b) : b.slots[d] # n
    BY <1>2, <1>6
  <2>2. put = Given(b, e, n)
    BY <1>4
  <2> HIDE DEF n
  <2>3. put.slots[e] = n
    <3>1. Given(b, e, n).slots[e] = n
      BY SlotOfGiven
    <3> QED BY <2>2, <3>1, Zenon
  <2>4. Agree(put, [p.slot_expert EXCEPT ![n] = e]) /\ Resident(put) = Resident(b) \cup {e}
      /\ \A d \in Resident(b) : put.slots[d] = b.slots[d]
    BY <1>3, <1>4, <1>7, <2>1, <2>2, GivenAgrees
  <2> QED BY <2>3, <2>4 DEF n, HeldWith
<1>9. /\ s \in 0 .. cap - 1 /\ Agree(put, h) /\ put.slots[e] = s
      /\ \A d \in Resident(p.cache) \cap D : d \in Resident(put) /\ put.slots[d] = p.cache.slots[d]
                                             /\ p.cache.slots[d] # s
  BY <1>3, <1>6, <1>8
<1>10. /\ h \in [0 .. cap - 1 -> Weights \cup {-1}]
       /\ h[s] = e /\ \A a \in 0 .. cap - 1 : a # s => h[a] = p.slot_expert[a]
  BY <1>7, <1>9 DEF Placing, HeldWith
<1>11. e \in Resident(put) \cap (D \cup {e})
  BY <1>8
<1>12. {t[1] : t \in G} \cup p.cpu = D \cup {e}
  <2>1. {t[1] : t \in G} = {t[1] : t \in p.gather} \cup {e}
    BY FirstOf
  <2>2. {t[1] : t \in p.gather} \cup p.cpu = D
    BY DEF Placing
  <2> HIDE DEF G
  <2> QED BY <2>1, <2>2
<1>13. \A t \in G : \E d \in Resident(put) \cap (D \cup {e}) : t = <<d, SlotOf(put.slots[d])>>
  <2> SUFFICES ASSUME NEW t \in G
               PROVE  \E d \in Resident(put) \cap (D \cup {e}) : t = <<d, SlotOf(put.slots[d])>>
    OBVIOUS
  <2>1. CASE t \in p.gather
    <3>1. PICK d \in Resident(p.cache) \cap D : t = <<d, SlotOf(p.cache.slots[d])>>
      BY <2>1 DEF Placing
    <3> QED BY <1>9, <3>1
  <2>2. CASE t = <<e, SlotOf(s)>>
    BY <1>9, <1>11, <2>2
  <2> QED BY <2>1, <2>2
<1> HIDE DEF G
<1>14. /\ u \in Seq((0 .. cap - 1) \X Weights) /\ Len(p.upload) \in Nat
       /\ \A i \in 1 .. Len(u) : (i \in 1 .. Len(p.upload) /\ u[i] = p.upload[i]) \/ (i = Len(p.upload) + 1 /\ u[i] = <<s, e>>)
       /\ \A i \in 1 .. Len(p.upload) : i \in 1 .. Len(u) /\ u[i] = p.upload[i]
       /\ p.slot_expert[s] = e \/ (Len(u) \in 1 .. Len(u) /\ u[Len(u)][1] = s)
  <2> DEFINE w == <<s, e>>
             T == (0 .. cap - 1) \X Weights
             v == p.upload
  <2>1. v \in Seq(T) /\ w \in T
    BY <1>7, <1>9 DEF Placing
  <2>2. u = v \/ u = Append(v, w)
    BY DEF Uploads
  <2>4. p.slot_expert[s] = e \/ u = Append(v, w)
    BY DEF Uploads
  <2>3. w[1] = s
    OBVIOUS
  <2> HIDE DEF w, T
  <2>5. /\ u \in Seq(T) /\ Len(v) \in Nat
        /\ \A i \in 1 .. Len(u) : (i \in 1 .. Len(v) /\ u[i] = v[i]) \/ (i = Len(v) + 1 /\ u[i] = w)
        /\ \A i \in 1 .. Len(v) : i \in 1 .. Len(u) /\ u[i] = v[i]
    BY <2>1, <2>2, UploadGrows
  <2>6. ASSUME u = Append(v, w) PROVE Len(u) \in 1 .. Len(u) /\ u[Len(u)] = w
    <3>1. u # v
      BY <2>1, <2>6
    <3> QED BY <2>1, <2>2, <3>1, UploadGrows
  <2>7. p.slot_expert[s] = e \/ (Len(u) \in 1 .. Len(u) /\ u[Len(u)][1] = s)
    BY <2>3, <2>4, <2>6
  <2> QED BY <2>5, <2>7 DEF w, T
<1>15. \A i \in 1 .. Len(p.upload) :
         \E d \in Resident(p.cache) \cap D : p.upload[i] = <<p.cache.slots[d], d>>
  BY DEF Placing
<1>16. \A i \in 1 .. Len(u) :
         \E d \in Resident(put) \cap (D \cup {e}) : u[i] = <<put.slots[d], d>>
  <2> SUFFICES ASSUME NEW i \in 1 .. Len(u)
               PROVE  \E d \in Resident(put) \cap (D \cup {e}) : u[i] = <<put.slots[d], d>>
    OBVIOUS
  <2>1. CASE i \in 1 .. Len(p.upload) /\ u[i] = p.upload[i]
    BY <1>9, <1>15, <2>1
  <2>2. CASE u[i] = <<s, e>>
    BY <1>9, <1>11, <2>2
  <2> QED BY <1>14, <2>1, <2>2
<1>17. \A i \in 1 .. Len(p.upload) : p.upload[i][1] # s
  BY <1>9, <1>15
<1>18. \A i, j \in 1 .. Len(u) : u[i][1] = u[j][1] => i = j
  <2> SUFFICES ASSUME NEW i \in 1 .. Len(u), NEW j \in 1 .. Len(u), u[i][1] = u[j][1] PROVE i = j
    OBVIOUS
  <2>1. \A k \in 1 .. Len(u) : (k \in 1 .. Len(p.upload) /\ u[k] = p.upload[k]) \/ (k = Len(p.upload) + 1 /\ u[k][1] = s)
    <3> SUFFICES ASSUME NEW k \in 1 .. Len(u)
                 PROVE  \/ k \in 1 .. Len(p.upload) /\ u[k] = p.upload[k]
                        \/ k = Len(p.upload) + 1 /\ u[k][1] = s
      OBVIOUS
    <3>1. \/ k \in 1 .. Len(p.upload) /\ u[k] = p.upload[k]
          \/ k = Len(p.upload) + 1 /\ u[k] = <<s, e>>
      BY <1>14, Zenon
    <3>2. <<s, e>>[1] = s
      OBVIOUS
    <3> QED BY <3>1, <3>2, Zenon
  <2>2. \A k, l \in 1 .. Len(p.upload) : p.upload[k][1] = p.upload[l][1] => k = l
    BY DEF Placing
  <2>3. CASE i \in 1 .. Len(p.upload) /\ u[i] = p.upload[i]
    <3>1. u[j][1] # s
      BY <1>17, <2>3
    <3>2. j \in 1 .. Len(p.upload) /\ u[j] = p.upload[j]
      BY <2>1, <3>1
    <3> QED BY <2>2, <2>3, <3>2
  <2>4. CASE i = Len(p.upload) + 1 /\ u[i][1] = s
    <3>1. j \notin 1 .. Len(p.upload) \/ u[j] # p.upload[j]
      BY <1>17, <2>4
    <3> QED BY <2>1, <2>4, <3>1
  <2> QED BY <2>1, <2>3, <2>4
<1>19. ASSUME NEW a \in 0 .. cap - 1
       PROVE  (\E i \in 1 .. Len(u) : u[i][1] = a) \/ h[a] = was[a]
  <2>1. (\E i \in 1 .. Len(p.upload) : p.upload[i][1] = a) \/ p.slot_expert[a] = was[a]
    BY DEF Placing
  <2>2. CASE \E i \in 1 .. Len(p.upload) : p.upload[i][1] = a
    BY <1>14, <2>2
  <2>3. CASE p.slot_expert[a] = was[a]
    <3>1. CASE a # s
      BY <1>10, <2>3, <3>1
    <3>2. CASE a = s /\ p.slot_expert[s] = e
      BY <1>10, <2>3, <3>2
    <3>3. CASE a = s /\ p.slot_expert[s] # e
      <4>1. Len(u) \in 1 .. Len(u) /\ u[Len(u)][1] = s
        BY <1>14, <3>3
      <4> QED BY <3>3, <4>1
    <3> QED BY <3>1, <3>2, <3>3
  <2> QED BY <2>1, <2>2, <2>3
<1>20. Placing(q, D \cup {e}, was)
  <2>1. /\ q.cache = put /\ q.slot_expert = h /\ q.upload = u
        /\ q.gather = G /\ q.cpu = p.cpu
    BY DEF Parts
  <2>2. q = [cache |-> q.cache, slot_expert |-> q.slot_expert, upload |-> q.upload,
             gather |-> q.gather, cpu |-> q.cpu]
    BY DEF Parts
  <2> HIDE DEF q
  <2> DEFINE F == D \cup {e}
  <2>3. /\ \A t \in G : \E d \in Resident(put) \cap F : t = <<d, SlotOf(put.slots[d])>>
        /\ {t[1] : t \in G} \cup p.cpu = F
        /\ \A i \in 1 .. Len(u) : \E d \in Resident(put) \cap F : u[i] = <<put.slots[d], d>>
    BY <1>12, <1>13, <1>16
  <2> HIDE DEF F
  <2>5. u \in Seq((0 .. cap - 1) \X Weights)
    BY <1>14
  <2>6. Agree(q.cache, q.slot_expert) /\ q.slot_expert \in [0 .. cap - 1 -> Weights \cup {-1}]
        /\ q.upload \in Seq((0 .. cap - 1) \X Weights)
    BY <1>9, <1>10, <2>1, <2>5
  <2>7. \A i \in 1 .. Len(q.upload) :
           \E d \in Resident(q.cache) \cap F : q.upload[i] = <<q.cache.slots[d], d>>
    BY <2>1, <2>3
  <2>8. \A i, j \in 1 .. Len(q.upload) : q.upload[i][1] = q.upload[j][1] => i = j
    BY <1>18, <2>1
  <2>9. \A t \in q.gather : \E d \in Resident(q.cache) \cap F : t = <<d, SlotOf(q.cache.slots[d])>>
    BY <2>1, <2>3
  <2>10. {t[1] : t \in q.gather} \cup q.cpu = F
    BY <2>1, <2>3
  <2>11. \A a \in 0 .. cap - 1 : \/ \E i \in 1 .. Len(q.upload) : q.upload[i][1] = a
                                 \/ q.slot_expert[a] = was[a]
    BY <1>19, <2>1
  <2>4. Placing(q, F, was)
    BY <2>2, <2>6, <2>7, <2>8, <2>9, <2>10, <2>11, Zenon DEF Placing
  <2> QED BY <2>4 DEF F
<1> QED BY <1>20 DEF q, G

LEMMA PlaceOneKeeps ==
  ASSUME NEW p, NEW R \in SUBSET Weights, NEW D \in SUBSET R, NEW was, Placing(p, D, was), cap \in Nat,
         NEW e \in R \ D, NEW cheap \in BOOLEAN
  PROVE  Placing(PlaceOne(p, e, R, cheap), D \cup {e}, was)
<1> DEFINE room == Free(p.cache) # {} \/ Evictable(p.cache, R) # {}
           b    == IF Free(p.cache) # {} THEN p.cache ELSE Without(p.cache, Max(Evictable(p.cache, R)))
           put  == Put(b, e)
           s    == put.slots[e]
           h == [p.slot_expert EXCEPT ![s] = e]
           u == IF p.slot_expert[s] = e THEN p.upload ELSE Append(p.upload, <<s, e>>)
<1>0. p = Parts(p.cache, p.slot_expert, p.upload, p.gather, p.cpu)
  BY PartsFacts
<1>1. CASE e \in Resident(p.cache)
  <2>1. PlaceOne(p, e, R, cheap) = Parts(Touched(p.cache, e), p.slot_expert, p.upload,
                                         p.gather \cup {<<e, SlotOf(p.cache.slots[e])>>}, p.cpu)
    BY <1>0, <1>1 DEF PlaceOne, SlotOf, Parts
  <2>2. Placing(Parts(Touched(p.cache, e), p.slot_expert, p.upload,
                      p.gather \cup {<<e, SlotOf(p.cache.slots[e])>>}, p.cpu), D \cup {e}, was)
    BY <1>1, PlacedByHit
  <2> QED BY <2>1, <2>2, Zenon
<1>2. CASE e \notin Resident(p.cache) /\ (cheap \/ ~room)
  <2>1. PlaceOne(p, e, R, cheap) = Parts(p.cache, p.slot_expert, p.upload, p.gather, p.cpu \cup {e})
    BY <1>0, <1>2 DEF PlaceOne, Parts
  <2>2. Placing(Parts(p.cache, p.slot_expert, p.upload, p.gather, p.cpu \cup {e}), D \cup {e}, was)
    BY PlacedOnHost
  <2> QED BY <2>1, <2>2, Zenon
<1>3. CASE e \notin Resident(p.cache) /\ ~cheap /\ room
  <2>1. PlaceOne(p, e, R, cheap) = Parts(put, h, u, p.gather \cup {<<e, SlotOf(s)>>}, p.cpu)
    BY <1>0, <1>3 DEF PlaceOne, SlotOf, Parts
  <2> HIDE DEF b, put, s, h, u
  <2>2. /\ b = IF Free(p.cache) # {} THEN p.cache ELSE Without(p.cache, Max(Evictable(p.cache, R)))
        /\ put = Put(b, e) /\ s = put.slots[e]
        /\ HeldWith(h, p, s, e) /\ Uploads(u, p, s, e)
    BY DEF b, put, s, h, u, HeldWith, Uploads
  <2>3. Placing(Parts(put, h, u, p.gather \cup {<<e, SlotOf(s)>>}, p.cpu), D \cup {e}, was)
    BY <1>3, <2>2, PlacedInSlot
  <2> QED BY <2>1, <2>3, Zenon
<1> QED BY <1>1, <1>2, <1>3

(* The states of moe_slot_place between the experts.                       *)
Filling(ids, cheap, n, f) ==
  f = [k \in 0 .. n |-> IF k = 0 THEN NonePlaced ELSE PlaceOne(f[k - 1], ids[k], ToSet(ids), cheap)]

(* Induction over 0 .. n by sets: one that holds 0 and each successor.     *)
LEMMA UpTo ==
  ASSUME NEW n \in Nat, NEW S, 0 \in S,
         \A i \in 0 .. n - 1 : i \in S => i + 1 \in S
  PROVE  0 .. n \subseteq S
<1> DEFINE bad == (0 .. n) \ S
<1> SUFFICES ASSUME bad # {} PROVE FALSE
  OBVIOUS
<1>1. bad \in SUBSET Nat
  OBVIOUS
<1>2. PICK m \in bad : \A k \in bad : m <= k
  BY <1>1, LeastOf
<1>3. m \in 0 .. n /\ m \notin S /\ m # 0
  BY <1>2
<1>4. m - 1 \in 0 .. n - 1 /\ (m - 1) + 1 = m /\ m - 1 \in 0 .. n
  BY <1>3
<1>5. m - 1 \notin bad
  BY <1>2, <1>3, <1>4
<1> QED BY <1>3, <1>4, <1>5

LEMMA FillingExists ==
  ASSUME NEW ids, NEW cheap, NEW n \in Nat
  PROVE  \E f : Filling(ids, cheap, n, f)
<1> DEFINE good == {i \in 0 .. n : \E f : Filling(ids, cheap, i, f)}
           F(p, k) == PlaceOne(p, ids[k], ToSet(ids), cheap)
<1>1. 0 \in good
  <2> DEFINE f == [k \in 0 .. 0 |-> NonePlaced]
  <2>1. f = [k \in 0 .. 0 |-> IF k = 0 THEN NonePlaced ELSE F(f[k - 1], k)]
    <3> HIDE DEF F
    <3> SUFFICES \A k \in 0 .. 0 : NonePlaced = IF k = 0 THEN NonePlaced ELSE F(f[k - 1], k)
      OBVIOUS
    <3>1. \A k \in 0 .. 0 : k = 0
      OBVIOUS
    <3> QED BY <3>1
  <2> HIDE DEF f
  <2>2. Filling(ids, cheap, 0, f)
    BY <2>1, Zenon DEF Filling
  <2> QED BY <2>2
<1>2. ASSUME NEW m \in 0 .. n - 1, m \in good PROVE m + 1 \in good
  <2>1. PICK g : Filling(ids, cheap, m, g)
    BY <1>2
  <2>2. g = [k \in 0 .. m |-> IF k = 0 THEN NonePlaced ELSE F(g[k - 1], k)]
    BY <2>1, Zenon DEF Filling
  <2> DEFINE h == [k \in 0 .. m + 1 |-> IF k = m + 1 THEN F(g[m], m + 1) ELSE g[k]]
  <2> HIDE DEF F
  <2>3. h = [k \in 0 .. m + 1 |-> IF k = 0 THEN NonePlaced ELSE F(h[k - 1], k)]
    <3> SUFFICES ASSUME NEW k \in 0 .. m + 1
                 PROVE  h[k] = IF k = 0 THEN NonePlaced ELSE F(h[k - 1], k)
      OBVIOUS
    <3>1. CASE k = m + 1
      <4>1. k # 0 /\ k - 1 = m /\ m \in 0 .. m + 1 /\ m # m + 1
        BY <3>1
      <4>2. h[k] = F(g[m], m + 1) /\ h[m] = g[m]
        BY <3>1, <4>1
      <4> QED BY <3>1, <4>1, <4>2
    <3>2. CASE k # m + 1
      <4>1. k \in 0 .. m /\ (k # 0 => k - 1 \in 0 .. m /\ k - 1 # m + 1 /\ k - 1 \in 0 .. m + 1)
        BY <3>2
      <4>2. g[k] = IF k = 0 THEN NonePlaced ELSE F(g[k - 1], k)
        BY <2>2, <4>1
      <4>3. h[k] = g[k] /\ (k # 0 => h[k - 1] = g[k - 1])
        BY <3>2, <4>1
      <4> QED BY <4>2, <4>3
    <3> QED BY <3>1, <3>2
  <2> HIDE DEF h
  <2> USE DEF F
  <2>4. Filling(ids, cheap, m + 1, h)
    BY <2>3, Zenon DEF Filling
  <2> HIDE DEF F
  <2> QED BY <2>4
<1> HIDE DEF good
<1>3. 0 .. n \subseteq good
  BY <1>1, <1>2, UpTo
<1>4. n \in good
  BY <1>3
<1> QED BY <1>4 DEF good

(* moe_slot_place, when the cache and slot_expert agree.                   *)
LEMMA PlacedFacts ==
  ASSUME Agree(cache, slot_expert), slot_expert \in [0 .. cap - 1 -> Weights \cup {-1}], cap \in Nat,
         NEW ids \in Seq(Weights), Apart(ids), NEW cheap \in BOOLEAN
  PROVE  Placing(Placed(ids, cheap), ToSet(ids), slot_expert)
<1> DEFINE n == Len(ids)
           R == ToSet(ids)
           D(k) == {ids[i] : i \in 1 .. k}
           f == CHOOSE f : Filling(ids, cheap, n, f)
<1>1. n \in Nat /\ R = D(n) /\ R \subseteq Weights
  BY DEF ToSet
<1>2. Filling(ids, cheap, n, f)
  <2> HIDE DEF f, n
  <2>1. \E g : Filling(ids, cheap, n, g)
    BY <1>1, FillingExists
  <2> QED BY <2>1 DEF f
<1>3. Placed(ids, cheap) = f[n]
  BY Zenon DEF Placed, Filling
<1> HIDE DEF f
<1>4. f = [k \in 0 .. n |-> IF k = 0 THEN NonePlaced ELSE PlaceOne(f[k - 1], ids[k], R, cheap)]
  BY <1>2, Zenon DEF Filling
<1>5. f[0] = NonePlaced /\ \A k \in 0 .. n - 1 : f[k + 1] = PlaceOne(f[k], ids[k + 1], R, cheap)
  <2>1. f[0] = NonePlaced
    BY <1>1, <1>4
  <2>2. ASSUME NEW k \in 0 .. n - 1 PROVE f[k + 1] = PlaceOne(f[k], ids[k + 1], R, cheap)
    <3>1. k + 1 \in 0 .. n /\ k + 1 # 0 /\ (k + 1) - 1 = k
      BY <1>1
    <3> HIDE DEF n, R
    <3> QED BY <1>4, <3>1
  <2> QED BY <2>1, <2>2
<1> DEFINE good == {k \in 0 .. n : Placing(f[k], D(k), slot_expert)}
<1>6. 0 \in good
  <2>1. Placing(NonePlaced, {}, slot_expert)
    <3>1. /\ NonePlaced.cache = cache /\ NonePlaced.slot_expert = slot_expert
          /\ NonePlaced.upload = <<>> /\ NonePlaced.gather = {} /\ NonePlaced.cpu = {}
          /\ NonePlaced = [cache |-> NonePlaced.cache, slot_expert |-> NonePlaced.slot_expert,
                           upload |-> NonePlaced.upload, gather |-> NonePlaced.gather,
                           cpu |-> NonePlaced.cpu]
      BY DEF NonePlaced
    <3>2. <<>> \in Seq((0 .. cap - 1) \X Weights) /\ 1 .. Len(<<>>) = {}
      OBVIOUS
    <3> QED BY <3>1, <3>2 DEF Placing
  <2>2. D(0) = {}
    OBVIOUS
  <2> HIDE DEF D
  <2>3. Placing(f[0], D(0), slot_expert)
    BY <1>5, <2>1, <2>2, Zenon
  <2>4. 0 \in 0 .. n
    BY <1>1
  <2> QED BY <2>3, <2>4, Zenon
<1>7. ASSUME NEW k \in 0 .. n - 1, k \in good PROVE k + 1 \in good
  <2> DEFINE e == ids[k + 1]
  <2>1. k + 1 \in 1 .. n /\ k + 1 \in 0 .. n /\ \A i \in 1 .. k : i \in 1 .. n /\ i # k + 1
    BY <1>1
  <2>2. D(k) \subseteq R /\ e \in R
    BY <1>1, <2>1
  <2>3. e \notin D(k)
    BY <2>1 DEF Apart
  <2>4. D(k + 1) = D(k) \cup {e}
    <3>1. \A i : i \in 1 .. k + 1 <=> i \in 1 .. k \/ i = k + 1
      BY <1>1
    <3> QED BY <3>1
  <2>5. Placing(f[k], D(k), slot_expert)
    BY <1>7
  <2> DEFINE E == D(k)
             G == D(k + 1)
             p == f[k]
  <2>6. f[k + 1] = PlaceOne(p, e, R, cheap)
    BY <1>5
  <2>7. G = E \cup {e} /\ E \subseteq R /\ e \in R \ E /\ R \subseteq Weights /\ Placing(p, E, slot_expert)
    BY <1>1, <2>2, <2>3, <2>4, <2>5
  <2> HIDE DEF e, E, G, R, p
  <2>8. Placing(f[k + 1], G, slot_expert)
    <3>1. Placing(PlaceOne(p, e, R, cheap), E \cup {e}, slot_expert)
      BY <2>7, PlaceOneKeeps
    <3> QED BY <2>6, <2>7, <3>1, Zenon
  <2> QED BY <2>1, <2>8 DEF G
<1> HIDE DEF good, n
<1>8. 0 .. n \subseteq good
  BY <1>1, <1>6, <1>7, UpTo
<1>9. Placing(f[n], D(n), slot_expert)
  <2>1. n \in good
    BY <1>1, <1>8
  <2> HIDE DEF D
  <2> QED BY <2>1, Zenon DEF good
<1> QED BY <1>1, <1>3, <1>9, Zenon

(***************************************************************************)
(* The bounded path: the invariant                                         *)
(***************************************************************************)

(* The host's place in forward_moe_slots.  Between forwards q names the    *)
(* one whose output may be queued; it is 0, and W only what is gathered,   *)
(* when the last one to gather has failed.                                 *)
Between(st) == st.stage \in {"idle", "routing"}

NoLast == [f |-> 0, W |-> {}, M |-> {}]

LastOf(q, st, w, m) ==
  Between(st) =>
    /\ q.f \in 0 .. Len(w) /\ q.W \subseteq Weights /\ q.M \subseteq Weights
    /\ st.stage = "routing" => q.f < Len(w)
    /\ q.f # 0 => q.W = w[q.f] /\ q.M = m[q.f]

ViewOf(st, w, m, held, off, q) ==
  [stage   |-> st.stage,
   f       |-> IF Between(st) THEN q.f ELSE Len(w),
   W       |-> IF Between(st) THEN q.W ELSE w[Len(w)],
   M       |-> IF Between(st) THEN q.M ELSE m[Len(w)],
   H       |-> IF st.stage = "fallback" THEN st.cpu ELSE {},
   held    |-> held,
   pending |-> IF st.stage = "upload" THEN {st.upload[i][1] : i \in 1 .. Len(st.upload)} ELSE {},
   stale   |-> off,
   ended   |-> IF st.stage = "idle" THEN Len(w) ELSE Len(w) - 1,
   wanted  |-> w, misread |-> m]

(* The LRU index, slot_expert and the ghosts.                              *)
BookOf(n, c, held, w, m) ==
  /\ n \in 1 .. Cardinality(Slots)
  /\ held \in [0 .. n - 1 -> Weights \cup {-1}]
  /\ Agree(c, held)
  /\ w \in Seq(SUBSET Weights) /\ m \in Seq(SUBSET Weights)
  /\ Len(w) = Len(m) /\ Len(w) <= MaxForwards

(* What a step has left to upload, to gather and to compute on the host.   *)
UploadOf(st, held, W) ==
  /\ st = [stage |-> "upload", upload |-> st.upload, gather |-> st.gather, cpu |-> st.cpu]
  /\ st.upload \in Seq((DOMAIN held) \X Weights)
  /\ \A i \in 1 .. Len(st.upload) : held[st.upload[i][1]] = st.upload[i][2]
  /\ \A i, j \in 1 .. Len(st.upload) : st.upload[i][1] = st.upload[j][1] => i = j
  /\ \A t \in st.gather : \E s \in DOMAIN held : t = <<held[s], SlotOf(s)>> /\ held[s] \in Weights
  /\ {t[1] : t \in st.gather} \cup st.cpu = W

StepOf(st, held, w, m) ==
  /\ st.stage \in {"idle", "routing", "upload", "fallback", "output"}
  /\ st.stage # "idle" => Len(w) > 0
  /\ st.stage = "routing" => /\ st.ids \in Seq(Weights) /\ Apart(st.ids)
                             /\ ToSet(st.ids) = w[Len(w)] /\ m[Len(w)] = {}
  /\ st.stage = "upload" => UploadOf(st, held, w[Len(w)]) /\ m[Len(w)] = {}
  /\ st.stage = "fallback" => st.cpu \subseteq Weights

Viewed(q) ==
  /\ LastOf(q, step, wanted, misread)
  /\ SlotsBase(gpu, ViewOf(step, wanted, misread, slot_expert, stale, q))

SlotsInv ==
  /\ Typed(gpu)
  /\ BookOf(cap, cache, slot_expert, wanted, misread)
  /\ StepOf(step, slot_expert, wanted, misread)
  /\ \E q : Viewed(q)

IsView(v, st, w, m, held, off, q) ==
  /\ v.stage = st.stage /\ v.held = held /\ v.stale = off
  /\ v.f = IF Between(st) THEN q.f ELSE Len(w)
  /\ v.ended = IF st.stage = "idle" THEN Len(w) ELSE Len(w) - 1
  /\ v.W = IF Between(st) THEN q.W ELSE w[Len(w)]
  /\ v.M = IF Between(st) THEN q.M ELSE m[Len(w)]
  /\ v.wanted = w /\ v.misread = m
  /\ v.H = IF st.stage = "fallback" THEN st.cpu ELSE {}
  /\ v.pending = IF st.stage = "upload" THEN {st.upload[i][1] : i \in 1 .. Len(st.upload)} ELSE {}

LEMMA ViewParts ==
  ASSUME NEW st, NEW w, NEW m, NEW held, NEW off, NEW q
  PROVE  IsView(ViewOf(st, w, m, held, off, q), st, w, m, held, off, q)
BY DEF ViewOf, IsView

LEMMA ViewIsOk ==
  ASSUME NEW n, NEW c, NEW held, NEW w, NEW m, NEW st, NEW off, NEW q,
         BookOf(n, c, held, w, m), StepOf(st, held, w, m), LastOf(q, st, w, m)
  PROVE  ViewOk(ViewOf(st, w, m, held, off, q))
<1> DEFINE v == ViewOf(st, w, m, held, off, q)
<1>0. IsView(v, st, w, m, held, off, q)
  BY ViewParts
<1> HIDE DEF v
<1>1. /\ v.stage = st.stage /\ v.held = held /\ v.stale = off
      /\ v.f = (IF Between(st) THEN q.f ELSE Len(w))
      /\ v.ended = (IF st.stage = "idle" THEN Len(w) ELSE Len(w) - 1)
      /\ v.W = (IF Between(st) THEN q.W ELSE w[Len(w)])
      /\ v.M = (IF Between(st) THEN q.M ELSE m[Len(w)])
      /\ v.wanted = w /\ v.misread = m
      /\ v.H = (IF st.stage = "fallback" THEN st.cpu ELSE {})
  BY <1>0 DEF IsView
<1>2. /\ Len(w) \in Nat /\ Len(w) <= MaxForwards /\ MaxForwards \in Nat
      /\ st.stage # "idle" => Len(w) \in 1 .. Len(w)
      /\ w \in Seq(SUBSET Weights) /\ m \in Seq(SUBSET Weights) /\ Len(m) = Len(w)
  BY Numbers DEF BookOf, StepOf
<1>3. v.f \in 0 .. MaxForwards /\ v.ended \in Nat
      /\ (v.stage \in {"idle", "routing"} => v.f <= v.ended)
  BY <1>1, <1>2 DEF LastOf, Between
<1>4. /\ v.W \subseteq Weights /\ v.M \subseteq Weights
      /\ v.f # 0 => v.W = v.wanted[v.f] /\ v.M = v.misread[v.f]
  <2>1. CASE Between(st)
    BY <1>1, <2>1 DEF LastOf
  <2>2. CASE ~Between(st)
    <3>1. w[Len(w)] \in SUBSET Weights /\ m[Len(w)] \in SUBSET Weights
      <4> DEFINE S == SUBSET Weights
      <4>1. w \in Seq(S) /\ m \in Seq(S) /\ Len(w) \in 1 .. Len(w) /\ Len(m) = Len(w)
        BY <1>2, <2>2 DEF Between
      <4> HIDE DEF S
      <4>2. w[Len(w)] \in S /\ m[Len(w)] \in S
        BY <4>1
      <4> QED BY <4>2 DEF S
    <3> QED BY <1>1, <2>2, <3>1
  <2> QED BY <2>1, <2>2
<1>5. DOMAIN held \subseteq Slots /\ \A s \in DOMAIN held : held[s] \in Weights \cup {-1}
  <2>1. n \in 1 .. Cardinality(Slots) /\ Cardinality(Slots) \in Nat /\ Slots = 0 .. Cardinality(Slots) - 1
    BY Numbers DEF BookOf
  <2>2. 0 .. n - 1 \subseteq Slots
    <3> DEFINE k == Cardinality(Slots)
    <3> HIDE DEF k
    <3>1. n \in 1 .. k /\ k \in Nat /\ Slots = 0 .. k - 1
      BY <2>1 DEF k
    <3> QED BY <3>1
  <2> QED BY <2>2 DEF BookOf
<1> QED BY <1>1, <1>3, <1>4, <1>5 DEF ViewOk, StepOf, v

(* Nothing is queued on the compute stream.                                *)
LEMMA ComputeEmpty ==
  ASSUME NEW g, NEW v, g.queue["compute"] = <<>>, g.seen["compute"] = <<>>, Drained(g, v)
  PROVE  OnCompute(g, v)
<1>1. Len(<<>>) = 0
  OBVIOUS
<1>2. Numbered(g, <<>>) /\ EndsAs(<<>>, v)
  BY <1>1 DEF Numbered, EndsAs
<1> QED BY <1>1, <1>2 DEF OnCompute

LEMMA UploadingNone == Uploading(<<>>) = {}
<1>1. Len(<<>>) = 0
  OBVIOUS
<1> QED BY <1>1 DEF Uploading

LEMMA NoWaits == OnlyWaits(<<>>)
<1>1. Len(<<>>) = 0
  OBVIOUS
<1> QED BY <1>1 DEF OnlyWaits

LEMMA SlotsAre ==
  ASSUME NEW q, Typed(gpu'), BookOf(cap', cache', slot_expert', wanted', misread'),
         StepOf(step', slot_expert', wanted', misread'), LastOf(q, step', wanted', misread'),
         SlotsBase(gpu', ViewOf(step', wanted', misread', slot_expert', stale', q))
  PROVE  SlotsInv'
BY DEF SlotsInv, Viewed

LEMMA SlotsStart ==
  ASSUME StreamsInit, SlotsInit
  PROVE  SlotsInv
<1> DEFINE v == ViewOf(step, wanted, misread, slot_expert, stale, NoLast)
<1>1. Typed(gpu)
  BY DEF StreamsInit, Typed
<1>2. /\ gpu.queue["compute"] = <<>> /\ gpu.queue["side"] = <<>> /\ gpu.queue["null"] = <<>>
      /\ gpu.seen["compute"] = <<>> /\ gpu.seen["side"] = <<>> /\ gpu.seen["null"] = <<>>
  BY DEF StreamsInit, Streams
<1>3. /\ step.stage = "idle" /\ wanted = <<>> /\ misread = <<>> /\ Len(<<>>) = 0
      /\ cap \in 1 .. Cardinality(Slots) /\ slot_expert = [s \in 0 .. cap - 1 |-> -1]
      /\ cache = [recency |-> <<>>, slots |-> <<>>]
  BY DEF SlotsInit, Idle
<1>4. BookOf(cap, cache, slot_expert, wanted, misread)
  <2>1. Agree(cache, slot_expert)
    <3>1. cache.recency = <<>> /\ cache.slots = <<>> /\ DOMAIN <<>> = {} /\ <<>> \in Seq(Weights)
      BY <1>3
    <3>2. Resident(cache) = {} /\ Entries(cache.recency) = {} /\ Apart(cache.recency)
      BY <1>3, <3>1 DEF Resident, Entries, Apart
    <3> QED BY <1>3, <3>1, <3>2 DEF Agree
  <2>2. MaxForwards \in Nat
    BY Numbers
  <2> QED BY <1>3, <2>1, <2>2 DEF BookOf
<1>5. StepOf(step, slot_expert, wanted, misread)
  BY <1>3 DEF StepOf
<1>0. IsView(v, step, wanted, misread, slot_expert, stale, NoLast)
  BY ViewParts
<1> HIDE DEF v
<1>6. v.stage = "idle" /\ v.held = slot_expert
  BY <1>0, <1>3 DEF IsView
<1>7. OnCompute(gpu, v)
  BY <1>2, <1>6, ComputeEmpty DEF Drained
<1>8. OnSide(gpu, v) /\ OnNull(gpu, v)
  BY <1>2, <1>6, NoWaits DEF OnSide, OnNull
<1>9. SlotsHold(gpu, v)
  BY <1>3, <1>6 DEF SlotsHold
<1>10. Stored(gpu, v)
  <2>1. \A k \in Weights : gpu.memory[<<"staged", k>>] = {<<k, k>>}
    BY BufferFacts DEF StreamsInit, Buffers
  <2>2. gpu.memory[embed] = Residual
    BY BufferFacts DEF StreamsInit, embed
  <2>3. \A f \in 1 .. MaxForwards : gpu.memory[<<"out", f>>] = Torn
    BY BufferFacts DEF StreamsInit, Buffers
  <2> QED BY <2>1, <2>2, <2>3 DEF Stored
<1>11. LastOf(NoLast, step, wanted, misread)
  BY <1>3 DEF LastOf, NoLast
<1>12. SlotsBase(gpu, v)
  BY <1>7, <1>8, <1>9, <1>10 DEF SlotsBase
<1>13. Viewed(NoLast)
  BY <1>11, <1>12 DEF Viewed, v
<1> QED BY <1>1, <1>4, <1>5, <1>13 DEF SlotsInv

(* The device, whose steps leave the host's place.                         *)
LEMMA SlotsOnDevice ==
  ASSUME SlotsInv, Device, UNCHANGED slotVars
  PROVE  SlotsInv'
<1>0. PICK q : Viewed(q)
  BY DEF SlotsInv
<1> DEFINE v == ViewOf(step, wanted, misread, slot_expert, stale, q)
<1>1. ViewOk(v)
  BY <1>0, ViewIsOk DEF SlotsInv, Viewed
<1>2. Typed(gpu) /\ SlotsBase(gpu, v) /\ LastOf(q, step, wanted, misread)
  BY <1>0 DEF SlotsInv, Viewed
<1> HIDE DEF v
<1>3. Typed(gpu') /\ SlotsBase(gpu', v)
  BY <1>1, <1>2, SlotDevice
<1>4. /\ cap' = cap /\ cache' = cache /\ slot_expert' = slot_expert /\ step' = step
      /\ wanted' = wanted /\ stale' = stale /\ misread' = misread
  BY DEF slotVars
<1>5. SlotsBase(gpu', ViewOf(step', wanted', misread', slot_expert', stale', q))
  BY <1>3, <1>4 DEF v
<1>6. BookOf(cap', cache', slot_expert', wanted', misread') /\ StepOf(step', slot_expert', wanted', misread')
      /\ LastOf(q, step', wanted', misread')
  BY <1>2, <1>4 DEF SlotsInv
<1> QED BY <1>3, <1>5, <1>6, SlotsAre

(***************************************************************************)
(* The bounded path: the host                                              *)
(***************************************************************************)

(* The streams as a stage in which nothing is left of the last forward.    *)
LEMMA UploadStreams ==
  ASSUME NEW v, OnCompute(gpu, v), OnSide(gpu, v), v.stage = "upload"
  PROVE  /\ gpu.queue["compute"] = <<>> /\ gpu.queue["side"] = <<>> /\ gpu.memory[x] = Residual
         /\ gpu.seen["compute"] = <<>> /\ gpu.seen["side"] = <<>>
BY DEF OnCompute, OnSide, EndsAs, Drained

(* What Placing means for the upload stage.                                *)
LEMMA PlacedUploads ==
  ASSUME NEW p, NEW D, NEW was, Placing(p, D, was), NEW st,
         st = [stage |-> "upload", upload |-> p.upload, gather |-> p.gather, cpu |-> p.cpu]
  PROVE  UploadOf(st, p.slot_expert, D)
<1>1. \A e \in Resident(p.cache) : /\ e \in Weights /\ p.cache.slots[e] \in DOMAIN p.slot_expert
                                   /\ p.slot_expert[p.cache.slots[e]] = e
  <2>1. Resident(p.cache) \subseteq Weights
    BY DEF Placing, Agree, Entries
  <2> QED BY <2>1 DEF Placing, Agree
<1>2. st.upload = p.upload /\ st.gather = p.gather /\ st.cpu = p.cpu
  OBVIOUS
<1>3. DOMAIN p.slot_expert = 0 .. cap - 1
  BY DEF Placing
<1>4. \A i \in 1 .. Len(p.upload) : p.slot_expert[p.upload[i][1]] = p.upload[i][2]
  <2> TAKE i \in 1 .. Len(p.upload)
  <2>1. PICK e \in Resident(p.cache) : p.upload[i] = <<p.cache.slots[e], e>>
    BY DEF Placing
  <2> QED BY <1>1, <2>1
<1>5. \A t \in p.gather : \E s \in DOMAIN p.slot_expert :
        t = <<p.slot_expert[s], SlotOf(s)>> /\ p.slot_expert[s] \in Weights
  <2> TAKE t \in p.gather
  <2>1. PICK e \in Resident(p.cache) : t = <<e, SlotOf(p.cache.slots[e])>>
    BY DEF Placing
  <2>2. /\ p.cache.slots[e] \in DOMAIN p.slot_expert /\ p.slot_expert[p.cache.slots[e]] = e
        /\ e \in Weights
    BY <1>1
  <2> QED BY <2>1, <2>2
<1>6. p.upload \in Seq((0 .. cap - 1) \X Weights)
      /\ (\A i, j \in 1 .. Len(p.upload) : p.upload[i][1] = p.upload[j][1] => i = j)
      /\ {t[1] : t \in p.gather} \cup p.cpu = D
  BY DEF Placing
<1> QED BY <1>2, <1>3, <1>4, <1>5, <1>6 DEF UploadOf

LEMMA SlotsPlace ==
  ASSUME SlotsInv, Place
  PROVE  SlotsInv'
<1>q. PICK q : Viewed(q)
  BY DEF SlotsInv
<1> DEFINE v == ViewOf(step, wanted, misread, slot_expert, stale, q)
           u == ViewOf(step', wanted', misread', slot_expert', stale', q)
           n == Len(wanted)
<1>1. /\ BookOf(cap, cache, slot_expert, wanted, misread) /\ StepOf(step, slot_expert, wanted, misread)
      /\ Typed(gpu) /\ SlotsBase(gpu, v)
  BY <1>q DEF SlotsInv, Viewed
<1>2. PICK cheap \in BOOLEAN :
        /\ cache' = Placed(step.ids, cheap).cache /\ slot_expert' = Placed(step.ids, cheap).slot_expert
        /\ step' = [stage |-> "upload", upload |-> Placed(step.ids, cheap).upload,
                    gather |-> Placed(step.ids, cheap).gather, cpu |-> Placed(step.ids, cheap).cpu]
  BY DEF Place
<1>3. /\ step.stage = "routing" /\ gpu.queue["side"] = <<>>
      /\ gpu' = gpu /\ cap' = cap /\ wanted' = wanted /\ stale' = stale /\ misread' = misread
  BY DEF Place, Synchronized
<1> DEFINE p == Placed(step.ids, cheap)
<1>4. cache' = p.cache /\ slot_expert' = p.slot_expert
      /\ step' = [stage |-> "upload", upload |-> p.upload, gather |-> p.gather, cpu |-> p.cpu]
  BY <1>2
<1>5. /\ step.ids \in Seq(Weights) /\ Apart(step.ids) /\ n > 0
      /\ ToSet(step.ids) = wanted[n] /\ misread[n] = {}
  BY <1>1, <1>3 DEF StepOf
<1>6. Placing(p, wanted[n], slot_expert)
  <2>1. cap \in Nat /\ Agree(cache, slot_expert) /\ slot_expert \in [0 .. cap - 1 -> Weights \cup {-1}]
    BY <1>1 DEF BookOf
  <2>2. Placing(Placed(step.ids, cheap), ToSet(step.ids), slot_expert)
    BY <1>5, <2>1, PlacedFacts
  <2> QED BY <1>5, <2>2
<1> HIDE DEF p
<1>7. BookOf(cap', cache', slot_expert', wanted', misread')
  BY <1>1, <1>3, <1>4, <1>6 DEF BookOf, Placing
<1>8. UploadOf(step', slot_expert', wanted[n])
  <2> DEFINE st == step'
  <2>1. st = [stage |-> "upload", upload |-> p.upload, gather |-> p.gather, cpu |-> p.cpu]
    BY <1>4
  <2> HIDE DEF st
  <2>2. UploadOf(st, p.slot_expert, wanted[n])
    BY <1>6, <2>1, PlacedUploads
  <2> QED BY <1>4, <2>2, Zenon DEF st
<1>9. step'.stage = "upload" /\ step'.upload = p.upload
  BY <1>4
<1>10. StepOf(step', slot_expert', wanted', misread')
  BY <1>3, <1>5, <1>8, <1>9 DEF StepOf
<1>11. IsView(v, step, wanted, misread, slot_expert, stale, q)
       /\ IsView(u, step', wanted', misread', slot_expert', stale', q)
  BY ViewParts
<1> HIDE DEF u, v
<1>12. /\ v.stage = "routing" /\ v.held = slot_expert /\ v.stale = stale /\ v.pending = {}
       /\ v.ended = n - 1 /\ v.wanted = wanted /\ v.misread = misread
  BY <1>3, <1>11 DEF IsView
<1>13. /\ u.stage = "upload" /\ u.held = p.slot_expert /\ u.stale = stale
       /\ u.pending = {p.upload[i][1] : i \in 1 .. Len(p.upload)}
       /\ u.ended = n - 1 /\ u.wanted = wanted /\ u.misread = misread
  BY <1>3, <1>4, <1>9, <1>11 DEF IsView
<1>14. OnCompute(gpu, v) /\ OnSide(gpu, v) /\ OnNull(gpu, v) /\ SlotsHold(gpu, v) /\ Stored(gpu, v)
  BY <1>1 DEF SlotsBase
<1>15. gpu.queue["compute"] = <<>> /\ gpu.seen["compute"] = <<>> /\ gpu.memory[x] = Residual
       /\ gpu.seen["side"] = <<>> /\ gpu.queue["null"] = <<>> /\ gpu.seen["null"] = <<>>
  <2>1. gpu.queue["compute"] = <<>>
    BY <1>3, <1>12, <1>14 DEF OnSide, ForRouter
  <2> QED BY <1>3, <1>12, <1>14, <2>1 DEF OnCompute, OnSide, OnNull, Drained
<1>16. OnCompute(gpu, u)
  BY <1>13, <1>15, ComputeEmpty DEF Drained
<1>17. OnSide(gpu, u) /\ OnNull(gpu, u)
  BY <1>3, <1>13, <1>15 DEF OnSide, OnNull
<1>18. SlotsHold(gpu, u)
  <2>1. DOMAIN p.slot_expert = 0 .. cap - 1 /\ DOMAIN slot_expert = 0 .. cap - 1
    BY <1>1, <1>6 DEF Placing, BookOf
  <2>2. \A s \in (DOMAIN p.slot_expert) \ u.pending : p.slot_expert[s] = slot_expert[s]
    BY <1>6, <1>13, <2>1 DEF Placing
  <2>3. Uploading(gpu.queue["null"]) = {}
    BY <1>15, UploadingNone
  <2> QED BY <1>12, <1>13, <1>14, <2>1, <2>2, <2>3 DEF SlotsHold
<1>19. Stored(gpu, u)
  BY <1>12, <1>13, <1>14 DEF Stored
<1>20. SlotsBase(gpu', u)
  BY <1>3, <1>16, <1>17, <1>18, <1>19 DEF SlotsBase
<1>21. LastOf(q, step', wanted', misread')
  BY <1>9 DEF LastOf, Between
<1> QED BY <1>1, <1>3, <1>7, <1>10, <1>20, <1>21, SlotsAre DEF u

(* The host's own part of a stage, as the invariant uses it.               *)
LEMMA SlotsStage ==
  ASSUME SlotsInv, NEW q, Viewed(q)
  PROVE  LET v == ViewOf(step, wanted, misread, slot_expert, stale, q)
         IN  /\ BookOf(cap, cache, slot_expert, wanted, misread)
             /\ StepOf(step, slot_expert, wanted, misread)
             /\ LastOf(q, step, wanted, misread)
             /\ Typed(gpu) /\ ViewOk(v) /\ IsView(v, step, wanted, misread, slot_expert, stale, q)
             /\ OnCompute(gpu, v) /\ OnSide(gpu, v) /\ OnNull(gpu, v) /\ SlotsHold(gpu, v) /\ Stored(gpu, v)
BY ViewIsOk, ViewParts DEF SlotsInv, Viewed, SlotsBase

LEMMA SlotsUpload ==
  ASSUME SlotsInv, Upload
  PROVE  SlotsInv'
<1>q. PICK q : Viewed(q)
  BY DEF SlotsInv
<1> DEFINE v == ViewOf(step, wanted, misread, slot_expert, stale, q)
           u == ViewOf(step', wanted', misread', slot_expert', stale', q)
           n == Len(wanted)
           l == step.upload
           s == Head(l)[1]
           e == Head(l)[2]
<1>1. /\ BookOf(cap, cache, slot_expert, wanted, misread)
      /\ StepOf(step, slot_expert, wanted, misread)
      /\ Typed(gpu) /\ ViewOk(v) /\ IsView(v, step, wanted, misread, slot_expert, stale, q)
      /\ OnCompute(gpu, v) /\ OnSide(gpu, v) /\ OnNull(gpu, v) /\ SlotsHold(gpu, v) /\ Stored(gpu, v)
  BY <1>q, SlotsStage
<1>2. IsView(u, step', wanted', misread', slot_expert', stale', q)
  BY ViewParts
<1> HIDE DEF u, v
<1>3. /\ step.stage = "upload" /\ l # <<>> /\ gpu.queue["null"] = <<>>
      /\ gpu' = IssueAll(<<Copy("null", <<"slot", s>>, <<"staged", e>>)>>)
      /\ step' = [step EXCEPT !.upload = Tail(l)] /\ stale' = stale \ {s}
      /\ cap' = cap /\ cache' = cache /\ slot_expert' = slot_expert /\ wanted' = wanted /\ misread' = misread
  BY DEF Upload, Synchronized
<1>4. UploadOf(step, slot_expert, wanted[n]) /\ misread[n] = {} /\ n > 0
  BY <1>1, <1>3 DEF StepOf
<1>5. /\ Tail(l) \in Seq((DOMAIN slot_expert) \X Weights) /\ Len(l) \in Nat \ {0} /\ Len(Tail(l)) = Len(l) - 1
      /\ \A i \in 1 .. Len(l) - 1 : Tail(l)[i] = l[i + 1]
      /\ \A i \in 2 .. Len(l) : Tail(l)[i - 1] = l[i]
      /\ Head(l) = l[1] /\ l[1] \in (DOMAIN slot_expert) \X Weights
  <2> DEFINE T == (DOMAIN slot_expert) \X Weights
  <2>1. l \in Seq(T) /\ l # <<>>
    BY <1>3, <1>4 DEF UploadOf
  <2> HIDE DEF T, l
  <2>2. Head(l) = l[1] /\ l[1] \in T
    BY <2>1
  <2> QED BY <2>1, <2>2, TailFacts DEF T
<1>6. s \in DOMAIN slot_expert /\ e \in Weights /\ slot_expert[s] = e
  <2>1. 1 \in 1 .. Len(l)
    BY <1>5
  <2>2. slot_expert[l[1][1]] = l[1][2]
    BY <1>4, <2>1 DEF UploadOf
  <2> QED BY <1>5, <2>2
<1>7. s \notin {Tail(l)[i][1] : i \in 1 .. Len(Tail(l))}
  <2> SUFFICES ASSUME NEW i \in 1 .. Len(Tail(l)), Tail(l)[i][1] = s PROVE FALSE
    OBVIOUS
  <2>1. i \in 1 .. Len(l) - 1 /\ i + 1 \in 1 .. Len(l) /\ 1 \in 1 .. Len(l) /\ i + 1 # 1
    BY <1>5
  <2>2. l[i + 1][1] = l[1][1]
    BY <1>5, <2>1
  <2> HIDE DEF l, s
  <2> QED BY <1>4, <2>1, <2>2 DEF UploadOf, l
<1>8. \A i \in 1 .. Len(l) : l[i][1] = s \/ \E j \in 1 .. Len(Tail(l)) : Tail(l)[j][1] = l[i][1]
  <2> TAKE i \in 1 .. Len(l)
  <2>1. CASE i = 1
    BY <1>5, <2>1
  <2>2. CASE i # 1
    <3>1. i \in 2 .. Len(l) /\ i - 1 \in 1 .. Len(Tail(l))
      BY <1>5, <2>2
    <3> QED BY <1>5, <3>1
  <2> QED BY <2>1, <2>2
<1>9. step' = [stage |-> "upload", upload |-> Tail(l), gather |-> step.gather, cpu |-> step.cpu]
  BY <1>3, <1>4 DEF UploadOf
<1>10. step'.stage = "upload" /\ step'.upload = Tail(l) /\ step'.gather = step.gather /\ step'.cpu = step.cpu
  BY <1>9
<1>11. UploadOf(step', slot_expert, wanted[n])
  <2>1. \A i \in 1 .. Len(Tail(l)) : i + 1 \in 1 .. Len(l) /\ Tail(l)[i] = l[i + 1]
    BY <1>5
  <2>2. \A i \in 1 .. Len(Tail(l)) : slot_expert[Tail(l)[i][1]] = Tail(l)[i][2]
    BY <1>4, <2>1 DEF UploadOf
  <2>3. \A i, j \in 1 .. Len(Tail(l)) : Tail(l)[i][1] = Tail(l)[j][1] => i = j
    <3> SUFFICES ASSUME NEW i \in 1 .. Len(Tail(l)), NEW j \in 1 .. Len(Tail(l)), Tail(l)[i][1] = Tail(l)[j][1]
                 PROVE  i = j
      OBVIOUS
    <3>1. l[i + 1][1] = l[j + 1][1] /\ i + 1 \in 1 .. Len(l) /\ j + 1 \in 1 .. Len(l)
      BY <2>1
    <3>2. i + 1 = j + 1
      BY <1>4, <3>1 DEF UploadOf
    <3> QED BY <1>5, <3>2
  <2> HIDE DEF l
  <2> QED BY <1>4, <1>5, <1>9, <1>10, <2>2, <2>3 DEF UploadOf
<1>12. StepOf(step', slot_expert', wanted', misread')
  BY <1>3, <1>4, <1>10, <1>11 DEF StepOf
<1>13. /\ v.stage = "upload" /\ v.held = slot_expert /\ v.stale = stale
       /\ v.pending = {l[i][1] : i \in 1 .. Len(l)}
       /\ v.ended = n - 1 /\ v.wanted = wanted /\ v.misread = misread
  BY <1>1, <1>3 DEF IsView
<1>14. /\ u.stage = "upload" /\ u.held = slot_expert /\ u.stale = stale \ {s}
       /\ u.pending = {Tail(l)[i][1] : i \in 1 .. Len(Tail(l))}
       /\ u.ended = n - 1 /\ u.wanted = wanted /\ u.misread = misread
  BY <1>2, <1>3, <1>10 DEF IsView
<1> DEFINE c == Loads(s, e)
<1>15. c \in Calls /\ c.do = "copy" /\ c.on = "null" /\ c.to = SlotOf(s)
  <2>1. s \in Slots
    BY <1>1, <1>6, <1>13 DEF ViewOk
  <2>2. SlotOf(s) \in Buffers /\ <<"staged", e>> \in Buffers
    BY <1>6, <2>1, BufferFacts DEF SlotOf
  <2> QED BY <2>2, SlotCallFacts DEF Calls, Streams
<1>16. gpu' = Issue(gpu, c)
  <2>1. c = Copy("null", <<"slot", s>>, <<"staged", e>>)
    BY DEF Loads, SlotOf
  <2> HIDE DEF c
  <2> QED BY <1>3, <2>1, IssueOne
<1> HIDE DEF c
<1>17. /\ Typed(gpu') /\ gpu'.memory = gpu.memory /\ gpu'.seen = gpu.seen
       /\ gpu'.recorded = gpu.recorded /\ gpu'.completed = gpu.completed
       /\ gpu'.queue["null"] = Append(<<>>, c)
       /\ gpu'.queue["compute"] = gpu.queue["compute"] /\ gpu'.queue["side"] = gpu.queue["side"]
  <2>1. c.do \in {"copy", "accumulate"} /\ c.on \in Streams
    BY <1>15 DEF Streams
  <2>2. /\ Typed(Issue(gpu, c)) /\ Issue(gpu, c).memory = gpu.memory /\ Issue(gpu, c).seen = gpu.seen
        /\ Issue(gpu, c).recorded = gpu.recorded /\ Issue(gpu, c).completed = gpu.completed
        /\ Issue(gpu, c).queue[c.on] = Append(gpu.queue[c.on], c)
        /\ \A t \in Streams : t # c.on => Issue(gpu, c).queue[t] = gpu.queue[t]
    BY <1>1, <1>15, <2>1, IssueMove
  <2> QED BY <1>3, <1>15, <1>16, <2>2 DEF Streams
<1>18. gpu'.queue["null"] # <<>> /\ Len(gpu'.queue["null"]) = 1 /\ gpu'.queue["null"][1] = c
       /\ Uploading(gpu'.queue["null"]) = {s}
  <2> DEFINE N == Append(<<>>, c)
  <2>1. N # <<>> /\ Len(N) = 1 /\ N[1] = c
    OBVIOUS
  <2> HIDE DEF N
  <2>2. c.to[2] = s
    BY <1>15 DEF SlotOf
  <2>3. \A i \in 1 .. Len(N) : i = 1
    BY <2>1
  <2>4. Uploading(N) = {s}
    BY <2>1, <2>2, <2>3 DEF Uploading
  <2> QED BY <1>17, <2>1, <2>4 DEF N
<1>19. gpu.queue["compute"] = <<>> /\ gpu.queue["side"] = <<>> /\ gpu.memory[x] = Residual
       /\ gpu.seen["compute"] = <<>> /\ gpu.seen["side"] = <<>> /\ gpu.seen["null"] = <<>>
  BY <1>1, <1>3, <1>13, UploadStreams DEF OnNull
<1>20. OnCompute(gpu', u)
  BY <1>14, <1>17, <1>19, ComputeEmpty DEF Drained
<1>21. OnSide(gpu', u)
  BY <1>14, <1>17, <1>19 DEF OnSide
<1>22. OnNull(gpu', u)
  <2>1. s \in (DOMAIN u.held) \ u.pending /\ c = Loads(s, u.held[s]) /\ u.held[s] \in Weights
    BY <1>6, <1>7, <1>14 DEF c
  <2> HIDE DEF s
  <2> QED BY <1>14, <1>17, <1>18, <1>19, <2>1 DEF OnNull
<1>23. SlotsHold(gpu', u)
  <2>1. v.stale \cup v.pending \cup Uploading(gpu.queue["null"])
          \subseteq u.stale \cup u.pending \cup Uploading(gpu'.queue["null"])
    <3>1. Uploading(gpu.queue["null"]) = {}
      BY <1>3, UploadingNone
    <3> HIDE DEF l, s
    <3>2. u.stale \cup u.pending \cup Uploading(gpu'.queue["null"]) = (v.stale \ {s}) \cup u.pending \cup {s}
      BY <1>13, <1>14, <1>18
    <3> QED BY <1>8, <1>13, <1>14, <3>1, <3>2
  <2> QED BY <1>1, <1>13, <1>14, <1>17, <2>1 DEF SlotsHold
<1>24. Stored(gpu', u)
  BY <1>1, <1>13, <1>14, <1>17 DEF Stored
<1>25. SlotsBase(gpu', u)
  BY <1>20, <1>21, <1>22, <1>23, <1>24 DEF SlotsBase
<1>26. BookOf(cap', cache', slot_expert', wanted', misread')
  BY <1>1, <1>3 DEF BookOf
<1>27. LastOf(q, step', wanted', misread')
  BY <1>10 DEF LastOf, Between
<1> QED BY <1>12, <1>17, <1>25, <1>26, <1>27, SlotsAre DEF u

LEMMA SlotsUploadFails ==
  ASSUME SlotsInv, UploadFails
  PROVE  SlotsInv'
<1>q. PICK q : Viewed(q)
  BY DEF SlotsInv
<1> DEFINE v == ViewOf(step, wanted, misread, slot_expert, stale, q)
           u == ViewOf(step', wanted', misread', slot_expert', stale', NoLast)
           n == Len(wanted)
           l == step.upload
           N == gpu.queue["null"]
           to == Head(N).to
<1>1. /\ BookOf(cap, cache, slot_expert, wanted, misread)
      /\ StepOf(step, slot_expert, wanted, misread)
      /\ Typed(gpu) /\ ViewOk(v) /\ IsView(v, step, wanted, misread, slot_expert, stale, q)
      /\ OnCompute(gpu, v) /\ OnSide(gpu, v) /\ OnNull(gpu, v) /\ SlotsHold(gpu, v) /\ Stored(gpu, v)
  BY <1>q, SlotsStage
<1>2. IsView(u, step', wanted', misread', slot_expert', stale', NoLast)
  BY ViewParts
<1>a. SlotsBase(gpu, v)
  BY <1>1 DEF SlotsBase
<1> HIDE DEF u, v
<1>3. /\ step.stage = "upload" /\ N # <<>>
      /\ gpu' = [gpu EXCEPT !.queue["null"] = <<>>, !.seen["null"] = <<>>,
                            !.memory[to] = IF @ = Torn THEN Corrupt ELSE @]
      /\ stale' = stale \cup {to[2]} \cup {a[1] : a \in ToSet(l)}
      /\ step' = Idle
      /\ cap' = cap /\ cache' = cache /\ slot_expert' = slot_expert /\ wanted' = wanted /\ misread' = misread
  BY DEF UploadFails, Synchronized
<1>4. n > 0 /\ n \in Nat
  BY <1>1, <1>3 DEF StepOf, BookOf
<1>5. /\ v.stage = "upload" /\ v.held = slot_expert /\ v.stale = stale
      /\ v.pending = {l[i][1] : i \in 1 .. Len(l)}
      /\ v.ended = n - 1 /\ v.wanted = wanted /\ v.misread = misread
  BY <1>1, <1>3 DEF IsView
<1>6. PICK s \in DOMAIN slot_expert : N[1] = Loads(s, slot_expert[s]) /\ Uploading(N) = {s} /\ Head(N) = N[1]
  BY <1>1, <1>3, <1>5, <1>a, NullHead
<1>7. to = SlotOf(s) /\ to[2] = s
  BY <1>6, SlotCallFacts DEF SlotOf
<1>8. /\ gpu'.queue["null"] = <<>> /\ gpu'.seen["null"] = <<>>
      /\ gpu'.queue["compute"] = gpu.queue["compute"] /\ gpu'.queue["side"] = gpu.queue["side"]
      /\ gpu'.seen["compute"] = gpu.seen["compute"] /\ gpu'.seen["side"] = gpu.seen["side"]
      /\ \A b \in Buffers : b # to => gpu'.memory[b] = gpu.memory[b]
      /\ Typed(gpu')
  <2> HIDE DEF to, N
  <2> DEFINE Q == [gpu.queue EXCEPT !["null"] = <<>>]
             seen == [gpu.seen EXCEPT !["null"] = <<>>]
             m == [gpu.memory EXCEPT ![to] = IF gpu.memory[to] = Torn THEN Corrupt ELSE gpu.memory[to]]
  <2>1. gpu' = [memory |-> m, queue |-> Q, seen |-> seen, recorded |-> gpu.recorded, completed |-> gpu.completed]
    BY <1>1, <1>3 DEF Typed
  <2>2. /\ Q \in [Streams -> Seq(Calls)] /\ Q["null"] = <<>>
        /\ Q["compute"] = gpu.queue["compute"] /\ Q["side"] = gpu.queue["side"]
    BY <1>1 DEF Typed, Streams
  <2>3. /\ DOMAIN seen = Streams /\ seen["null"] = <<>>
        /\ seen["compute"] = gpu.seen["compute"] /\ seen["side"] = gpu.seen["side"]
    BY <1>1 DEF Typed, Streams
  <2>4. DOMAIN m = Buffers /\ \A b \in Buffers : b # to => m[b] = gpu.memory[b]
    BY <1>1 DEF Typed
  <2> HIDE DEF Q, seen, m
  <2>5. Typed(gpu')
    BY <1>1, <2>1, <2>2, <2>3, <2>4 DEF Typed
  <2> QED BY <2>1, <2>2, <2>3, <2>4, <2>5
<1> HIDE DEF to
<1>9. /\ u.stage = "idle" /\ u.held = slot_expert /\ u.pending = {}
      /\ u.stale = stale \cup {s} \cup {l[i][1] : i \in 1 .. Len(l)}
      /\ u.ended = n /\ u.wanted = wanted /\ u.misread = misread
  <2>1. step'.stage = "idle"
    BY <1>3 DEF Idle
  <2>2. {a[1] : a \in ToSet(l)} = {l[i][1] : i \in 1 .. Len(l)}
    <3>1. DOMAIN l = 1 .. Len(l)
      BY <1>1, <1>3 DEF StepOf, UploadOf
    <3> HIDE DEF l
    <3> QED BY <3>1 DEF ToSet
  <2> QED BY <1>2, <1>3, <1>7, <2>1, <2>2 DEF IsView
<1>10. /\ gpu.queue["compute"] = <<>> /\ gpu.queue["side"] = <<>>
       /\ gpu.seen["compute"] = <<>> /\ gpu.seen["side"] = <<>>
  BY <1>1, <1>5, UploadStreams
<1>11. \A a \in Slots : a # s => gpu'.memory[SlotOf(a)] = gpu.memory[SlotOf(a)]
  <2> SUFFICES ASSUME NEW a \in Slots, a # s PROVE gpu'.memory[SlotOf(a)] = gpu.memory[SlotOf(a)]
    OBVIOUS
  <2>1. SlotOf(a) \in Buffers /\ SlotOf(a) # SlotOf(s)
    BY BufferFacts DEF SlotOf
  <2> QED BY <1>7, <1>8, <2>1
<1>12. OnCompute(gpu', u)
  BY <1>8, <1>9, <1>10, ComputeEmpty DEF Drained
<1>13. OnSide(gpu', u) /\ OnNull(gpu', u)
  BY <1>8, <1>9, <1>10, NoWaits DEF OnSide, OnNull
<1>14. SlotsHold(gpu', u)
  <2> SUFFICES ASSUME NEW a \in DOMAIN slot_expert, a \notin u.stale, slot_expert[a] # -1
               PROVE  gpu'.memory[SlotOf(a)] = {<<slot_expert[a], slot_expert[a]>>}
    BY <1>9 DEF SlotsHold
  <2>1. a \notin v.stale \cup v.pending \cup Uploading(N) /\ a # s
    <3> HIDE DEF N, l
    <3> QED BY <1>5, <1>6, <1>9
  <2>2. gpu.memory[SlotOf(a)] = {<<slot_expert[a], slot_expert[a]>>}
    BY <1>1, <1>5, <2>1 DEF SlotsHold
  <2>3. a \in Slots
    BY <1>1, <1>5 DEF ViewOk
  <2> QED BY <1>11, <2>1, <2>2, <2>3
<1>15. Stored(gpu', u)
  <2>1. \A e \in Weights : gpu'.memory[<<"staged", e>>] = gpu.memory[<<"staged", e>>]
    BY <1>7, <1>8, BufferFacts DEF SlotOf
  <2>2. gpu'.memory[embed] = gpu.memory[embed]
    BY <1>7, <1>8, BufferFacts DEF SlotOf
  <2>3. \A f \in 1 .. MaxForwards : gpu'.memory[<<"out", f>>] = gpu.memory[<<"out", f>>]
    BY <1>7, <1>8, BufferFacts DEF SlotOf
  <2>4. \A f \in 1 .. MaxForwards : f <= n - 1 => f <= n
    BY <1>4
  <2> QED BY <1>1, <1>5, <1>9, <2>1, <2>2, <2>3, <2>4 DEF Stored
<1>16. SlotsBase(gpu', u)
  BY <1>12, <1>13, <1>14, <1>15 DEF SlotsBase
<1>17. BookOf(cap', cache', slot_expert', wanted', misread')
  BY <1>1, <1>3 DEF BookOf
<1>18. StepOf(step', slot_expert', wanted', misread')
  BY <1>3 DEF StepOf, Idle
<1>19. LastOf(NoLast, step', wanted', misread')
  BY <1>3, <1>4 DEF LastOf, NoLast, Idle
<1> QED BY <1>8, <1>16, <1>17, <1>18, <1>19, SlotsAre DEF u

LEMMA SlotsFallback ==
  ASSUME SlotsInv, Fallback
  PROVE  SlotsInv'
<1>q. PICK q : Viewed(q)
  BY DEF SlotsInv
<1> DEFINE v == ViewOf(step, wanted, misread, slot_expert, stale, q)
           u == ViewOf(step', wanted', misread', slot_expert', stale', q)
           n == Len(wanted)
           m == [gpu.memory EXCEPT ![xh] = gpu.memory[xh] \cup Exact(step.cpu)]
           added == [memory |-> m, queue |-> gpu.queue, seen |-> gpu.seen,
                     recorded |-> gpu.recorded, completed |-> gpu.completed]
<1>1. /\ BookOf(cap, cache, slot_expert, wanted, misread)
      /\ StepOf(step, slot_expert, wanted, misread)
      /\ Typed(gpu) /\ ViewOk(v) /\ IsView(v, step, wanted, misread, slot_expert, stale, q)
      /\ OnCompute(gpu, v) /\ OnSide(gpu, v) /\ OnNull(gpu, v) /\ SlotsHold(gpu, v) /\ Stored(gpu, v)
  BY <1>q, SlotsStage
<1>2. IsView(u, step', wanted', misread', slot_expert', stale', q)
  BY ViewParts
<1> HIDE DEF u, v
<1>3. /\ step.stage = "fallback" /\ gpu.queue["side"] = <<>>
      /\ gpu' = Issue(added, ToDevice)
      /\ step' = [stage |-> "output"]
      /\ cap' = cap /\ cache' = cache /\ slot_expert' = slot_expert /\ stale' = stale
      /\ wanted' = wanted /\ misread' = misread
  <2>1. [gpu EXCEPT !.memory[xh] = gpu.memory[xh] \cup {<<e, e>> : e \in step.cpu}] = added
    <3> DEFINE b == gpu.memory[xh] \cup Exact(step.cpu)
    <3>1. gpu.memory[xh] \cup {<<e, e>> : e \in step.cpu} = b
      BY Zenon DEF Exact
    <3> HIDE DEF b
    <3>2. gpu = [memory |-> gpu.memory, queue |-> gpu.queue, seen |-> gpu.seen,
                 recorded |-> gpu.recorded, completed |-> gpu.completed]
      BY <1>1 DEF Typed
    <3>3. [gpu EXCEPT !.memory[xh] = b] = [memory |-> [gpu.memory EXCEPT ![xh] = b], queue |-> gpu.queue,
            seen |-> gpu.seen, recorded |-> gpu.recorded, completed |-> gpu.completed]
      BY <3>2
    <3>4. added = [memory |-> [gpu.memory EXCEPT ![xh] = b], queue |-> gpu.queue,
            seen |-> gpu.seen, recorded |-> gpu.recorded, completed |-> gpu.completed]
      BY Zenon DEF b
    <3> HIDE DEF added
    <3> QED BY <3>1, <3>3, <3>4, Zenon
  <2>2. gpu' = Issue([gpu EXCEPT !.memory[xh] = gpu.memory[xh] \cup {<<e, e>> : e \in step.cpu}],
                     Copy("side", x, xh))
    BY DEF Fallback
  <2> HIDE DEF added
  <2>3. gpu' = Issue(added, ToDevice)
    BY <2>1, <2>2, Zenon DEF ToDevice
  <2> QED BY <2>3 DEF Fallback, Synchronized
<1>4. /\ Typed(added) /\ added.queue = gpu.queue /\ added.seen = gpu.seen
      /\ added.memory[xh] = gpu.memory[xh] \cup Exact(step.cpu)
      /\ \A b \in Buffers : b # xh => added.memory[b] = gpu.memory[b]
  <2>1. DOMAIN m = Buffers /\ m[xh] = gpu.memory[xh] \cup Exact(step.cpu)
        /\ \A b \in Buffers : b # xh => m[b] = gpu.memory[b]
    BY <1>1, BufferFacts DEF Typed
  <2> HIDE DEF m
  <2> QED BY <1>1, <2>1 DEF Typed
<1> HIDE DEF added, m
<1>5. /\ Typed(gpu') /\ gpu'.memory = added.memory /\ gpu'.seen = gpu.seen
      /\ gpu'.queue["side"] = Append(<<>>, ToDevice)
      /\ gpu'.queue["compute"] = gpu.queue["compute"] /\ gpu'.queue["null"] = gpu.queue["null"]
  <2> DEFINE c == ToDevice
  <2>1. c \in Calls /\ c.do = "copy" /\ c.on = "side" /\ c.on \in Streams
    BY SlotCallFacts, BufferFacts DEF Calls, Streams
  <2> HIDE DEF c
  <2>2. /\ Typed(Issue(added, c)) /\ Issue(added, c).memory = added.memory
        /\ Issue(added, c).seen = added.seen
        /\ Issue(added, c).queue[c.on] = Append(added.queue[c.on], c)
        /\ \A t \in Streams : t # c.on => Issue(added, c).queue[t] = added.queue[t]
    BY <1>4, <2>1, IssueMove, ZenonT(60)
  <2>3. gpu' = Issue(added, c)
    BY <1>3 DEF c
  <2> QED BY <1>3, <1>4, <2>1, <2>2, <2>3 DEF Streams, c
<1>6. /\ v.stage = "fallback" /\ v.held = slot_expert /\ v.stale = stale /\ v.pending = {}
      /\ v.f = n /\ v.H = step.cpu
      /\ v.ended = n - 1 /\ v.wanted = wanted /\ v.misread = misread
  BY <1>1, <1>3 DEF IsView, Between
<1>7. /\ u.stage = "output" /\ u.held = slot_expert /\ u.stale = stale /\ u.pending = {}
      /\ u.W = v.W /\ u.M = v.M /\ u.H = {}
      /\ u.ended = n - 1 /\ u.wanted = wanted /\ u.misread = misread
  <2>1. step'.stage = "output"
    BY <1>3
  <2> QED BY <1>1, <1>2, <1>3, <1>6, <2>1 DEF IsView, Between
<1>8. /\ gpu.queue["compute"] = <<>> /\ Right(gpu.memory[xh], v.W, v.M, v.H)
      /\ gpu.seen["compute"] = <<>> /\ gpu.seen["side"] = <<>>
      /\ gpu.queue["null"] = <<>> /\ gpu.seen["null"] = <<>>
  <2>1. ForHost(gpu, v)
    BY <1>1, <1>6 DEF OnSide
  <2>2. gpu.queue["compute"] = <<>> /\ Right(gpu.memory[xh], v.W, v.M, v.H)
    <3>1. Len(<<>>) \notin 1 .. 3
      OBVIOUS
    <3> QED BY <1>3, <2>1, <3>1 DEF ForHost
  <2>3. gpu.queue["null"] = <<>> /\ gpu.seen["null"] = <<>>
    BY <1>1, <1>6 DEF OnNull
  <2> QED BY <1>1, <1>3, <2>2, <2>3 DEF OnCompute, OnSide
<1>9. /\ Right(gpu'.memory[xh], u.W, u.M, u.H)
  <2> DEFINE w == gpu.memory[xh] \cup Exact(v.H)
  <2>1. v.W \in SUBSET Weights /\ v.M \in SUBSET Weights /\ v.H \in SUBSET Weights
    BY <1>1 DEF ViewOk
  <2>2. Right(w, v.W, v.M, {})
    BY <1>8, <2>1, RightFacts
  <2>3. gpu'.memory[xh] = w
    BY <1>4, <1>5, <1>6
  <2> HIDE DEF w
  <2> QED BY <1>7, <2>2, <2>3
<1>10. /\ gpu'.queue["side"] # <<>> /\ Len(gpu'.queue["side"]) = 1 /\ gpu'.queue["side"][1] = ToDevice
  BY <1>5
<1>11. OnCompute(gpu', u)
  <2>1. Drained(gpu', u)
    BY <1>7, <1>10 DEF Drained
  <2> QED BY <1>5, <1>8, <2>1, ComputeEmpty
<1>12. OnSide(gpu', u)
  <2>1. FromHost(gpu', u)
    BY <1>5, <1>8, <1>9, <1>10 DEF FromHost
  <2> QED BY <1>5, <1>7, <1>8, <2>1 DEF OnSide
<1>13. OnNull(gpu', u)
  BY <1>5, <1>7, <1>8 DEF OnNull
<1>14. SlotsHold(gpu', u)
  <2>1. \A s \in Slots : gpu'.memory[SlotOf(s)] = gpu.memory[SlotOf(s)]
    BY <1>4, <1>5, BufferFacts DEF SlotOf
  <2>2. DOMAIN slot_expert \subseteq Slots
    BY <1>1, <1>6 DEF ViewOk
  <2> QED BY <1>1, <1>5, <1>6, <1>7, <2>1, <2>2 DEF SlotsHold
<1>15. Stored(gpu', u)
  <2>1. \A e \in Weights : gpu'.memory[<<"staged", e>>] = gpu.memory[<<"staged", e>>]
    BY <1>4, <1>5, BufferFacts
  <2>2. gpu'.memory[embed] = gpu.memory[embed]
    BY <1>4, <1>5, BufferFacts
  <2>3. \A f \in 1 .. MaxForwards : gpu'.memory[<<"out", f>>] = gpu.memory[<<"out", f>>]
    BY <1>4, <1>5, BufferFacts
  <2> QED BY <1>1, <1>6, <1>7, <2>1, <2>2, <2>3 DEF Stored
<1>16. SlotsBase(gpu', u)
  BY <1>11, <1>12, <1>13, <1>14, <1>15 DEF SlotsBase
<1>17. BookOf(cap', cache', slot_expert', wanted', misread')
  BY <1>1, <1>3 DEF BookOf
<1>18. StepOf(step', slot_expert', wanted', misread')
  <2>1. step'.stage = "output"
    BY <1>3
  <2> QED BY <1>1, <1>3, <2>1 DEF StepOf
<1>19. LastOf(q, step', wanted', misread')
  BY <1>3 DEF LastOf, Between
<1> QED BY <1>5, <1>16, <1>17, <1>18, <1>19, SlotsAre DEF u

LEMMA SlotsFallbackFails ==
  ASSUME SlotsInv, FallbackFails
  PROVE  SlotsInv'
<1>q. PICK q : Viewed(q)
  BY DEF SlotsInv
<1> DEFINE v == ViewOf(step, wanted, misread, slot_expert, stale, q)
           u == ViewOf(step', wanted', misread', slot_expert', stale', NoLast)
           n == Len(wanted)
           b == gpu.memory[xh] \cup {<<e, e>> : e \in step.cpu}
           m == [gpu.memory EXCEPT ![xh] = b]
<1>1. /\ BookOf(cap, cache, slot_expert, wanted, misread)
      /\ StepOf(step, slot_expert, wanted, misread)
      /\ Typed(gpu) /\ ViewOk(v) /\ IsView(v, step, wanted, misread, slot_expert, stale, q)
      /\ OnCompute(gpu, v) /\ OnSide(gpu, v) /\ OnNull(gpu, v) /\ SlotsHold(gpu, v) /\ Stored(gpu, v)
  BY <1>q, SlotsStage
<1>2. IsView(u, step', wanted', misread', slot_expert', stale', NoLast)
  BY ViewParts
<1> HIDE DEF u, v
<1>3. /\ step.stage = "fallback" /\ gpu.queue["side"] = <<>>
      /\ gpu' = [gpu EXCEPT !.memory[xh] = b] /\ step' = Idle
      /\ cap' = cap /\ cache' = cache /\ slot_expert' = slot_expert /\ stale' = stale
      /\ wanted' = wanted /\ misread' = misread
  BY DEF FallbackFails, Synchronized
<1> HIDE DEF b
<1>4. /\ Typed(gpu') /\ gpu'.queue = gpu.queue /\ gpu'.seen = gpu.seen
      /\ \A a \in Buffers : a # xh => gpu'.memory[a] = gpu.memory[a]
  <2>1. gpu' = [memory |-> m, queue |-> gpu.queue, seen |-> gpu.seen,
                recorded |-> gpu.recorded, completed |-> gpu.completed]
    BY <1>1, <1>3 DEF Typed
  <2>2. DOMAIN m = Buffers /\ \A a \in Buffers : a # xh => m[a] = gpu.memory[a]
    BY <1>1 DEF Typed
  <2> HIDE DEF m
  <2> QED BY <1>1, <2>1, <2>2 DEF Typed
<1>5. /\ v.stage = "fallback" /\ v.held = slot_expert /\ v.stale = stale /\ v.pending = {}
      /\ v.ended = n - 1 /\ v.wanted = wanted /\ v.misread = misread
  BY <1>1, <1>3 DEF IsView
<1>6. step'.stage = "idle"
  BY <1>3 DEF Idle
<1>7. /\ u.stage = "idle" /\ u.held = slot_expert /\ u.stale = stale /\ u.pending = {}
      /\ u.ended = n /\ u.wanted = wanted /\ u.misread = misread
  BY <1>2, <1>3, <1>6 DEF IsView
<1>8. /\ gpu.queue["compute"] = <<>> /\ gpu.seen["compute"] = <<>> /\ gpu.seen["side"] = <<>>
      /\ gpu.queue["null"] = <<>> /\ gpu.seen["null"] = <<>>
  <2>1. gpu.queue["compute"] = <<>>
    <3>1. ForHost(gpu, v) /\ Len(<<>>) \notin 1 .. 3
      BY <1>1, <1>5 DEF OnSide
    <3> QED BY <1>3, <3>1 DEF ForHost
  <2> QED BY <1>1, <1>3, <1>5, <2>1 DEF OnCompute, OnSide, OnNull
<1>9. OnCompute(gpu', u)
  BY <1>4, <1>7, <1>8, ComputeEmpty DEF Drained
<1>10. OnSide(gpu', u) /\ OnNull(gpu', u)
  BY <1>3, <1>4, <1>7, <1>8, NoWaits DEF OnSide, OnNull
<1>11. SlotsHold(gpu', u)
  <2>1. \A s \in Slots : gpu'.memory[SlotOf(s)] = gpu.memory[SlotOf(s)]
    BY <1>4, BufferFacts DEF SlotOf
  <2>2. DOMAIN slot_expert \subseteq Slots
    BY <1>1, <1>5 DEF ViewOk
  <2> QED BY <1>1, <1>4, <1>5, <1>7, <2>1, <2>2 DEF SlotsHold
<1>12. n > 0 /\ n \in Nat
  BY <1>1, <1>3 DEF StepOf, BookOf
<1>13. Stored(gpu', u)
  <2>1. \A e \in Weights : gpu'.memory[<<"staged", e>>] = gpu.memory[<<"staged", e>>]
    BY <1>4, BufferFacts
  <2>2. gpu'.memory[embed] = gpu.memory[embed]
    BY <1>4, BufferFacts
  <2>3. \A f \in 1 .. MaxForwards : gpu'.memory[<<"out", f>>] = gpu.memory[<<"out", f>>]
    BY <1>4, BufferFacts
  <2>4. \A f \in 1 .. MaxForwards : f <= n - 1 => f <= n
    BY <1>12
  <2> QED BY <1>1, <1>5, <1>7, <2>1, <2>2, <2>3, <2>4 DEF Stored
<1>14. SlotsBase(gpu', u)
  BY <1>9, <1>10, <1>11, <1>13 DEF SlotsBase
<1>15. BookOf(cap', cache', slot_expert', wanted', misread')
  BY <1>1, <1>3 DEF BookOf
<1>16. StepOf(step', slot_expert', wanted', misread')
  BY <1>6 DEF StepOf
<1>17. LastOf(NoLast, step', wanted', misread')
  BY <1>6, <1>12 DEF LastOf, NoLast
<1> QED BY <1>4, <1>14, <1>15, <1>16, <1>17, SlotsAre DEF u

(***************************************************************************)
(* The bounded path: calls issued between forwards                         *)
(***************************************************************************)
Resting(g, v) == Typed(g) /\ ViewOk(v) /\ SlotsBase(g, v) /\ v.stage = "idle"

(* h is g with a call on the compute stream.                               *)
Pushed(g, h, c) ==
  /\ Typed(h) /\ h.memory = g.memory /\ h.seen = g.seen /\ h.completed = g.completed
  /\ h.queue["compute"] = Append(g.queue["compute"], c)
  /\ h.queue["side"] = g.queue["side"] /\ h.queue["null"] = g.queue["null"]

(* A call may follow what is queued.                                       *)
MayFollow(g, c, v) ==
  LET C == g.queue["compute"]
  IN  /\ SlotCall(c, v)
      /\ C # <<>> => SlotFollows(C[Len(C)], c, v)
      /\ C = <<>> =>
           /\ c.do = "accumulate" => Gathered(g.memory, c.terms, v) /\ g.memory[x] = Residual
           /\ c = Outputs(v.f) \/ Does(c, "record", partDone) => Right(g.memory[x], v.W, v.M, v.H)
           /\ Does(c, "record", routerDone) => g.memory[x] = Residual

(* What the head of the compute stream needs depends on these only.        *)
LEMMA HeadKept ==
  ASSUME NEW g, NEW h, NEW v, NEW u, HeadHolds(g, v),
         h.queue["compute"][1] = g.queue["compute"][1],
         h.memory = g.memory, h.seen = g.seen,
         u.f = v.f, u.W = v.W, u.M = v.M, u.H = v.H
  PROVE  HeadHolds(h, u)
<1> DEFINE c == g.queue["compute"][1]
<1>1. \A m, G : Gathered(m, G, v) => Gathered(m, G, u)
  BY DEF Gathered
<1>2. h.queue["compute"][1] = c
  OBVIOUS
<1> HIDE DEF c
<1> QED BY <1>1, <1>2 DEF HeadHolds, c

LEMMA RestPushed ==
  ASSUME NEW g, NEW h, NEW v, Resting(g, v), NEW c \in Calls, Pushed(g, h, c), MayFollow(g, c, v),
         Numbered(h, Append(g.queue["compute"], c))
  PROVE  Resting(h, v)
<1> DEFINE C == g.queue["compute"]
           T == Append(C, c)
<1>1. /\ OnCompute(g, v) /\ OnSide(g, v) /\ OnNull(g, v) /\ SlotsHold(g, v) /\ Stored(g, v)
      /\ Typed(g) /\ ViewOk(v) /\ v.stage = "idle"
  BY DEF Resting, SlotsBase
<1>2. /\ Typed(h) /\ h.memory = g.memory /\ h.seen = g.seen /\ h.completed = g.completed
      /\ h.queue["compute"] = T /\ h.queue["side"] = g.queue["side"] /\ h.queue["null"] = g.queue["null"]
  BY DEF Pushed
<1>3. C \in Seq(Calls)
  BY <1>1 DEF Typed, Streams
<1>4. /\ \A i \in 1 .. Len(C) : SlotCall(C[i], v)
      /\ \A i \in 1 .. Len(C) - 1 : SlotFollows(C[i], C[i + 1], v)
      /\ g.seen["compute"] # <<>> => C # <<>> /\ C[1].do \in {"copy", "accumulate"}
      /\ C # <<>> => HeadHolds(g, v)
  BY <1>1 DEF OnCompute
<1>5. /\ SlotCall(c, v) /\ (C # <<>> => SlotFollows(C[Len(C)], c, v))
      /\ C = <<>> =>
           /\ c.do = "accumulate" => Gathered(g.memory, c.terms, v) /\ g.memory[x] = Residual
           /\ c = Outputs(v.f) \/ Does(c, "record", partDone) => Right(g.memory[x], v.W, v.M, v.H)
           /\ Does(c, "record", routerDone) => g.memory[x] = Residual
  BY DEF MayFollow
<1>6. Numbered(h, T)
  OBVIOUS
<1>7. C = g.queue["compute"] /\ (C # <<>> => Len(C) \in Nat \ {0}) /\ (C = <<>> => Len(C) = 0)
  BY <1>3
<1> HIDE DEF C
<1>8. /\ T \in Seq(Calls) /\ Len(C) \in Nat /\ Len(T) = Len(C) + 1 /\ T # <<>>
      /\ T[Len(C) + 1] = c /\ \A i \in 1 .. Len(C) : T[i] = C[i]
  BY <1>3, AppendFacts
<1> HIDE DEF T
<1>9. \A i \in 1 .. Len(T) : SlotCall(T[i], v)
  <2>1. \A i \in 1 .. Len(T) : i \in 1 .. Len(C) \/ i = Len(C) + 1
    BY <1>8
  <2> QED BY <1>4, <1>5, <1>8, <2>1
<1>10. \A i \in 1 .. Len(T) - 1 : SlotFollows(T[i], T[i + 1], v)
  <2> TAKE i \in 1 .. Len(T) - 1
  <2>1. i \in 1 .. Len(C) /\ T[i] = C[i]
    BY <1>8
  <2>2. CASE i = Len(C)
    <3>1. C # <<>>
      BY <1>7, <2>1
    <3> QED BY <1>5, <1>8, <2>1, <2>2, <3>1
  <2>3. CASE i # Len(C)
    <3>1. i \in 1 .. Len(C) - 1 /\ i + 1 \in 1 .. Len(C) /\ T[i + 1] = C[i + 1]
      BY <1>8, <2>1, <2>3
    <3> QED BY <1>4, <2>1, <3>1
  <2> QED BY <2>2, <2>3
<1>11. HeadHolds(h, v)
  <2>1. CASE C = <<>>
    <3>1. h.queue["compute"][1] = c /\ h.seen["compute"] = <<>>
      BY <1>2, <1>4, <1>7, <1>8, <2>1
    <3> QED BY <1>2, <1>5, <2>1, <3>1 DEF HeadHolds
  <2>2. CASE C # <<>>
    <3>1. h.queue["compute"][1] = g.queue["compute"][1]
      <4>1. 1 \in 1 .. Len(C) /\ T[1] = C[1]
        BY <1>7, <1>8, <2>2
      <4> QED BY <1>2, <1>7, <4>1
    <3>2. HeadHolds(g, v)
      BY <1>4, <2>2
    <3> QED BY <1>2, <3>1, <3>2, HeadKept
  <2> QED BY <2>1, <2>2
<1>12. EndsAs(T, v) /\ Drained(h, v)
  BY <1>1, <1>2, <1>8 DEF EndsAs, Drained
<1>13. h.seen["compute"] # <<>> => T[1].do \in {"copy", "accumulate"}
  <2> SUFFICES ASSUME h.seen["compute"] # <<>> PROVE T[1].do \in {"copy", "accumulate"}
    OBVIOUS
  <2>1. C # <<>> /\ C[1].do \in {"copy", "accumulate"}
    BY <1>2, <1>4
  <2>2. T[1] = C[1]
    BY <1>7, <1>8, <2>1
  <2> QED BY <2>1, <2>2
<1>14. OnCompute(h, v)
  BY <1>2, <1>6, <1>8, <1>9, <1>10, <1>11, <1>12, <1>13 DEF OnCompute
<1>15. OnSide(h, v) /\ OnNull(h, v)
  BY <1>1, <1>2 DEF OnSide, OnNull
<1>16. SlotsHold(h, v) /\ Stored(h, v)
  BY <1>1, <1>2 DEF SlotsHold, Stored
<1> QED BY <1>1, <1>2, <1>14, <1>15, <1>16 DEF Resting, SlotsBase

LEMMA RestMove ==
  ASSUME NEW g, NEW v, Resting(g, v), NEW c \in Calls, c.do \in {"copy", "accumulate"},
         c.on = "compute", MayFollow(g, c, v)
  PROVE  Resting(Issue(g, c), v) /\ Pushed(g, Issue(g, c), c)
<1> DEFINE h == Issue(g, c)
           C == g.queue["compute"]
<1>1. Typed(g) /\ OnCompute(g, v)
  BY DEF Resting, SlotsBase
<1>2. C \in Seq(Calls) /\ Numbered(g, C)
  BY <1>1 DEF Typed, Streams, OnCompute
<1>3. c.on \in Streams
  BY DEF Streams
<1>4. /\ Typed(h) /\ h.memory = g.memory /\ h.seen = g.seen
      /\ h.recorded = g.recorded /\ h.completed = g.completed
      /\ h.queue[c.on] = Append(g.queue[c.on], c)
      /\ \A s \in Streams : s # c.on => h.queue[s] = g.queue[s]
  BY <1>1, <1>3, IssueMove
<1> HIDE DEF h
<1>5. Pushed(g, h, c)
  BY <1>4 DEF Pushed, Streams
<1>6. Numbered(h, Append(C, c))
  BY <1>2, <1>4, NumberedPush
<1>7. Resting(h, v)
  BY <1>5, <1>6, RestPushed
<1> QED BY <1>5, <1>7 DEF h

LEMMA RestRecord ==
  ASSUME NEW g, NEW v, Resting(g, v), NEW e \in Events, MayFollow(g, Numbering(g, e), v)
  PROVE  LET h == Issue(g, Record("compute", e))
         IN  Resting(h, v) /\ Pushed(g, h, Numbering(g, e)) /\ h.recorded[e] = g.recorded[e] + 1
<1> DEFINE h == Issue(g, Record("compute", e))
           C == g.queue["compute"]
           r == Numbering(g, e)
<1>1. Typed(g) /\ OnCompute(g, v)
  BY DEF Resting, SlotsBase
<1>2. C \in Seq(Calls) /\ Numbered(g, C)
  BY <1>1 DEF Typed, Streams, OnCompute
<1>3. "compute" \in Streams
  BY DEF Streams
<1>4. r.do = "record" /\ r.event = e /\ r.number = g.recorded[e] + 1
  BY DEF Numbering
<1>5. MayFollow(g, r, v)
  OBVIOUS
<1> HIDE DEF h, r
<1>6. /\ Typed(h) /\ r \in Calls
      /\ h.memory = g.memory /\ h.seen = g.seen /\ h.completed = g.completed
      /\ h.recorded[e] = g.recorded[e] + 1
      /\ \A d \in Events : d # e => h.recorded[d] = g.recorded[d]
      /\ h.queue["compute"] = Append(g.queue["compute"], r)
      /\ \A t \in Streams : t # "compute" => h.queue[t] = g.queue[t]
  BY <1>1, <1>3, IssueRecord, ZenonT(60) DEF h, r
<1>7. Pushed(g, h, r)
  BY <1>6 DEF Pushed, Streams
<1>8. Numbered(h, Append(C, r))
  BY <1>1, <1>2, <1>4, <1>6, NumberedRecord
<1>9. Resting(h, v)
  BY <1>5, <1>6, <1>7, <1>8, RestPushed
<1> QED BY <1>6, <1>7, <1>9 DEF h, r

(* A wait on the copy stream.                                              *)
LEMMA RestWait ==
  ASSUME NEW g, NEW v, Resting(g, v), NEW e \in Events
  PROVE  LET h == Issue(g, Wait("side", e))
         IN  /\ Resting(h, v) /\ h.recorded = g.recorded
             /\ h.queue["compute"] = g.queue["compute"]
             /\ h.queue["side"] = Append(g.queue["side"], Awaiting(g, e)) /\ Awaiting(g, e) \in Calls
<1> DEFINE h == Issue(g, Wait("side", e))
           D == g.queue["side"]
           w == Awaiting(g, e)
           T == Append(D, w)
<1>1. /\ OnCompute(g, v) /\ OnSide(g, v) /\ OnNull(g, v) /\ SlotsHold(g, v) /\ Stored(g, v)
      /\ Typed(g) /\ ViewOk(v) /\ v.stage = "idle"
  BY DEF Resting, SlotsBase
<1>2. "side" \in Streams /\ D \in Seq(Calls) /\ w.do = "wait"
  BY <1>1 DEF Typed, Streams, Awaiting
<1> HIDE DEF h, w
<1>3. /\ Typed(h) /\ w \in Calls
      /\ h.memory = g.memory /\ h.seen = g.seen /\ h.completed = g.completed /\ h.recorded = g.recorded
      /\ h.queue["side"] = T
      /\ \A t \in Streams : t # "side" => h.queue[t] = g.queue[t]
  BY <1>1, <1>2, IssueWait DEF h, w
<1>4. h.queue["compute"] = g.queue["compute"] /\ h.queue["null"] = g.queue["null"]
  BY <1>3 DEF Streams
<1>5. OnCompute(h, v)
  <2>1. \A q : Numbered(g, q) => Numbered(h, q)
    BY <1>3 DEF Numbered
  <2>2. g.queue["compute"] # <<>> /\ HeadHolds(g, v) => HeadHolds(h, v)
    BY <1>3, <1>4, HeadKept
  <2>3. Drained(h, v)
    BY <1>1 DEF Drained
  <2> DEFINE C == g.queue["compute"]
  <2>4. /\ \A i \in 1 .. Len(C) : SlotCall(C[i], v)
        /\ \A i \in 1 .. Len(C) - 1 : SlotFollows(C[i], C[i + 1], v)
        /\ Numbered(g, C)
        /\ g.seen["compute"] # <<>> => C # <<>> /\ C[1].do \in {"copy", "accumulate"}
        /\ C # <<>> => HeadHolds(g, v)
        /\ EndsAs(C, v)
    BY <1>1 DEF OnCompute
  <2>5. h.queue["compute"] = C /\ h.seen = g.seen
    BY <1>3, <1>4
  <2> QED BY <2>1, <2>2, <2>3, <2>4, <2>5 DEF OnCompute
<1>6. OnSide(h, v)
  <2>1. OnlyWaits(D) /\ (g.seen["side"] # <<>> => D # <<>> /\ D[1].do = "copy")
    BY <1>1 DEF OnSide
  <2>2. D # <<>> => 1 \in 1 .. Len(D)
    BY <1>2
  <2>d. D = g.queue["side"]
    OBVIOUS
  <2> HIDE DEF D
  <2>3. /\ Len(D) \in Nat /\ Len(T) = Len(D) + 1 /\ T # <<>>
        /\ T[Len(D) + 1] = w /\ \A i \in 1 .. Len(D) : T[i] = D[i]
    BY <1>2, <1>3, AppendFacts
  <2> HIDE DEF T
  <2>4. OnlyWaits(T)
    <3>1. \A i \in 1 .. Len(T) : i \in 1 .. Len(D) \/ i = Len(D) + 1
      BY <2>3
    <3> QED BY <1>2, <2>1, <2>3, <3>1 DEF OnlyWaits
  <2>5. g.seen["side"] = <<>>
    BY <2>1, <2>2 DEF OnlyWaits
  <2> QED BY <1>1, <1>3, <2>4, <2>5 DEF OnSide
<1>7. OnNull(h, v) /\ SlotsHold(h, v) /\ Stored(h, v)
  BY <1>1, <1>3, <1>4 DEF OnNull, SlotsHold, Stored
<1>8. Resting(h, v)
  BY <1>1, <1>3, <1>5, <1>6, <1>7 DEF Resting, SlotsBase
<1> QED BY <1>3, <1>4, <1>8 DEF h, w

(* u is v at another place of the host, and perhaps with more forwards.    *)
Restaged(v, u) ==
  /\ u.f = v.f /\ u.W = v.W /\ u.M = v.M /\ u.H = v.H
  /\ u.held = v.held /\ u.stale = v.stale /\ u.pending = v.pending
  /\ \A f \in 1 .. MaxForwards :
       f <= v.ended => f <= u.ended /\ u.wanted[f] = v.wanted[f] /\ u.misread[f] = v.misread[f]

(* The calls of a forward that routes are queued.                          *)
Routed(g) ==
  LET C == g.queue["compute"]
      D == g.queue["side"]
  IN  /\ C # <<>> /\ Does(C[Len(C)], "record", routerDone)
      /\ D # <<>> /\ Awaits(g, D[Len(D)], routerDone)

LEMMA Restage ==
  ASSUME NEW g, NEW v, NEW u, SlotsBase(g, v), Restaged(v, u),
         v.stage \in {"idle", "output"}, u.stage \in {"idle", "routing"},
         v.stage = "output" => g.queue["side"] = <<>>,
         u.stage = "routing" => Routed(g)
  PROVE  SlotsBase(g, u)
<1> DEFINE C == g.queue["compute"]
           D == g.queue["side"]
<1>1. OnCompute(g, v) /\ OnSide(g, v) /\ OnNull(g, v) /\ SlotsHold(g, v) /\ Stored(g, v)
  BY DEF SlotsBase
<1>2. /\ \A i \in 1 .. Len(C) : SlotCall(C[i], v)
      /\ \A i \in 1 .. Len(C) - 1 : SlotFollows(C[i], C[i + 1], v)
      /\ Numbered(g, C)
      /\ g.seen["compute"] # <<>> => C # <<>> /\ C[1].do \in {"copy", "accumulate"}
      /\ C # <<>> => HeadHolds(g, v)
  BY <1>1 DEF OnCompute
<1>3. /\ u.f = v.f /\ u.W = v.W /\ u.M = v.M /\ u.H = v.H
      /\ u.held = v.held /\ u.stale = v.stale /\ u.pending = v.pending
  BY DEF Restaged
<1>4. u.stage = "routing" => C # <<>> /\ Does(C[Len(C)], "record", routerDone)
  BY DEF Routed
<1>5. OnCompute(g, u)
  <2>1. ASSUME NEW i \in 1 .. Len(C) PROVE SlotCall(C[i], u)
    <3>1. SlotCall(C[i], v)
      BY <1>2
    <3> QED BY <1>3, <3>1 DEF SlotCall
  <2>2. ASSUME NEW i \in 1 .. Len(C) - 1 PROVE SlotFollows(C[i], C[i + 1], u)
    <3>1. SlotFollows(C[i], C[i + 1], v)
      BY <1>2
    <3> QED BY <1>3, <3>1 DEF SlotFollows
  <2>3. C # <<>> => HeadHolds(g, u)
    BY <1>2, <1>3, HeadKept
  <2>4. EndsAs(C, u) /\ Drained(g, u)
    BY <1>4 DEF EndsAs, Drained
  <2> QED BY <1>2, <2>1, <2>2, <2>3, <2>4 DEF OnCompute
<1>6. OnSide(g, u)
  <2>1. OnlyWaits(D)
    BY <1>1, NoWaits DEF OnSide
  <2>2. u.stage = "routing" => ForRouter(g)
    BY DEF Routed, ForRouter
  <2> QED BY <1>1, <2>1, <2>2 DEF OnSide
<1>7. OnNull(g, u)
  BY <1>1 DEF OnNull
<1>8. SlotsHold(g, u)
  BY <1>1, <1>3 DEF SlotsHold
<1>9. Stored(g, u)
  <2>1. ASSUME NEW f \in 1 .. MaxForwards, g.memory[<<"out", f>>] # Torn
        PROVE  f <= u.ended /\ Right(g.memory[<<"out", f>>], u.wanted[f], u.misread[f], {})
    <3>1. f <= v.ended /\ Right(g.memory[<<"out", f>>], v.wanted[f], v.misread[f], {})
      BY <1>1, <2>1 DEF Stored
    <3> QED BY <3>1 DEF Restaged
  <2> QED BY <1>1, <2>1 DEF Stored
<1> QED BY <1>5, <1>6, <1>7, <1>8, <1>9 DEF SlotsBase

(***************************************************************************)
(* The bounded path: the return                                            *)
(***************************************************************************)

(* The forward that has ended, whose output may follow what is queued.     *)
Ended == [f |-> Len(wanted), W |-> wanted[Len(wanted)], M |-> misread[Len(wanted)]]

LEMMA SlotsSettle ==
  ASSUME SlotsInv, step.stage = "output", gpu.queue["side"] = <<>>
  PROVE  LET u == ViewOf(Idle, wanted, misread, slot_expert, stale, Ended)
         IN  /\ Resting(gpu, u) /\ LastOf(Ended, Idle, wanted, misread)
             /\ Outputs(Len(wanted)) \in Calls /\ MayFollow(gpu, Outputs(Len(wanted)), u)
             /\ BookOf(cap, cache, slot_expert, wanted, misread)
             /\ StepOf(Idle, slot_expert, wanted, misread)
<1>q. PICK q : Viewed(q)
  BY DEF SlotsInv
<1> DEFINE v == ViewOf(step, wanted, misread, slot_expert, stale, q)
           u == ViewOf(Idle, wanted, misread, slot_expert, stale, Ended)
           n == Len(wanted)
           C == gpu.queue["compute"]
           c == Outputs(n)
<1>1. /\ BookOf(cap, cache, slot_expert, wanted, misread)
      /\ StepOf(step, slot_expert, wanted, misread)
      /\ Typed(gpu) /\ ViewOk(v) /\ IsView(v, step, wanted, misread, slot_expert, stale, q)
      /\ OnCompute(gpu, v) /\ OnSide(gpu, v) /\ OnNull(gpu, v) /\ SlotsHold(gpu, v) /\ Stored(gpu, v)
  BY <1>q, SlotsStage
<1>2. IsView(u, Idle, wanted, misread, slot_expert, stale, Ended)
  BY ViewParts
<1>3. Idle.stage = "idle"
  BY DEF Idle
<1>4. /\ n \in 1 .. MaxForwards /\ n \in 1 .. n /\ Len(misread) = n
      /\ wanted \in Seq(SUBSET Weights) /\ misread \in Seq(SUBSET Weights)
  BY <1>1, Numbers DEF StepOf, BookOf
<1>5. StepOf(Idle, slot_expert, wanted, misread)
  BY <1>3 DEF StepOf
<1>6. Ended.f = n /\ Ended.W = wanted[n] /\ Ended.M = misread[n]
  BY DEF Ended
<1>7. wanted[n] \in SUBSET Weights /\ misread[n] \in SUBSET Weights
  <2> DEFINE S == SUBSET Weights
  <2>1. wanted \in Seq(S) /\ misread \in Seq(S)
    BY <1>4
  <2> HIDE DEF S
  <2>2. wanted[n] \in S /\ misread[n] \in S
    BY <1>4, <2>1
  <2> QED BY <2>2 DEF S
<1>8. LastOf(Ended, Idle, wanted, misread)
  BY <1>3, <1>4, <1>6, <1>7 DEF LastOf
<1>9. ViewOk(u)
  BY <1>1, <1>5, <1>8, ViewIsOk
<1> HIDE DEF u, v
<1>10. /\ v.stage = "output" /\ v.held = slot_expert /\ v.stale = stale /\ v.pending = {}
       /\ v.f = n /\ v.W = wanted[n] /\ v.M = misread[n] /\ v.H = {}
       /\ v.ended = n - 1 /\ v.wanted = wanted /\ v.misread = misread
  BY <1>1 DEF IsView, Between
<1>11. /\ u.stage = "idle" /\ u.held = slot_expert /\ u.stale = stale /\ u.pending = {}
       /\ u.f = n /\ u.W = wanted[n] /\ u.M = misread[n] /\ u.H = {}
       /\ u.ended = n /\ u.wanted = wanted /\ u.misread = misread
  BY <1>2, <1>3, <1>6 DEF IsView, Between
<1>12. Restaged(v, u)
  <2>1. \A f \in 1 .. MaxForwards : f <= n - 1 => f <= n
    BY <1>4
  <2> QED BY <1>10, <1>11, <2>1 DEF Restaged
<1>13. SlotsBase(gpu, v)
  BY <1>1 DEF SlotsBase
<1>14. SlotsBase(gpu, u)
  BY <1>10, <1>11, <1>12, <1>13, Restage
<1>15. c \in Calls /\ c.do = "copy"
  BY <1>4, BufferFacts, SlotCallFacts DEF Calls, Streams
<1>16. MayFollow(gpu, c, u)
  <2>1. EndsAs(C, v) /\ Drained(gpu, v)
    BY <1>1 DEF OnCompute
  <2>2. C # <<>> => Does(C[Len(C)], "record", partDone)
    BY <1>10, <2>1 DEF EndsAs
  <2>3. C = <<>> => Right(gpu.memory[x], v.W, v.M, v.H)
    BY <1>10, <2>1 DEF Drained
  <2> HIDE DEF C
  <2>4. SlotCall(c, u)
    BY <1>4, <1>11 DEF SlotCall
  <2>5. C # <<>> => SlotFollows(C[Len(C)], c, u)
    BY <1>11, <2>2 DEF SlotFollows
  <2>6. \A e : ~Does(c, "record", e)
    BY <1>15 DEF Does
  <2> HIDE DEF c
  <2> QED BY <1>10, <1>11, <1>15, <2>3, <2>4, <2>5, <2>6 DEF MayFollow, C
<1> QED BY <1>1, <1>5, <1>8, <1>9, <1>11, <1>14, <1>15, <1>16 DEF Resting, u

LEMMA SlotsReturn ==
  ASSUME SlotsInv, Return
  PROVE  SlotsInv'
<1> DEFINE u == ViewOf(Idle, wanted, misread, slot_expert, stale, Ended)
           c == Outputs(Len(wanted))
<1>1. /\ step.stage = "output" /\ gpu.queue["side"] = <<>> /\ gpu' = IssueAll(<<c>>) /\ step' = Idle
      /\ cap' = cap /\ cache' = cache /\ slot_expert' = slot_expert /\ stale' = stale
      /\ wanted' = wanted /\ misread' = misread
  BY DEF Return, Synchronized, Outputs
<1>2. /\ Resting(gpu, u) /\ LastOf(Ended, Idle, wanted, misread)
      /\ c \in Calls /\ MayFollow(gpu, c, u)
      /\ BookOf(cap, cache, slot_expert, wanted, misread)
      /\ StepOf(Idle, slot_expert, wanted, misread)
  BY <1>1, SlotsSettle
<1>3. c.do = "copy" /\ c.on = "compute"
  BY SlotCallFacts
<1> HIDE DEF c, u
<1>4. gpu' = Issue(gpu, c)
  BY <1>1, IssueOne
<1>5. Resting(gpu', u)
  BY <1>2, <1>3, <1>4, RestMove
<1>6. Typed(gpu') /\ SlotsBase(gpu', u)
  BY <1>5 DEF Resting
<1>7. SlotsBase(gpu', ViewOf(step', wanted', misread', slot_expert', stale', Ended))
  BY <1>1, <1>6 DEF u
<1> DEFINE q == Ended
<1>8. LastOf(q, step', wanted', misread')
  BY <1>1, <1>2
<1>9. SlotsBase(gpu', ViewOf(step', wanted', misread', slot_expert', stale', q))
  BY <1>7
<1>10. BookOf(cap', cache', slot_expert', wanted', misread') /\ StepOf(step', slot_expert', wanted', misread')
  BY <1>1, <1>2
<1> HIDE DEF q
<1> QED BY <1>6, <1>8, <1>9, <1>10, SlotsAre

LEMMA SlotsReturnFails ==
  ASSUME SlotsInv, ReturnFails
  PROVE  SlotsInv'
<1> DEFINE u == ViewOf(Idle, wanted, misread, slot_expert, stale, Ended)
           q == Ended
<1>1. /\ step.stage = "output" /\ gpu.queue["side"] = <<>> /\ gpu' = gpu /\ step' = Idle
      /\ cap' = cap /\ cache' = cache /\ slot_expert' = slot_expert /\ stale' = stale
      /\ wanted' = wanted /\ misread' = misread
  BY DEF ReturnFails, Synchronized
<1>2. /\ Resting(gpu, u) /\ LastOf(q, Idle, wanted, misread)
      /\ BookOf(cap, cache, slot_expert, wanted, misread)
      /\ StepOf(Idle, slot_expert, wanted, misread)
  BY <1>1, SlotsSettle
<1>3. Typed(gpu) /\ SlotsBase(gpu, u)
  BY <1>2 DEF Resting
<1> HIDE DEF q
<1>4. SlotsBase(gpu', ViewOf(step', wanted', misread', slot_expert', stale', q))
  BY <1>1, <1>3 DEF q
<1>5. LastOf(q, step', wanted', misread') /\ Typed(gpu')
  BY <1>1, <1>2, <1>3
<1>6. BookOf(cap', cache', slot_expert', wanted', misread') /\ StepOf(step', slot_expert', wanted', misread')
  BY <1>1, <1>2
<1> QED BY <1>4, <1>5, <1>6, SlotsAre

(***************************************************************************)
(* The bounded path: the routing                                           *)
(***************************************************************************)

(* What a forward queues when it routes.                                   *)
Embedded      == Issue(gpu, Embeds)
RouterIssued  == Issue(Embedded, Record("compute", routerDone))
RouterAwaited == Issue(RouterIssued, Wait("side", routerDone))

LEMMA RouteIssued ==
  /\ IssueAll(RouteCalls) = RouterAwaited
  /\ \A n \in 0 .. Len(RouteCalls) :
       IssueAll(SubSeq(RouteCalls, 1, n)) \in {gpu, Embedded, RouterIssued, RouterAwaited}
<1> DEFINE c1 == Embeds
           c2 == Record("compute", routerDone)
           c3 == Wait("side", routerDone)
           l == <<c1, c2, c3>>
<1>1. RouteCalls = l
  BY DEF RouteCalls, Embeds, routerDone
<1>2. Len(l) = 3 /\ SubSeq(l, 1, 3) = l
  <2> DEFINE S == {c1, c2, c3}
  <2> HIDE DEF c1, c2, c3
  <2>1. l \in Seq(S) /\ Len(l) = 3
    OBVIOUS
  <2> HIDE DEF l, S
  <2> QED BY <2>1, SubSeqFull
<1> HIDE DEF c1, c2, c3
<1>3. /\ IssueAll(l) = Issue(Issue(Issue(gpu, c1), c2), c3)
      /\ \A n \in 0 .. Len(l) - 1 :
           IssueAll(SubSeq(l, 1, n)) \in {gpu, Issue(gpu, c1), Issue(Issue(gpu, c1), c2)}
  BY IssueThree
<1>4. /\ Embedded = Issue(gpu, c1) /\ RouterIssued = Issue(Issue(gpu, c1), c2)
      /\ RouterAwaited = Issue(Issue(Issue(gpu, c1), c2), c3)
  BY DEF Embedded, RouterIssued, RouterAwaited, c1, c2, c3
<1> HIDE DEF l
<1>5. \A n \in 0 .. Len(l) : n \in 0 .. Len(l) - 1 \/ n = 3
  BY <1>2
<1> QED BY <1>1, <1>2, <1>3, <1>4, <1>5

LEMMA RouteRests ==
  ASSUME NEW v, Resting(gpu, v)
  PROVE  /\ Resting(Embedded, v) /\ Resting(RouterIssued, v) /\ Resting(RouterAwaited, v)
         /\ Routed(RouterAwaited)
<1>1. routerDone \in Events
  BY EventFacts DEF routerDone
<1>2. v.stage = "idle"
  BY DEF Resting
<1> DEFINE c == Embeds
<1>3. c \in Calls /\ c.do = "copy" /\ c.on = "compute"
  BY SlotCallFacts, BufferFacts DEF Calls, Streams
<1>4. MayFollow(gpu, c, v)
  <2>1. SlotCall(c, v) /\ \A d : SlotFollows(d, c, v)
    BY <1>2 DEF SlotCall, SlotFollows
  <2>2. c # Outputs(v.f)
    <3>1. c.to # Outputs(v.f).to
      BY SlotCallFacts, BufferFacts
    <3> QED BY <3>1
  <2>3. \A e : ~Does(c, "record", e)
    BY <1>3 DEF Does
  <2> HIDE DEF c
  <2> QED BY <1>3, <2>1, <2>2, <2>3 DEF MayFollow
<1> DEFINE g == Embedded
<1>5. Resting(g, v) /\ Pushed(gpu, g, c)
  <2>1. g = Issue(gpu, c)
    BY DEF Embedded
  <2> HIDE DEF g, c
  <2> QED BY <1>3, <1>4, <2>1, RestMove
<1> DEFINE C == gpu.queue["compute"]
           A == g.queue["compute"]
<1>6. A # <<>> /\ A[Len(A)] = c /\ A \in Seq(Calls)
  <2>1. C \in Seq(Calls) /\ A = Append(C, c)
    BY <1>5 DEF Resting, Typed, Streams, Pushed
  <2> HIDE DEF C, A, c
  <2> QED BY <1>3, <2>1
<1> HIDE DEF g
<1> DEFINE r == Numbering(g, routerDone)
           h == Issue(g, Record("compute", routerDone))
<1>7. r.do = "record" /\ Does(r, "record", routerDone) /\ ~Does(r, "record", partDone)
      /\ r.number = g.recorded[routerDone] + 1
  BY EventFacts DEF Numbering, Does, routerDone, partDone
<1>8. MayFollow(g, r, v)
  <2> HIDE DEF r
  <2>1. SlotCall(r, v) /\ SlotFollows(c, r, v)
    BY <1>2, <1>7 DEF SlotCall, SlotFollows
  <2> HIDE DEF c
  <2> QED BY <1>6, <2>1 DEF MayFollow
<1>9. Resting(h, v) /\ Pushed(g, h, r) /\ h.recorded[routerDone] = g.recorded[routerDone] + 1
  <2> HIDE DEF h
  <2> QED BY <1>1, <1>5, <1>8, RestRecord DEF h
<1>10. h = RouterIssued
  BY DEF RouterIssued, g
<1> HIDE DEF h
<1> DEFINE B == h.queue["compute"]
<1>11. B # <<>> /\ Does(B[Len(B)], "record", routerDone)
  <2>1. B = Append(A, r) /\ r \in Calls
    <3>1. r.number \in Nat
      <4>1. g.recorded[routerDone] \in Nat
        BY <1>1, <1>5 DEF Resting, Typed
      <4> QED BY <1>7, <4>1
    <3>2. r \in Calls
      BY <1>1, <1>7, <3>1 DEF Calls, Numbering
    <3> QED BY <1>9, <3>2 DEF Pushed
  <2> HIDE DEF A, B, r
  <2>2. B # <<>> /\ B[Len(B)] = r
    BY <1>6, <2>1
  <2> QED BY <1>7, <2>2 DEF r
<1> DEFINE k == Issue(h, Wait("side", routerDone))
           w == Awaiting(h, routerDone)
<1>12. k = RouterAwaited
  BY <1>10 DEF RouterAwaited
<1>13. /\ Resting(k, v) /\ k.recorded = h.recorded /\ k.queue["compute"] = B
       /\ k.queue["side"] = Append(h.queue["side"], w) /\ w \in Calls
  <2> HIDE DEF k
  <2> QED BY <1>1, <1>9, RestWait DEF k
<1> HIDE DEF k
<1>14. Routed(k)
  <2> DEFINE D == h.queue["side"]
             E == k.queue["side"]
  <2>1. D \in Seq(Calls) /\ E = Append(D, w)
    BY <1>9, <1>13 DEF Resting, Typed, Streams
  <2>2. Does(w, "wait", routerDone) /\ w.number = h.recorded[routerDone]
    BY DEF Awaiting, Does
  <2>e. E = k.queue["side"]
    OBVIOUS
  <2> HIDE DEF D, E, w, B
  <2>3. E # <<>> /\ E[Len(E)] = w
    BY <1>13, <2>1
  <2> QED BY <1>11, <1>13, <2>2, <2>3, <2>e DEF Routed, Awaits
<1> QED BY <1>5, <1>9, <1>10, <1>12, <1>13, <1>14 DEF g

(* `t' is `s' with e after it.                                             *)
Grown(s, t, e) == t = Append(s, e)

(* The books after a forward that wants W was added to w and m.            *)
Booked(n, c, held, w, m, w1, m1, W) ==
  /\ BookOf(n, c, held, w1, m1) /\ Len(w) \in Nat /\ Len(w1) = Len(w) + 1
  /\ w1[Len(w1)] = W /\ m1[Len(w1)] = {}
  /\ \A f \in 1 .. Len(w) : w1[f] = w[f] /\ m1[f] = m[f]

(* A forward is added to those there are.                                  *)
LEMMA BookGrows ==
  ASSUME NEW n, NEW c, NEW held, NEW w, NEW m, BookOf(n, c, held, w, m), Len(w) < MaxForwards,
         NEW W, W \in SUBSET Weights, NEW w1, Grown(w, w1, W), NEW m1, Grown(m, m1, {})
  PROVE  Booked(n, c, held, w, m, w1, m1, W)
<1>1. w \in Seq(SUBSET Weights) /\ m \in Seq(SUBSET Weights) /\ Len(m) = Len(w) /\ MaxForwards \in Nat
  BY Numbers DEF BookOf
<1> DEFINE S == SUBSET Weights
<1>2. W \in S /\ {} \in S /\ w \in Seq(S) /\ m \in Seq(S)
  BY <1>1
<1> HIDE DEF S
<1>3. /\ w1 \in Seq(S) /\ Len(w) \in Nat /\ Len(w1) = Len(w) + 1 /\ w1[Len(w) + 1] = W
      /\ \A f \in 1 .. Len(w) : w1[f] = w[f]
  BY <1>2, AppendFacts DEF Grown
<1> DEFINE none == {}
<1>4. none \in S /\ m1 = Append(m, none)
  BY <1>2 DEF Grown
<1> HIDE DEF none
<1>5. /\ m1 \in Seq(S) /\ Len(m1) = Len(m) + 1 /\ m1[Len(m) + 1] = none
      /\ \A f \in 1 .. Len(m) : m1[f] = m[f]
  BY <1>2, <1>4, AppendFacts
<1>6. Len(w1) = Len(m1) /\ Len(w1) <= MaxForwards
  BY <1>1, <1>3, <1>5
<1>7. BookOf(n, c, held, w1, m1)
  BY <1>3, <1>5, <1>6 DEF BookOf, S
<1> QED BY <1>1, <1>3, <1>5, <1>7 DEF none, Booked

(* The forward is added, and the host between forwards or at the router.   *)
LEMMA RouteViews ==
  ASSUME SlotsInv, NEW q, Viewed(q), step.stage = "idle", Len(wanted) < MaxForwards,
         NEW W \in SUBSET Weights, wanted' = Append(wanted, W), misread' = Append(misread, {}),
         cap' = cap, cache' = cache, slot_expert' = slot_expert, stale' = stale,
         step'.stage \in {"idle", "routing"}
  PROVE  LET v == ViewOf(step, wanted, misread, slot_expert, stale, q)
             u == ViewOf(step', wanted', misread', slot_expert', stale', q)
         IN  /\ Resting(gpu, v) /\ Restaged(v, u) /\ u.stage = step'.stage
             /\ BookOf(cap', cache', slot_expert', wanted', misread')
             /\ LastOf(q, step', wanted', misread')
             /\ Len(wanted') > 0 /\ wanted'[Len(wanted')] = W /\ misread'[Len(wanted')] = {}
<1> DEFINE v == ViewOf(step, wanted, misread, slot_expert, stale, q)
           u == ViewOf(step', wanted', misread', slot_expert', stale', q)
           n == Len(wanted)
<1>1. /\ BookOf(cap, cache, slot_expert, wanted, misread)
      /\ LastOf(q, step, wanted, misread)
      /\ Typed(gpu) /\ ViewOk(v) /\ IsView(v, step, wanted, misread, slot_expert, stale, q)
      /\ OnCompute(gpu, v) /\ OnSide(gpu, v) /\ OnNull(gpu, v) /\ SlotsHold(gpu, v) /\ Stored(gpu, v)
  BY SlotsStage
<1>2. IsView(u, step', wanted', misread', slot_expert', stale', q)
  BY ViewParts
<1> HIDE DEF u, v
<1>3. /\ BookOf(cap, cache, slot_expert, wanted', misread') /\ n \in Nat /\ Len(wanted') = n + 1
      /\ wanted'[Len(wanted')] = W /\ misread'[Len(wanted')] = {}
      /\ \A f \in 1 .. n : wanted'[f] = wanted[f] /\ misread'[f] = misread[f]
  <2> DEFINE w1 == wanted'
             m1 == misread'
  <2>1. w1 = Append(wanted, W) /\ m1 = Append(misread, {})
    OBVIOUS
  <2> HIDE DEF w1, m1
  <2>2. /\ BookOf(cap, cache, slot_expert, w1, m1) /\ n \in Nat /\ Len(w1) = n + 1
        /\ w1[Len(w1)] = W /\ m1[Len(w1)] = {}
        /\ \A f \in 1 .. n : w1[f] = wanted[f] /\ m1[f] = misread[f]
    <3> DEFINE w == wanted
               m == misread
    <3>1. BookOf(cap, cache, slot_expert, w, m) /\ Len(w) < MaxForwards /\ W \in SUBSET Weights
      BY <1>1
    <3>2. Grown(w, w1, W) /\ Grown(m, m1, {})
      BY <2>1 DEF Grown
    <3>3. n = Len(w)
      OBVIOUS
    <3>4. \A f \in 1 .. Len(w) : w[f] = wanted[f] /\ m[f] = misread[f]
      OBVIOUS
    <3> HIDE DEF w, m, n
    <3>5. Booked(cap, cache, slot_expert, w, m, w1, m1, W)
      BY <3>1, <3>2, BookGrows
    <3> QED BY <3>3, <3>4, <3>5 DEF Booked
  <2> QED BY <2>2 DEF w1, m1
<1>4. Between(step) /\ Between(step')
  BY DEF Between
<1>5. q.f \in 0 .. n /\ (q.f # 0 => q.W = wanted[q.f] /\ q.M = misread[q.f])
      /\ q.W \subseteq Weights /\ q.M \subseteq Weights
  BY <1>1, <1>4 DEF LastOf
<1>6. LastOf(q, step', wanted', misread')
  <2>1. q.f # 0 => q.f \in 1 .. n
    BY <1>3, <1>5
  <2>2. q.f \in 0 .. Len(wanted') /\ q.f < Len(wanted')
    BY <1>3, <1>5
  <2> QED BY <1>3, <1>5, <2>1, <2>2 DEF LastOf
<1>7. /\ v.stage = "idle" /\ v.held = slot_expert /\ v.stale = stale /\ v.pending = {}
      /\ v.f = q.f /\ v.W = q.W /\ v.M = q.M /\ v.H = {}
      /\ v.ended = n /\ v.wanted = wanted /\ v.misread = misread
  BY <1>1, <1>4 DEF IsView
<1>8. /\ u.stage = step'.stage /\ u.held = slot_expert /\ u.stale = stale /\ u.pending = {}
      /\ u.f = q.f /\ u.W = q.W /\ u.M = q.M /\ u.H = {}
      /\ u.ended \in {Len(wanted'), Len(wanted') - 1} /\ u.wanted = wanted' /\ u.misread = misread'
  BY <1>2, <1>4 DEF IsView
<1>9. Restaged(v, u)
  <2>1. ASSUME NEW f \in 1 .. MaxForwards, f <= v.ended
        PROVE  f <= u.ended /\ u.wanted[f] = v.wanted[f] /\ u.misread[f] = v.misread[f]
    <3>1. f \in 1 .. n
      BY <1>3, <1>7, <2>1
    <3>2. f <= u.ended
      BY <1>3, <1>8, <3>1
    <3> QED BY <1>3, <1>7, <1>8, <3>1, <3>2
  <2> QED BY <1>7, <1>8, <2>1 DEF Restaged
<1>10. Resting(gpu, v)
  BY <1>1, <1>7 DEF Resting, SlotsBase
<1>11. Len(wanted') > 0
  BY <1>3
<1> QED BY <1>3, <1>6, <1>8, <1>9, <1>10, <1>11 DEF u, v

LEMMA SlotsRoute ==
  ASSUME SlotsInv, Route
  PROVE  SlotsInv'
<1>q. PICK q : Viewed(q)
  BY DEF SlotsInv
<1> DEFINE v == ViewOf(step, wanted, misread, slot_expert, stale, q)
           u == ViewOf(step', wanted', misread', slot_expert', stale', q)
<1>1. PICK ids \in [1 .. TopK -> Weights] :
        /\ IsInjective(ids) /\ wanted' = Append(wanted, ToSet(ids))
        /\ step' = [stage |-> "routing", ids |-> ids]
  BY DEF Route
<1>2. /\ step.stage = "idle" /\ Len(wanted) < MaxForwards
      /\ gpu' = IssueAll(RouteCalls) /\ misread' = Append(misread, {})
      /\ cap' = cap /\ cache' = cache /\ slot_expert' = slot_expert /\ stale' = stale
  BY DEF Route, Idle
<1>3. ids \in Seq(Weights) /\ Apart(ids) /\ ToSet(ids) \in SUBSET Weights
  <2>1. TopK \in Nat
    BY SlotsAssumption
  <2>2. ids \in Seq(Weights) /\ Len(ids) = TopK /\ DOMAIN ids = 1 .. TopK
    BY <2>1
  <2> QED BY <1>1, <2>2 DEF Apart, IsInjective, ToSet
<1>4. step'.stage = "routing" /\ step'.ids = ids
  BY <1>1
<1>5. /\ Resting(gpu, v) /\ Restaged(v, u) /\ u.stage = "routing"
      /\ BookOf(cap', cache', slot_expert', wanted', misread')
      /\ LastOf(q, step', wanted', misread')
      /\ Len(wanted') > 0 /\ wanted'[Len(wanted')] = ToSet(ids) /\ misread'[Len(wanted')] = {}
  <2> DEFINE W == ToSet(ids)
  <2>1. wanted' = Append(wanted, W) /\ W \in SUBSET Weights
    BY <1>1, <1>3
  <2> HIDE DEF W, u, v
  <2>2. /\ Resting(gpu, v) /\ Restaged(v, u) /\ u.stage = step'.stage
        /\ BookOf(cap', cache', slot_expert', wanted', misread')
        /\ LastOf(q, step', wanted', misread')
        /\ Len(wanted') > 0 /\ wanted'[Len(wanted')] = W /\ misread'[Len(wanted')] = {}
    BY <1>q, <1>2, <1>4, <2>1, RouteViews DEF u, v
  <2> QED BY <1>4, <2>2 DEF W
<1>6. StepOf(step', slot_expert', wanted', misread')
  BY <1>3, <1>4, <1>5 DEF StepOf
<1> HIDE DEF u, v
<1>7. gpu' = RouterAwaited
  BY <1>2, RouteIssued
<1>8. Resting(gpu', v) /\ Routed(gpu')
  BY <1>5, <1>7, RouteRests
<1>9. SlotsBase(gpu', u)
  BY <1>5, <1>8, Restage DEF Resting
<1>10. Typed(gpu')
  BY <1>8 DEF Resting
<1> QED BY <1>5, <1>6, <1>9, <1>10, SlotsAre DEF u

LEMMA SlotsRouteFails ==
  ASSUME SlotsInv, RouteFails
  PROVE  SlotsInv'
<1>q. PICK q : Viewed(q)
  BY DEF SlotsInv
<1> DEFINE v == ViewOf(step, wanted, misread, slot_expert, stale, q)
           u == ViewOf(step', wanted', misread', slot_expert', stale', q)
           W == {}
<1>1. /\ step.stage = "idle" /\ Len(wanted) < MaxForwards /\ step' = step
      /\ wanted' = Append(wanted, W) /\ misread' = Append(misread, {})
      /\ cap' = cap /\ cache' = cache /\ slot_expert' = slot_expert /\ stale' = stale
  BY DEF RouteFails, Idle
<1>2. gpu' \in {gpu, Embedded, RouterIssued, RouterAwaited}
  BY RouteIssued DEF RouteFails
<1>3. W \in SUBSET Weights
  OBVIOUS
<1> HIDE DEF W, u, v
<1>4. /\ Resting(gpu, v) /\ Restaged(v, u) /\ u.stage = step'.stage
      /\ BookOf(cap', cache', slot_expert', wanted', misread')
      /\ LastOf(q, step', wanted', misread')
  BY <1>q, <1>1, <1>3, RouteViews DEF u, v
<1>5. StepOf(step', slot_expert', wanted', misread')
  BY <1>1 DEF StepOf
<1>6. Resting(gpu', v)
  BY <1>2, <1>4, RouteRests
<1>7. SlotsBase(gpu', u)
  BY <1>1, <1>4, <1>6, Restage DEF Resting
<1>8. Typed(gpu')
  BY <1>6 DEF Resting
<1> QED BY <1>4, <1>5, <1>7, <1>8, SlotsAre DEF u

(***************************************************************************)
(* The bounded path: the launch                                            *)
(***************************************************************************)
LEMMA ConcatFive ==
  ASSUME NEW c1, NEW c2, NEW c3, NEW c4, NEW c5
  PROVE  <<c1, c2>> \o <<c3, c4, c5>> = <<c1, c2, c3, c4, c5>>
<1> DEFINE S == {c1, c2, c3, c4, c5}
           s == <<c1, c2>>
           u == <<c3, c4, c5>>
           w == <<c1, c2, c3, c4, c5>>
           r == s \o u
<1>1. c1 \in S /\ c2 \in S /\ c3 \in S /\ c4 \in S /\ c5 \in S
  OBVIOUS
<1> HIDE DEF S
<1>2. s \in Seq(S) /\ u \in Seq(S) /\ w \in Seq(S)
  BY <1>1
<1>3. Len(s) = 2 /\ s[1] = c1 /\ s[2] = c2
  OBVIOUS
<1>4. Len(u) = 3 /\ u[1] = c3 /\ u[2] = c4 /\ u[3] = c5
  OBVIOUS
<1>5. Len(w) = 5 /\ w[1] = c1 /\ w[2] = c2 /\ w[3] = c3 /\ w[4] = c4 /\ w[5] = c5
  OBVIOUS
<1> HIDE DEF s, u, w
<1>6. /\ r \in Seq(S) /\ Len(r) = Len(s) + Len(u)
      /\ \A i \in 1 .. Len(s) + Len(u) : r[i] = IF i <= Len(s) THEN s[i] ELSE u[i - Len(s)]
  BY <1>2, ConcatProperties
<1> HIDE DEF r
<1>7. Len(r) = 5 /\ r[1] = c1 /\ r[2] = c2 /\ r[3] = c3 /\ r[4] = c4 /\ r[5] = c5
  BY <1>3, <1>4, <1>6
<1>8. \A i \in 1 .. 5 : r[i] = w[i]
  BY <1>5, <1>7
<1>9. r = w
  BY <1>2, <1>5, <1>6, <1>7, <1>8, SeqEqual
<1> QED BY <1>9 DEF r, s, u, w

LEMMA ConcatEnds ==
  ASSUME NEW c1, NEW c2, NEW c3
  PROVE  /\ <<c1, c2>> \o <<>> = <<c1, c2>>
         /\ <<>> \o <<c1, c2, c3>> = <<c1, c2, c3>>
<1>1. <<c1, c2>> \in Seq({c1, c2})
  OBVIOUS
<1>2. <<c1, c2, c3>> \in Seq({c1, c2, c3})
  OBVIOUS
<1> QED BY <1>1, <1>2, ConcatEmptySeq

(* The two parts of a launch: the gathered experts, and x to the host.     *)
Part(g, G)  == Issue(Issue(g, Gathers(G)), Record("compute", partDone))
ForwardX(g) == Issue(Issue(Issue(g, Wait("side", routerDone)), Wait("side", partDone)), ToHost)

LEMMA LaunchedCalls ==
  ASSUME NEW G, NEW k
  PROVE  IssueAll((IF G = {} THEN <<>> ELSE <<Gathers(G), Record("compute", partDone)>>)
                  \o (IF k = {} THEN <<>> ELSE <<Wait("side", routerDone), Wait("side", partDone), ToHost>>))
           = LET g == IF G = {} THEN gpu ELSE Part(gpu, G)
             IN  IF k = {} THEN g ELSE ForwardX(g)
<1> DEFINE c1 == Gathers(G)
           c2 == Record("compute", partDone)
           c3 == Wait("side", routerDone)
           c4 == Wait("side", partDone)
           c5 == ToHost
<1> HIDE DEF c1, c2, c3, c4, c5
<1>1. /\ IssueAll(<<>> \o <<>>) = gpu
      /\ IssueAll(<<c1, c2>> \o <<>>) = Issue(Issue(gpu, c1), c2)
  <2>1. <<>> \o <<>> = <<>>
    OBVIOUS
  <2>2. IssueAll(<<c1, c2>>) = Issue(Issue(gpu, c1), c2)
    BY IssueTwo
  <2> QED BY <2>1, <2>2, ConcatEnds, IssueNone
<1>2. IssueAll(<<>> \o <<c3, c4, c5>>) = Issue(Issue(Issue(gpu, c3), c4), c5)
  <2>1. IssueAll(<<c3, c4, c5>>) = Issue(Issue(Issue(gpu, c3), c4), c5)
    BY IssueThree
  <2> QED BY <2>1, ConcatEnds
<1>3. IssueAll(<<c1, c2>> \o <<c3, c4, c5>>) = Issue(Issue(Issue(Issue(Issue(gpu, c1), c2), c3), c4), c5)
  <2> DEFINE l == <<c1, c2, c3, c4, c5>>
  <2>1. Len(l) = 5 /\ l[1] = c1 /\ l[2] = c2 /\ l[3] = c3 /\ l[4] = c4 /\ l[5] = c5
    OBVIOUS
  <2>2. <<c1, c2>> \o <<c3, c4, c5>> = l
    BY ConcatFive
  <2> HIDE DEF l
  <2>3. IssueAll(l) = Issue(Issue(Issue(Issue(Issue(gpu, l[1]), l[2]), l[3]), l[4]), l[5])
    BY <2>1, IssueSteps
  <2> QED BY <2>1, <2>2, <2>3
<1>4. /\ Part(gpu, G) = Issue(Issue(gpu, c1), c2)
      /\ \A g : ForwardX(g) = Issue(Issue(Issue(g, c3), c4), c5)
  BY DEF Part, ForwardX, c1, c2, c3, c4, c5
<1>5. IssueAll((IF G = {} THEN <<>> ELSE <<c1, c2>>) \o (IF k = {} THEN <<>> ELSE <<c3, c4, c5>>))
        = LET g == IF G = {} THEN gpu ELSE Part(gpu, G)
          IN  IF k = {} THEN g ELSE ForwardX(g)
  <2>1. CASE G = {} /\ k = {}
    BY <1>1, <2>1
  <2>2. CASE G # {} /\ k = {}
    BY <1>1, <1>4, <2>2
  <2>3. CASE G = {} /\ k # {}
    BY <1>2, <1>4, <2>3
  <2>4. CASE G # {} /\ k # {}
    BY <1>3, <1>4, <2>4
  <2> QED BY <2>1, <2>2, <2>3, <2>4
<1> QED BY <1>5, Zenon DEF c1, c2, c3, c4, c5

(* h is g with the gathered experts and their record queued.               *)
PartOf(g, h, G, r) ==
  /\ Typed(h) /\ h.memory = g.memory /\ h.seen = g.seen /\ h.completed = g.completed
  /\ h.recorded[partDone] = r.number
  /\ \A e \in Events : e # partDone => h.recorded[e] = g.recorded[e]
  /\ Gathers(G) \in Calls /\ r \in Calls
  /\ h.queue["compute"] = Append(Append(g.queue["compute"], Gathers(G)), r)
  /\ h.queue["side"] = g.queue["side"] /\ h.queue["null"] = g.queue["null"]

LEMMA PartFacts ==
  ASSUME NEW g, Typed(g), NEW G \in SUBSET (Int \X Buffers)
  PROVE  PartOf(g, Part(g, G), G, Numbering(g, partDone))
<1> DEFINE r == Numbering(g, partDone)
           c == Gathers(G)
           g1 == Issue(g, c)
           h == Issue(g1, Record("compute", partDone))
<1>1. c \in Calls /\ c.do = "accumulate" /\ c.on = "compute"
  BY SlotCallFacts, BufferFacts DEF Calls, Streams
<1> HIDE DEF c
<1>2. /\ Typed(g1) /\ g1.memory = g.memory /\ g1.seen = g.seen /\ g1.recorded = g.recorded
      /\ g1.completed = g.completed /\ g1.queue["compute"] = Append(g.queue["compute"], c)
      /\ g1.queue["side"] = g.queue["side"] /\ g1.queue["null"] = g.queue["null"]
  <2>1. c.do \in {"copy", "accumulate"} /\ c.on \in Streams
    BY <1>1 DEF Streams
  <2>2. /\ Typed(Issue(g, c)) /\ Issue(g, c).memory = g.memory /\ Issue(g, c).seen = g.seen
        /\ Issue(g, c).recorded = g.recorded /\ Issue(g, c).completed = g.completed
        /\ Issue(g, c).queue[c.on] = Append(g.queue[c.on], c)
        /\ \A t \in Streams : t # c.on => Issue(g, c).queue[t] = g.queue[t]
    BY <1>1, <2>1, IssueMove
  <2> QED BY <1>1, <2>2 DEF Streams
<1> HIDE DEF g1
<1>3. partDone \in Events /\ "compute" \in Streams
  BY EventFacts DEF partDone, Streams
<1>4. Numbering(g1, partDone) = r /\ r.number = g.recorded[partDone] + 1
  BY <1>2 DEF Numbering
<1> HIDE DEF h, r
<1>5. /\ Typed(h) /\ Numbering(g1, partDone) \in Calls
      /\ h.memory = g1.memory /\ h.seen = g1.seen /\ h.completed = g1.completed
      /\ h.recorded[partDone] = g1.recorded[partDone] + 1
      /\ \A d \in Events : d # partDone => h.recorded[d] = g1.recorded[d]
      /\ h.queue["compute"] = Append(g1.queue["compute"], Numbering(g1, partDone))
      /\ \A t \in Streams : t # "compute" => h.queue[t] = g1.queue[t]
  BY <1>2, <1>3, IssueRecord, ZenonT(60) DEF h
<1>6. Part(g, G) = h
  BY DEF Part, h, g1, c
<1>7. PartOf(g, h, G, r)
  BY <1>1, <1>2, <1>4, <1>5 DEF Streams, PartOf, c
<1> QED BY <1>6, <1>7 DEF r

LEMMA ForwardXFacts ==
  ASSUME NEW g, Typed(g)
  PROVE  LET h == ForwardX(g)
             w1 == Awaiting(g, routerDone)
             w2 == Awaiting(g, partDone)
         IN  /\ Typed(h) /\ h.memory = g.memory /\ h.seen = g.seen /\ h.completed = g.completed
             /\ h.recorded = g.recorded
             /\ h.queue["side"] = Append(Append(Append(g.queue["side"], w1), w2), ToHost)
             /\ h.queue["compute"] = g.queue["compute"] /\ h.queue["null"] = g.queue["null"]
<1> DEFINE c == ToHost
           w1 == Awaiting(g, routerDone)
           w2 == Awaiting(g, partDone)
           g1 == Issue(g, Wait("side", routerDone))
           g2 == Issue(g1, Wait("side", partDone))
           h == Issue(g2, c)
<1>1. c \in Calls /\ c.do = "copy" /\ c.on = "side"
  BY SlotCallFacts, BufferFacts DEF Calls, Streams
<1> HIDE DEF c
<1>2. partDone \in Events /\ routerDone \in Events /\ "side" \in Streams
  BY EventFacts DEF partDone, routerDone, Streams
<1>3. /\ Typed(g1) /\ g1.memory = g.memory /\ g1.seen = g.seen /\ g1.completed = g.completed
      /\ g1.recorded = g.recorded /\ g1.queue["side"] = Append(g.queue["side"], w1)
      /\ \A t \in Streams : t # "side" => g1.queue[t] = g.queue[t]
  <2> HIDE DEF g1, w1
  <2> QED BY <1>2, IssueWait DEF g1, w1
<1> HIDE DEF g1
<1>4. Awaiting(g1, partDone) = w2
  BY <1>3 DEF Awaiting
<1>5. /\ Typed(g2) /\ g2.memory = g1.memory /\ g2.seen = g1.seen /\ g2.completed = g1.completed
      /\ g2.recorded = g1.recorded /\ g2.queue["side"] = Append(g1.queue["side"], Awaiting(g1, partDone))
      /\ \A t \in Streams : t # "side" => g2.queue[t] = g1.queue[t]
  <2> HIDE DEF g2
  <2> QED BY <1>2, <1>3, IssueWait, ZenonT(60) DEF g2
<1> HIDE DEF g2
<1>6. /\ Typed(h) /\ h.memory = g2.memory /\ h.seen = g2.seen /\ h.completed = g2.completed
      /\ h.recorded = g2.recorded /\ h.queue["side"] = Append(g2.queue["side"], c)
      /\ \A t \in Streams : t # "side" => h.queue[t] = g2.queue[t]
  <2>1. c.do \in {"copy", "accumulate"} /\ c.on \in Streams
    BY <1>1 DEF Streams
  <2>2. /\ Typed(Issue(g2, c)) /\ Issue(g2, c).memory = g2.memory /\ Issue(g2, c).seen = g2.seen
        /\ Issue(g2, c).recorded = g2.recorded /\ Issue(g2, c).completed = g2.completed
        /\ Issue(g2, c).queue[c.on] = Append(g2.queue[c.on], c)
        /\ \A t \in Streams : t # c.on => Issue(g2, c).queue[t] = g2.queue[t]
    BY <1>1, <1>5, <2>1, IssueMove
  <2> QED BY <1>1, <2>2
<1>7. ForwardX(g) = h
  BY DEF ForwardX, h, g2, g1, c
<1> HIDE DEF h, w1, w2
<1>8. h.queue["side"] = Append(Append(Append(g.queue["side"], w1), w2), c)
  BY <1>3, <1>4, <1>5, <1>6, Zenon
<1>9. h.queue["compute"] = g.queue["compute"] /\ h.queue["null"] = g.queue["null"]
  BY <1>3, <1>5, <1>6 DEF Streams
<1>10. Typed(h) /\ h.memory = g.memory /\ h.seen = g.seen /\ h.completed = g.completed /\ h.recorded = g.recorded
  BY <1>3, <1>5, <1>6
<1> QED BY <1>7, <1>8, <1>9, <1>10 DEF c, w1, w2

(* What a launch does to the device, when nothing was queued.              *)
LEMMA LaunchIssued ==
  ASSUME Typed(gpu), gpu.queue["compute"] = <<>>, gpu.queue["side"] = <<>>,
         NEW G \in SUBSET (Int \X Buffers), NEW k, NEW r, r = Numbering(gpu, partDone),
         gpu' = LET g == IF G = {} THEN gpu ELSE Part(gpu, G)
                IN  IF k = {} THEN g ELSE ForwardX(g)
  PROVE  /\ Typed(gpu') /\ gpu'.memory = gpu.memory /\ gpu'.seen = gpu.seen
         /\ gpu'.completed = gpu.completed
         /\ gpu'.queue["null"] = gpu.queue["null"]
         /\ G = {} => gpu'.queue["compute"] = <<>> /\ gpu'.recorded = gpu.recorded
         /\ G # {} => /\ gpu'.queue["compute"] = Append(Append(<<>>, Gathers(G)), r)
                      /\ Gathers(G) \in Calls /\ r \in Calls
                      /\ gpu'.recorded[partDone] = r.number
                      /\ \A e \in Events : e # partDone => gpu'.recorded[e] = gpu.recorded[e]
         /\ k = {} => gpu'.queue["side"] = <<>>
         /\ k # {} => \E w1, w2 : /\ gpu'.queue["side"] = Append(Append(Append(<<>>, w1), w2), ToHost)
                                  /\ w1.do = "wait" /\ Awaits(gpu', w2, partDone)
<1> DEFINE g == IF G = {} THEN gpu ELSE Part(gpu, G)
           w1 == Awaiting(g, routerDone)
           w2 == Awaiting(g, partDone)
<1>1. /\ Typed(g) /\ g.memory = gpu.memory /\ g.seen = gpu.seen /\ g.completed = gpu.completed
      /\ g.queue["null"] = gpu.queue["null"] /\ g.queue["side"] = <<>>
      /\ G = {} => g.queue["compute"] = <<>> /\ g.recorded = gpu.recorded
      /\ G # {} => /\ g.queue["compute"] = Append(Append(<<>>, Gathers(G)), r)
                   /\ Gathers(G) \in Calls /\ r \in Calls
                   /\ g.recorded[partDone] = r.number
                   /\ \A e \in Events : e # partDone => g.recorded[e] = gpu.recorded[e]
  <2>1. CASE G = {}
    BY <2>1
  <2>2. CASE G # {}
    <3> DEFINE h == Part(gpu, G)
    <3>1. g = h
      BY <2>2
    <3> HIDE DEF g
    <3>2. PartOf(gpu, h, G, r)
      BY PartFacts
    <3> HIDE DEF h
    <3> QED BY <2>2, <3>1, <3>2 DEF PartOf
  <2> QED BY <2>1, <2>2
<1>2. gpu' = IF k = {} THEN g ELSE ForwardX(g)
  OBVIOUS
<1> HIDE DEF g
<1>3. CASE k = {}
  BY <1>1, <1>2, <1>3
<1>4. CASE k # {}
  <2> DEFINE h == ForwardX(g)
  <2>1. gpu' = h
    BY <1>2, <1>4
  <2> HIDE DEF h, w1, w2
  <2>2. /\ Typed(h) /\ h.memory = g.memory /\ h.seen = g.seen /\ h.completed = g.completed
        /\ h.recorded = g.recorded
        /\ h.queue["side"] = Append(Append(Append(g.queue["side"], w1), w2), ToHost)
        /\ h.queue["compute"] = g.queue["compute"] /\ h.queue["null"] = g.queue["null"]
    BY <1>1, ForwardXFacts DEF h, w1, w2
  <2>3. w1.do = "wait" /\ Does(w2, "wait", partDone) /\ w2.number = g.recorded[partDone]
    BY DEF w1, w2, Awaiting, Does
  <2>4. Awaits(gpu', w2, partDone)
    BY <2>1, <2>2, <2>3 DEF Awaits
  <2>5. gpu'.queue["side"] = Append(Append(Append(<<>>, w1), w2), ToHost)
    BY <1>1, <2>1, <2>2, Zenon
  <2>6. \E a1, a2 : /\ gpu'.queue["side"] = Append(Append(Append(<<>>, a1), a2), ToHost)
                    /\ a1.do = "wait" /\ Awaits(gpu', a2, partDone)
    BY <2>3, <2>4, <2>5, Zenon
  <2> QED BY <1>1, <1>4, <2>1, <2>2, <2>6
<1> QED BY <1>3, <1>4

LEMMA ThreeCalls ==
  ASSUME NEW w1, NEW w2, NEW c
  PROVE  LET D == Append(Append(Append(<<>>, w1), w2), c)
         IN  D # <<>> /\ Len(D) = 3 /\ D[1] = w1 /\ D[2] = w2 /\ D[3] = c
<1> DEFINE S == {w1, w2, c}
           A == Append(<<>>, w1)
           B == Append(A, w2)
           D == Append(B, c)
<1>1. w1 \in S /\ w2 \in S /\ c \in S /\ <<>> \in Seq(S) /\ Len(<<>>) = 0
  OBVIOUS
<1> HIDE DEF S
<1>2. A \in Seq(S) /\ A[Len(<<>>) + 1] = w1 /\ Len(A) = Len(<<>>) + 1
  BY <1>1, AppendFacts
<1> HIDE DEF A
<1>a. A \in Seq(S)
  BY <1>2
<1>3. B \in Seq(S) /\ Len(B) = Len(A) + 1 /\ B[Len(A) + 1] = w2 /\ \A i \in 1 .. Len(A) : B[i] = A[i]
  BY <1>1, <1>a, AppendFacts
<1> HIDE DEF B
<1>b. B \in Seq(S)
  BY <1>3
<1>4. /\ D # <<>> /\ Len(D) = Len(B) + 1 /\ D[Len(B) + 1] = c
      /\ \A i \in 1 .. Len(B) : D[i] = B[i]
  BY <1>1, <1>b, AppendFacts
<1> HIDE DEF D
<1>5. Len(A) = 1 /\ Len(B) = 2 /\ Len(D) = 3
  BY <1>1, <1>2, <1>3, <1>4
<1>6. A[1] = w1 /\ B[1] = A[1] /\ B[2] = w2 /\ D[1] = B[1] /\ D[2] = B[2] /\ D[3] = c
  BY <1>1, <1>2, <1>3, <1>4, <1>5
<1> QED BY <1>4, <1>5, <1>6 DEF D, B, A

(* The compute stream after a launch.                                      *)
LEMMA LaunchedCompute ==
  ASSUME NEW g, NEW h, NEW u, NEW G, NEW r,
         Typed(g), h.completed = g.completed, h.memory[x] = Residual, h.seen["compute"] = <<>>,
         u.stage \in {"fallback", "output"}, Gathered(h.memory, G, u), u.M \in SUBSET Weights,
         G = {} => h.queue["compute"] = <<>> /\ u.M = {},
         r = Numbering(g, partDone),
         G # {} => /\ h.queue["compute"] = Append(Append(<<>>, Gathers(G)), r)
                   /\ Gathers(G) \in Calls /\ r \in Calls
                   /\ h.recorded[partDone] = r.number
                   /\ \A e \in Events : e # partDone => h.recorded[e] = g.recorded[e]
  PROVE  OnCompute(h, u)
<1>1. CASE G = {}
  <2>1. u.H = u.W /\ u.M = {} /\ h.queue["compute"] = <<>>
    BY <1>1 DEF Gathered
  <2>2. Right(Residual, u.W, u.M, u.H)
    BY <2>1 DEF Right
  <2>3. Drained(h, u)
    BY <2>2 DEF Drained
  <2> QED BY <2>1, <2>3, ComputeEmpty
<1>2. CASE G # {}
  <2> DEFINE c == Gathers(G)
             A == Append(<<>>, c)
             T == Append(A, r)
  <2>1. c \in Calls /\ r \in Calls /\ h.queue["compute"] = T
    BY <1>2
  <2>2. c.do = "accumulate" /\ c.terms = G /\ c = Gathers(c.terms)
    BY SlotCallFacts
  <2>3. r.do = "record" /\ r.event = partDone /\ r.number = g.recorded[partDone] + 1
    BY DEF Numbering
  <2>4. h.recorded[partDone] = r.number
        /\ \A e \in Events : e # partDone => h.recorded[e] = g.recorded[e]
    BY <1>2
  <2> HIDE DEF c
  <2>5. <<>> \in Seq(Calls) /\ Len(<<>>) = 0 /\ A \in Seq(Calls) /\ Len(A) = 1 /\ A[1] = c
    BY <2>1
  <2>6. Numbered(g, <<>>)
    BY <2>5 DEF Numbered
  <2>7. Numbered(g, A)
    BY <2>1, <2>2, <2>5, <2>6, NumberedPush
  <2> HIDE DEF A
  <2>8. Numbered(h, T)
    BY <2>1, <2>3, <2>4, <2>5, <2>7, NumberedRecord
  <2>9. T # <<>> /\ Len(T) = 2 /\ T[1] = c /\ T[2] = r
    BY <2>1, <2>5
  <2> HIDE DEF T
  <2>10. Does(r, "record", partDone)
    BY <2>3 DEF Does
  <2>11. \A i \in 1 .. Len(T) : SlotCall(T[i], u)
    <3>1. SlotCall(c, u) /\ SlotCall(r, u)
      BY <2>2, <2>10 DEF SlotCall
    <3>2. \A i \in 1 .. Len(T) : i = 1 \/ i = 2
      BY <2>9
    <3> QED BY <2>9, <3>1, <3>2
  <2>12. \A i \in 1 .. Len(T) - 1 : SlotFollows(T[i], T[i + 1], u)
    <3>1. SlotFollows(c, r, u)
      BY <2>2, <2>10 DEF SlotFollows
    <3>2. \A i \in 1 .. Len(T) - 1 : i = 1 /\ i + 1 = 2
      BY <2>9
    <3> QED BY <2>9, <3>1, <3>2
  <2>13. HeadHolds(h, u)
    <3>1. c # Outputs(u.f) /\ c # Embeds /\ ~Does(c, "record", partDone) /\ ~Does(c, "record", routerDone)
      BY <2>2, SlotCallFacts DEF Does
    <3>2. h.queue["compute"][1] = c
      BY <2>1, <2>9
    <3> QED BY <2>2, <3>1, <3>2 DEF HeadHolds
  <2>14. EndsAs(T, u)
    BY <2>9, <2>10 DEF EndsAs
  <2>15. Drained(h, u)
    BY <2>1, <2>9 DEF Drained
  <2> QED BY <2>1, <2>8, <2>11, <2>12, <2>13, <2>14, <2>15 DEF OnCompute
<1> QED BY <1>1, <1>2

(* The view u of a launch from the upload stage st, whose view is v.       *)
Launches(st, v, u, W) ==
  /\ UploadOf(st, v.held, W) /\ st.upload = <<>> /\ v.pending = {}
  /\ u.W = W /\ u.H = st.cpu
  /\ u.M = {g[1] : g \in {t \in st.gather : t[2][2] \in v.stale}}

(* What a launch gathers is in the slots, but for the stale ones.          *)
LEMMA LaunchGathers ==
  ASSUME NEW st, NEW v, NEW u, NEW W \in SUBSET Weights, Launches(st, v, u, W),
         ViewOk(v), SlotsHold(gpu, v), gpu.queue["null"] = <<>>
  PROVE  /\ Gathered(gpu.memory, st.gather, u)
         /\ st.gather \in SUBSET (Int \X Buffers)
         /\ u.M \in SUBSET Weights /\ (st.gather = {} => u.M = {})
<1>0. /\ UploadOf(st, v.held, W) /\ st.upload = <<>> /\ v.pending = {}
      /\ u.W = W /\ u.H = st.cpu
      /\ u.M = {g[1] : g \in {t \in st.gather : t[2][2] \in v.stale}}
  BY DEF Launches
<1>1. \A t \in st.gather : \E s \in DOMAIN v.held : t = <<v.held[s], SlotOf(s)>> /\ v.held[s] \in Weights
  BY <1>0 DEF UploadOf
<1>2. Uploading(gpu.queue["null"]) = {}
  BY UploadingNone
<1>3. ASSUME NEW t \in st.gather
      PROVE  /\ \E s \in Slots : /\ t = <<t[1], SlotOf(s)>>
                                 /\ t[1] \in u.M \/ gpu.memory[SlotOf(s)] = {<<t[1], t[1]>>}
             /\ t \in Int \X Buffers /\ t[1] \in Weights
  <2>1. PICK s \in DOMAIN v.held : t = <<v.held[s], SlotOf(s)>> /\ v.held[s] \in Weights
    BY <1>1
  <2>2. s \in Slots /\ v.held[s] \in Int /\ v.held[s] # -1 /\ SlotOf(s) \in Buffers
    BY <2>1, Numbers, BufferFacts DEF ViewOk, SlotOf
  <2>3. t[1] = v.held[s] /\ t[2] = SlotOf(s) /\ t[2][2] = s
    BY <2>1 DEF SlotOf
  <2>4. CASE s \in v.stale
    BY <1>0, <2>1, <2>2, <2>3, <2>4
  <2>5. CASE s \notin v.stale
    <3>1. gpu.memory[SlotOf(s)] = {<<v.held[s], v.held[s]>>}
      BY <1>0, <1>2, <2>2, <2>5 DEF SlotsHold
    <3> QED BY <2>1, <2>2, <2>3, <3>1
  <2> QED BY <2>4, <2>5
<1>4. {t[1] : t \in st.gather} \cup st.cpu = W
  BY <1>0 DEF UploadOf
<1>5. Gathered(gpu.memory, st.gather, u)
  BY <1>0, <1>3, <1>4 DEF Gathered
<1>6. st.gather \in SUBSET (Int \X Buffers)
  BY <1>3
<1>7. u.M \in SUBSET Weights /\ (st.gather = {} => u.M = {})
  BY <1>0, <1>3
<1> QED BY <1>5, <1>6, <1>7

LEMMA SlotsLaunch ==
  ASSUME SlotsInv, Launch
  PROVE  SlotsInv'
<1>q. PICK q : Viewed(q)
  BY DEF SlotsInv
<1> DEFINE v == ViewOf(step, wanted, misread, slot_expert, stale, q)
           u == ViewOf(step', wanted', misread', slot_expert', stale', q)
           n == Len(wanted)
           M == {g[1] : g \in {t \in step.gather : t[2][2] \in stale}}
           r == Numbering(gpu, partDone)
<1>1. /\ BookOf(cap, cache, slot_expert, wanted, misread)
      /\ StepOf(step, slot_expert, wanted, misread)
      /\ Typed(gpu) /\ ViewOk(v) /\ IsView(v, step, wanted, misread, slot_expert, stale, q)
      /\ OnCompute(gpu, v) /\ OnSide(gpu, v) /\ OnNull(gpu, v) /\ SlotsHold(gpu, v) /\ Stored(gpu, v)
  BY <1>q, SlotsStage
<1>2. IsView(u, step', wanted', misread', slot_expert', stale', q)
  BY ViewParts
<1> HIDE DEF u, v
<1>3. /\ step.stage = "upload" /\ step.upload = <<>> /\ gpu.queue["null"] = <<>>
      /\ step' = [stage |-> IF step.cpu = {} THEN "output" ELSE "fallback", cpu |-> step.cpu]
      /\ misread' = [misread EXCEPT ![n] = M]
      /\ cap' = cap /\ cache' = cache /\ slot_expert' = slot_expert /\ wanted' = wanted /\ stale' = stale
  BY DEF Launch, Synchronized
<1>4. gpu' = LET g == IF step.gather = {} THEN gpu ELSE Part(gpu, step.gather)
             IN  IF step.cpu = {} THEN g ELSE ForwardX(g)
  <2>1. gpu' = IssueAll((IF step.gather = {} THEN <<>>
                         ELSE <<Gathers(step.gather), Record("compute", partDone)>>)
                        \o (IF step.cpu = {} THEN <<>>
                            ELSE <<Wait("side", routerDone), Wait("side", partDone), ToHost>>))
    BY Zenon DEF Launch, LaunchCalls, FallbackCalls, Gathers, ToHost, routerDone, partDone
  <2> QED BY <2>1, LaunchedCalls, Zenon
<1>5. UploadOf(step, slot_expert, wanted[n]) /\ misread[n] = {} /\ n > 0
  BY <1>1, <1>3 DEF StepOf
<1>6. /\ wanted \in Seq(SUBSET Weights) /\ misread \in Seq(SUBSET Weights) /\ Len(misread) = n
      /\ n \in Nat /\ n \in 1 .. n /\ wanted[n] \in SUBSET Weights
  <2>1. /\ wanted \in Seq(SUBSET Weights) /\ misread \in Seq(SUBSET Weights) /\ Len(misread) = n
    BY <1>1 DEF BookOf
  <2>2. n \in Nat /\ n \in 1 .. n
    BY <1>5, <2>1
  <2> QED BY <2>1, <2>2
<1>7. step'.stage = (IF step.cpu = {} THEN "output" ELSE "fallback") /\ step'.cpu = step.cpu
  BY <1>3
<1>8. misread'[n] = M /\ \A f \in 1 .. n : f # n => misread'[f] = misread[f]
  <2>1. n \in DOMAIN misread /\ DOMAIN misread = 1 .. n
    BY <1>6
  <2> HIDE DEF M
  <2> QED BY <1>3, <2>1
<1>9. /\ v.stage = "upload" /\ v.held = slot_expert /\ v.stale = stale /\ v.pending = {}
      /\ v.ended = n - 1 /\ v.wanted = wanted /\ v.misread = misread
  <2>1. Len(<<>>) = 0
    OBVIOUS
  <2> QED BY <1>1, <1>3, <2>1 DEF IsView
<1>10. /\ u.stage \in {"output", "fallback"} /\ u.stage = step'.stage
       /\ u.held = slot_expert /\ u.stale = stale /\ u.pending = {}
       /\ u.W = wanted[n] /\ u.M = M /\ u.H = step.cpu
       /\ u.ended = n - 1 /\ u.wanted = wanted /\ u.misread = misread'
  <2> HIDE DEF M
  <2>1. u.f = n /\ n # 0 /\ u.stage = step'.stage /\ u.ended = n - 1
    BY <1>2, <1>3, <1>5, <1>6, <1>7 DEF IsView, Between
  <2>2. u.H = step.cpu
    BY <1>2, <1>7 DEF IsView
  <2>3. u.W = wanted[n] /\ u.M = M
    BY <1>2, <1>3, <1>7, <1>8, <2>1 DEF IsView, Between
  <2> QED BY <1>2, <1>3, <1>7, <2>1, <2>2, <2>3 DEF IsView
<1>11. /\ Gathered(gpu.memory, step.gather, u) /\ step.gather \in SUBSET (Int \X Buffers)
       /\ u.M \in SUBSET Weights /\ (step.gather = {} => u.M = {})
  <2>1. UploadOf(step, v.held, wanted[n])
    BY <1>5, <1>9
  <2>2. u.W = wanted[n] /\ u.H = step.cpu
    BY <1>10
  <2>3. u.M = {g[1] : g \in {t \in step.gather : t[2][2] \in v.stale}}
    BY <1>9, <1>10
  <2> HIDE DEF n
  <2>4. Launches(step, v, u, wanted[n])
    BY <1>3, <1>9, <2>1, <2>2, <2>3, Zenon DEF Launches
  <2> QED BY <1>1, <1>3, <1>6, <2>4, LaunchGathers
<1>12. /\ gpu.queue["compute"] = <<>> /\ gpu.queue["side"] = <<>> /\ gpu.memory[x] = Residual
       /\ gpu.seen["compute"] = <<>> /\ gpu.seen["side"] = <<>> /\ gpu.seen["null"] = <<>>
  BY <1>1, <1>3, <1>9, UploadStreams DEF OnNull
<1>13. /\ Typed(gpu') /\ gpu'.memory = gpu.memory /\ gpu'.seen = gpu.seen
       /\ gpu'.completed = gpu.completed
       /\ gpu'.queue["null"] = gpu.queue["null"]
       /\ step.gather = {} => gpu'.queue["compute"] = <<>> /\ gpu'.recorded = gpu.recorded
       /\ step.gather # {} =>
            /\ gpu'.queue["compute"] = Append(Append(<<>>, Gathers(step.gather)), r)
            /\ Gathers(step.gather) \in Calls /\ r \in Calls
            /\ gpu'.recorded[partDone] = r.number
            /\ \A e \in Events : e # partDone => gpu'.recorded[e] = gpu.recorded[e]
       /\ step.cpu = {} => gpu'.queue["side"] = <<>>
       /\ step.cpu # {} =>
            \E w1, w2 : /\ gpu'.queue["side"] = Append(Append(Append(<<>>, w1), w2), ToHost)
                        /\ w1.do = "wait" /\ Awaits(gpu', w2, partDone)
  BY <1>1, <1>4, <1>11, <1>12, LaunchIssued
<1> HIDE DEF M
<1>14. OnCompute(gpu', u)
  <2> DEFINE G == step.gather
  <2>1. /\ gpu'.memory[x] = Residual /\ gpu'.seen["compute"] = <<>>
        /\ Gathered(gpu'.memory, G, u)
    BY <1>11, <1>12, <1>13
  <2>2. /\ G = {} => gpu'.queue["compute"] = <<>> /\ u.M = {}
        /\ G # {} => /\ gpu'.queue["compute"] = Append(Append(<<>>, Gathers(G)), r)
                     /\ Gathers(G) \in Calls /\ r \in Calls
                     /\ gpu'.recorded[partDone] = r.number
                     /\ \A e \in Events : e # partDone => gpu'.recorded[e] = gpu.recorded[e]
    BY <1>11, <1>13
  <2> HIDE DEF G
  <2>3. u.stage \in {"fallback", "output"} /\ r = Numbering(gpu, partDone)
    BY <1>10
  <2> HIDE DEF r
  <2> QED BY <1>1, <1>11, <1>13, <2>1, <2>2, <2>3, LaunchedCompute
<1>15. OnSide(gpu', u)
  <2>1. CASE step.cpu = {}
    <3>1. u.stage = "output" /\ gpu'.queue["side"] = <<>>
      BY <1>7, <1>10, <1>13, <2>1
    <3> QED BY <1>12, <1>13, <3>1 DEF OnSide, FromHost
  <2>2. CASE step.cpu # {}
    <3>1. u.stage = "fallback"
      BY <1>7, <1>10, <2>2
    <3>2. PICK w1, w2 : /\ gpu'.queue["side"] = Append(Append(Append(<<>>, w1), w2), ToHost)
                        /\ w1.do = "wait" /\ Awaits(gpu', w2, partDone)
      BY <1>13, <2>2
    <3> DEFINE D == gpu'.queue["side"]
    <3>3. D # <<>> /\ Len(D) = 3 /\ D[1] = w1 /\ D[2] = w2 /\ D[3] = ToHost
      BY <3>2, ThreeCalls
    <3>4. gpu'.queue["side"] = D
      OBVIOUS
    <3> HIDE DEF D
    <3>5. Len(D) \in 1 .. 3 /\ D[Len(D)] = ToHost /\ D[Len(D) - 1] = w2
      BY <3>3
    <3>6. ForHost(gpu', u)
      BY <3>2, <3>3, <3>4, <3>5 DEF ForHost
    <3> QED BY <1>12, <1>13, <3>1, <3>3, <3>4, <3>6 DEF OnSide
  <2> QED BY <2>1, <2>2
<1>16. OnNull(gpu', u)
  BY <1>3, <1>10, <1>12, <1>13 DEF OnNull
<1>17. SlotsHold(gpu', u)
  BY <1>1, <1>9, <1>10, <1>13 DEF SlotsHold
<1>18. Stored(gpu', u)
  <2>1. \A f \in 1 .. MaxForwards : f <= n - 1 => f \in 1 .. n /\ f # n
    BY <1>6
  <2>2. ASSUME NEW f \in 1 .. MaxForwards, gpu.memory[<<"out", f>>] # Torn
        PROVE  f <= n - 1 /\ Right(gpu.memory[<<"out", f>>], wanted[f], misread'[f], {})
    BY <1>1, <1>8, <1>9, <2>1, <2>2 DEF Stored
  <2> QED BY <1>1, <1>10, <1>13, <2>2 DEF Stored
<1>19. SlotsBase(gpu', u)
  BY <1>14, <1>15, <1>16, <1>17, <1>18 DEF SlotsBase
<1>20. BookOf(cap', cache', slot_expert', wanted', misread')
  <2>1. M \in SUBSET Weights
    BY <1>10, <1>11
  <2>2. misread' \in Seq(SUBSET Weights) /\ Len(misread') = n
    <3> DEFINE S == SUBSET Weights
    <3>1. misread \in Seq(S) /\ M \in S /\ misread' = [misread EXCEPT ![n] = M] /\ n \in 1 .. Len(misread)
      BY <1>3, <1>6, <2>1
    <3> HIDE DEF S
    <3>2. misread' \in Seq(S) /\ Len(misread') = Len(misread)
      BY <3>1
    <3> QED BY <1>6, <3>2 DEF S
  <2> QED BY <1>1, <1>3, <2>2 DEF BookOf
<1>21. StepOf(step', slot_expert', wanted', misread')
  <2>1. step.cpu \subseteq wanted[n]
    BY <1>5 DEF UploadOf
  <2>2. step.cpu \subseteq Weights
    BY <1>6, <2>1
  <2> QED BY <1>3, <1>5, <1>7, <2>2 DEF StepOf
<1>22. LastOf(q, step', wanted', misread')
  BY <1>7 DEF LastOf, Between
<1> QED BY <1>13, <1>19, <1>20, <1>21, <1>22, SlotsAre DEF u

LEMMA IssueFive ==
  ASSUME NEW c1, NEW c2, NEW c3, NEW c4, NEW c5
  PROVE  \A n \in 0 .. Len(<<c1, c2, c3, c4, c5>>) - 1 :
           IssueAll(SubSeq(<<c1, c2, c3, c4, c5>>, 1, n))
             \in {gpu, Issue(gpu, c1), Issue(Issue(gpu, c1), c2), Issue(Issue(Issue(gpu, c1), c2), c3),
                  Issue(Issue(Issue(Issue(gpu, c1), c2), c3), c4)}
<1> DEFINE l == <<c1, c2, c3, c4, c5>>
<1>1. Len(l) = 5 /\ l[1] = c1 /\ l[2] = c2 /\ l[3] = c3 /\ l[4] = c4 /\ l[5] = c5
  OBVIOUS
<1> HIDE DEF l
<1> SUFFICES ASSUME NEW n \in 0 .. Len(l) - 1
             PROVE  IssueAll(SubSeq(l, 1, n))
                      \in {gpu, Issue(gpu, c1), Issue(Issue(gpu, c1), c2), Issue(Issue(Issue(gpu, c1), c2), c3),
                           Issue(Issue(Issue(Issue(gpu, c1), c2), c3), c4)}
  BY DEF l
<1>2. CASE n \in 0 .. 3
  <2>1. n < 5 /\ n \in {0, 1, 2, 3}
    BY <1>1, <1>2
  <2>2. n = 0 => IssueAll(SubSeq(l, 1, n)) = gpu
    BY <1>1, <1>2, <2>1, IssueFirst
  <2>3. n = 1 => IssueAll(SubSeq(l, 1, n)) = Issue(gpu, l[1])
    BY <1>1, <1>2, <2>1, IssueFirst
  <2>4. n = 2 => IssueAll(SubSeq(l, 1, n)) = Issue(Issue(gpu, l[1]), l[2])
    BY <1>1, <1>2, <2>1, IssueFirst
  <2>5. n = 3 => IssueAll(SubSeq(l, 1, n)) = Issue(Issue(Issue(gpu, l[1]), l[2]), l[3])
    BY <1>1, <1>2, <2>1, IssueFirst
  <2> QED BY <1>1, <2>1, <2>2, <2>3, <2>4, <2>5
<1>3. CASE n = 4
  <2> DEFINE m == SubSeq(l, 1, n)
  <2>1. Len(m) = n /\ \A i \in 1 .. n : m[i] = l[i]
    BY <1>1, <1>3, SubLists
  <2> HIDE DEF m
  <2>2. IssueAll(m) = Issue(Issue(Issue(Issue(gpu, m[1]), m[2]), m[3]), m[4])
    BY <1>3, <2>1, IssueSteps
  <2>3. m[1] = l[1] /\ m[2] = l[2] /\ m[3] = l[3] /\ m[4] = l[4]
    BY <1>3, <2>1
  <2>4. IssueAll(m) = Issue(Issue(Issue(Issue(gpu, c1), c2), c3), c4)
    BY <1>1, <2>2, <2>3
  <2> QED BY <2>4 DEF m
<1>4. n \in 0 .. 3 \/ n = 4
  BY <1>1
<1> QED BY <1>2, <1>3, <1>4

(* The states a launch can stop in.                                        *)
Partly(G)  == IF G = {} THEN gpu ELSE Part(gpu, G)
Waiting(G) == Issue(Partly(G), Wait("side", routerDone))
Waited(G)  == Issue(Waiting(G), Wait("side", partDone))

LEMMA LaunchFirst ==
  ASSUME NEW G, NEW k, NEW l,
         l = (IF G = {} THEN <<>> ELSE <<Gathers(G), Record("compute", partDone)>>)
             \o (IF k = {} THEN <<>> ELSE <<Wait("side", routerDone), Wait("side", partDone), ToHost>>),
         NEW n \in 0 .. Len(l) - 1
  PROVE  \/ IssueAll(SubSeq(l, 1, n)) \in {gpu, Partly(G), Waiting(G), Waited(G)}
         \/ G # {} /\ IssueAll(SubSeq(l, 1, n)) = Issue(gpu, Gathers(G))
<1> DEFINE c1 == Gathers(G)
           c2 == Record("compute", partDone)
           c3 == Wait("side", routerDone)
           c4 == Wait("side", partDone)
           c5 == ToHost
           r == IssueAll(SubSeq(l, 1, n))
           g == Partly(G)
<1>1. l = (IF G = {} THEN <<>> ELSE <<c1, c2>>) \o (IF k = {} THEN <<>> ELSE <<c3, c4, c5>>)
  OBVIOUS
<1>2. /\ G = {} => g = gpu
      /\ G # {} => g = Issue(Issue(gpu, c1), c2)
      /\ Waiting(G) = Issue(g, c3) /\ Waited(G) = Issue(Issue(g, c3), c4)
  BY DEF Partly, Part, Waiting, Waited
<1> HIDE DEF c1, c2, c3, c4, c5, g
<1>3. CASE G = {} /\ k = {}
  <2>1. l = <<>> \o <<>>
    BY <1>1, <1>3
  <2>2. Len(l) = 0
    BY <2>1
  <2> QED BY <2>2
<1>4. CASE G # {} /\ k = {}
  <2> DEFINE m == <<c1, c2>>
  <2>1. l = m
    BY <1>1, <1>4, ConcatEnds
  <2>2. \A i \in 0 .. Len(m) - 1 : IssueAll(SubSeq(m, 1, i)) \in {gpu, Issue(gpu, c1)}
    BY IssueTwo
  <2> HIDE DEF m
  <2>3. r \in {gpu, Issue(gpu, c1)}
    BY <2>1, <2>2
  <2> QED BY <1>4, <2>3 DEF c1
<1>5. CASE G = {} /\ k # {}
  <2> DEFINE m == <<c3, c4, c5>>
  <2>1. l = m
    BY <1>1, <1>5, ConcatEnds
  <2>2. \A i \in 0 .. Len(m) - 1 :
          IssueAll(SubSeq(m, 1, i)) \in {gpu, Issue(gpu, c3), Issue(Issue(gpu, c3), c4)}
    BY IssueThree
  <2> HIDE DEF m
  <2>3. r \in {gpu, Issue(gpu, c3), Issue(Issue(gpu, c3), c4)}
    BY <2>1, <2>2
  <2> QED BY <1>2, <1>5, <2>3
<1>6. CASE G # {} /\ k # {}
  <2> DEFINE m == <<c1, c2, c3, c4, c5>>
  <2>1. l = m
    BY <1>1, <1>6, ConcatFive
  <2>2. \A i \in 0 .. Len(m) - 1 :
          IssueAll(SubSeq(m, 1, i))
            \in {gpu, Issue(gpu, c1), Issue(Issue(gpu, c1), c2), Issue(Issue(Issue(gpu, c1), c2), c3),
                 Issue(Issue(Issue(Issue(gpu, c1), c2), c3), c4)}
    BY IssueFive
  <2> HIDE DEF m
  <2>3. r \in {gpu, Issue(gpu, c1), Issue(Issue(gpu, c1), c2), Issue(Issue(Issue(gpu, c1), c2), c3),
               Issue(Issue(Issue(Issue(gpu, c1), c2), c3), c4)}
    BY <2>1, <2>2
  <2>4. r \in {gpu, Issue(gpu, c1), g, Issue(g, c3), Issue(Issue(g, c3), c4)}
    BY <1>2, <1>6, <2>3
  <2> QED BY <1>2, <1>6, <2>4 DEF c1, g
<1> QED BY <1>3, <1>4, <1>5, <1>6

LEMMA LaunchRests ==
  ASSUME NEW v, Resting(gpu, v), gpu.queue["compute"] = <<>>, gpu.memory[x] = Residual,
         NEW G \in SUBSET (Int \X Buffers), G # {} => Gathered(gpu.memory, G, v)
  PROVE  /\ G # {} => Resting(Issue(gpu, Gathers(G)), v)
         /\ Resting(Partly(G), v) /\ Resting(Waiting(G), v) /\ Resting(Waited(G), v)
<1> DEFINE g == Partly(G)
<1>1. partDone \in Events /\ routerDone \in Events
  BY EventFacts DEF partDone, routerDone
<1>2. Resting(g, v) /\ (G # {} => Resting(Issue(gpu, Gathers(G)), v))
  <2>1. CASE G = {}
    BY <2>1 DEF Partly
  <2>2. CASE G # {}
    <3> DEFINE c == Gathers(G)
               h == Issue(gpu, c)
               r == Numbering(h, partDone)
               A == h.queue["compute"]
    <3>1. c \in Calls /\ c.do = "accumulate" /\ c.on = "compute" /\ c.terms = G /\ c = Gathers(c.terms)
      BY SlotCallFacts, BufferFacts DEF Calls, Streams
    <3>2. c # Outputs(v.f) /\ \A e : ~Does(c, "record", e)
      BY SlotCallFacts DEF Does
    <3> HIDE DEF c
    <3>3. MayFollow(gpu, c, v)
      BY <2>2, <3>1, <3>2 DEF MayFollow, SlotCall
    <3>4. Resting(h, v) /\ Pushed(gpu, h, c)
      BY <3>1, <3>3, RestMove
    <3>5. A # <<>> /\ A[Len(A)] = c
      <4>1. A = Append(<<>>, c)
        BY <3>4 DEF Pushed
      <4> HIDE DEF A
      <4> QED BY <4>1
    <3> HIDE DEF h
    <3>6. Does(r, "record", partDone)
      BY DEF Numbering, Does
    <3>7. MayFollow(h, r, v)
      <4> HIDE DEF r
      <4>1. SlotCall(r, v) /\ SlotFollows(c, r, v)
        BY <3>1, <3>6 DEF SlotCall, SlotFollows
      <4> QED BY <3>5, <4>1 DEF MayFollow
    <3> DEFINE p == Issue(h, Record("compute", partDone))
    <3>8. p = Partly(G)
      BY <2>2 DEF Partly, Part, h, c
    <3> HIDE DEF p
    <3>9. Resting(p, v)
      BY <1>1, <3>4, <3>7, RestRecord DEF p
    <3> QED BY <3>4, <3>8, <3>9 DEF h, c
  <2> QED BY <2>1, <2>2
<1> HIDE DEF g
<1>3. Resting(Waiting(G), v)
  <2> DEFINE h == Issue(g, Wait("side", routerDone))
  <2>1. h = Waiting(G)
    BY DEF Waiting, g
  <2> HIDE DEF h
  <2>2. Resting(h, v)
    BY <1>1, <1>2, RestWait DEF h
  <2> QED BY <2>1, <2>2
<1>4. Resting(Waited(G), v)
  <2> DEFINE k == Waiting(G)
             h == Issue(k, Wait("side", partDone))
  <2>1. h = Waited(G)
    BY DEF Waited
  <2>k. Resting(k, v)
    BY <1>3
  <2> HIDE DEF h, k
  <2>2. Resting(h, v)
    BY <1>1, <2>k, RestWait DEF h
  <2> QED BY <2>1, <2>2
<1> QED BY <1>2, <1>3, <1>4 DEF g

(* The view once a launch has failed: no forward's output is to follow.    *)
Stalled == [f |-> 0, W |-> {t[1] : t \in step.gather},
            M |-> {g[1] : g \in {t \in step.gather : t[2][2] \in stale}}]

LEMMA SlotsLaunchFails ==
  ASSUME SlotsInv, LaunchFails
  PROVE  SlotsInv'
<1>q. PICK q : Viewed(q)
  BY DEF SlotsInv
<1> DEFINE v == ViewOf(step, wanted, misread, slot_expert, stale, q)
           s == Stalled
           u == ViewOf(step', wanted', misread', slot_expert', stale', s)
           n == Len(wanted)
           G == step.gather
           M == {g[1] : g \in {t \in step.gather : t[2][2] \in stale}}
           W == wanted[n]
<1>1. /\ BookOf(cap, cache, slot_expert, wanted, misread)
      /\ StepOf(step, slot_expert, wanted, misread)
      /\ Typed(gpu) /\ ViewOk(v) /\ IsView(v, step, wanted, misread, slot_expert, stale, q)
      /\ OnCompute(gpu, v) /\ OnSide(gpu, v) /\ OnNull(gpu, v) /\ SlotsHold(gpu, v) /\ Stored(gpu, v)
  BY <1>q, SlotsStage
<1>2. IsView(u, step', wanted', misread', slot_expert', stale', s)
  BY ViewParts
<1> HIDE DEF u, v
<1>3. /\ step.stage = "upload" /\ step.upload = <<>> /\ gpu.queue["null"] = <<>> /\ step' = Idle
      /\ cap' = cap /\ cache' = cache /\ slot_expert' = slot_expert /\ stale' = stale
      /\ wanted' = wanted /\ misread' = misread
  BY DEF LaunchFails, Synchronized
<1>4. UploadOf(step, slot_expert, W) /\ n > 0
  BY <1>1, <1>3 DEF StepOf
<1>5. n \in Nat /\ n \in 1 .. n /\ W \in SUBSET Weights
  <2>1. wanted \in Seq(SUBSET Weights)
    BY <1>1 DEF BookOf
  <2>2. n \in Nat /\ n \in 1 .. n
    BY <1>4, <2>1
  <2> QED BY <2>1, <2>2
<1>6. /\ v.stage = "upload" /\ v.held = slot_expert /\ v.stale = stale /\ v.pending = {}
      /\ v.ended = n - 1 /\ v.wanted = wanted /\ v.misread = misread
  <2>1. Len(<<>>) = 0
    OBVIOUS
  <2> QED BY <1>1, <1>3, <2>1 DEF IsView
<1>7. s.f = 0 /\ s.W = {t[1] : t \in G} /\ s.M = M
  BY DEF Stalled
<1>8. step'.stage = "idle" /\ Between(step')
  BY <1>3 DEF Idle, Between
<1>9. /\ G \in SUBSET (Int \X Buffers) /\ s.W \subseteq Weights /\ s.M \subseteq Weights
      /\ \A t \in G : \E a \in Slots : /\ t = <<t[1], SlotOf(a)>>
                                       /\ t[1] \in s.M \/ gpu.memory[SlotOf(a)] = {<<t[1], t[1]>>}
  <2> DEFINE w == [W |-> W, H |-> step.cpu, M |-> M]
  <2>1. w.W = W /\ w.H = step.cpu /\ w.M = M
    OBVIOUS
  <2> HIDE DEF w
  <2>w. UploadOf(step, v.held, W)
    BY <1>4, <1>6
  <2>2. Launches(step, v, w, W)
    BY <1>3, <1>6, <2>1, <2>w DEF Launches
  <2> HIDE DEF W, M
  <2>3. /\ Gathered(gpu.memory, step.gather, w) /\ step.gather \in SUBSET (Int \X Buffers)
        /\ w.M \in SUBSET Weights
    BY <1>1, <1>3, <1>5, <2>2, LaunchGathers
  <2>4. s.W \subseteq W
    BY <1>4, <1>7 DEF UploadOf
  <2> QED BY <1>5, <1>7, <2>1, <2>3, <2>4 DEF Gathered
<1> HIDE DEF s, M, W
<1>10. /\ u.stage = "idle" /\ u.held = slot_expert /\ u.stale = stale /\ u.pending = {}
       /\ u.W = s.W /\ u.M = s.M /\ u.H = {}
       /\ u.ended = n /\ u.wanted = wanted /\ u.misread = misread
  BY <1>2, <1>3, <1>8 DEF IsView
<1>11. BookOf(cap', cache', slot_expert', wanted', misread')
  BY <1>1, <1>3
<1>12. StepOf(step', slot_expert', wanted', misread')
  BY <1>8 DEF StepOf
<1>13. LastOf(s, step', wanted', misread')
  BY <1>3, <1>5, <1>7, <1>8, <1>9 DEF LastOf
<1>14. /\ gpu.queue["compute"] = <<>> /\ gpu.queue["side"] = <<>> /\ gpu.memory[x] = Residual
       /\ gpu.seen["compute"] = <<>> /\ gpu.seen["side"] = <<>> /\ gpu.seen["null"] = <<>>
  BY <1>1, <1>3, <1>6, UploadStreams DEF OnNull
<1>15. Resting(gpu, u)
  <2>1. OnCompute(gpu, u)
    BY <1>10, <1>14, ComputeEmpty DEF Drained
  <2>2. OnSide(gpu, u) /\ OnNull(gpu, u)
    BY <1>3, <1>10, <1>14, NoWaits DEF OnSide, OnNull
  <2>3. SlotsHold(gpu, u)
    BY <1>1, <1>6, <1>10 DEF SlotsHold
  <2>4. Stored(gpu, u)
    <3>1. \A f \in 1 .. MaxForwards : f <= n - 1 => f <= n
      BY <1>5
    <3> QED BY <1>1, <1>6, <1>10, <3>1 DEF Stored
  <2>5. ViewOk(u)
    BY <1>11, <1>12, <1>13, ViewIsOk DEF u
  <2> QED BY <1>1, <1>10, <2>1, <2>2, <2>3, <2>4, <2>5 DEF Resting, SlotsBase
<1>16. Gathered(gpu.memory, G, u)
  BY <1>7, <1>9, <1>10 DEF Gathered
<1>17. \/ gpu' \in {gpu, Partly(G), Waiting(G), Waited(G)}
       \/ G # {} /\ gpu' = Issue(gpu, Gathers(G))
  <2> DEFINE l == LaunchCalls
  <2>1. PICK i \in 0 .. Len(l) - 1 : gpu' = IssueAll(SubSeq(l, 1, i))
    BY DEF LaunchFails
  <2>2. l = (IF step.gather = {} THEN <<>> ELSE <<Gathers(step.gather), Record("compute", partDone)>>)
            \o (IF step.cpu = {} THEN <<>>
                ELSE <<Wait("side", routerDone), Wait("side", partDone), ToHost>>)
    BY Zenon DEF LaunchCalls, FallbackCalls, Gathers, ToHost, routerDone, partDone
  <2> HIDE DEF l
  <2>3. \/ IssueAll(SubSeq(l, 1, i)) \in {gpu, Partly(step.gather), Waiting(step.gather), Waited(step.gather)}
        \/ step.gather # {} /\ IssueAll(SubSeq(l, 1, i)) = Issue(gpu, Gathers(step.gather))
    BY <2>2, LaunchFirst
  <2> QED BY <2>1, <2>3
<1> HIDE DEF G
<1>18. Resting(gpu', u)
  <2>1. /\ G # {} => Resting(Issue(gpu, Gathers(G)), u)
        /\ Resting(Partly(G), u) /\ Resting(Waiting(G), u) /\ Resting(Waited(G), u)
    BY <1>9, <1>14, <1>15, <1>16, LaunchRests
  <2> QED BY <1>15, <1>17, <2>1
<1>19. Typed(gpu') /\ SlotsBase(gpu', u)
  BY <1>18 DEF Resting
<1> QED BY <1>11, <1>12, <1>13, <1>19, SlotsAre DEF u

(* A step of the host.                                                     *)
LEMMA SlotsHost ==
  ASSUME SlotsInv, SlotsNext
  PROVE  SlotsInv'
BY SlotsRoute, SlotsRouteFails, SlotsPlace, SlotsUpload, SlotsUploadFails, SlotsLaunch, SlotsLaunchFails,
   SlotsFallback, SlotsFallbackFails, SlotsReturn, SlotsReturnFails
   DEF SlotsNext

(* A step of neither.                                                      *)
LEMMA SlotsStay ==
  ASSUME SlotsInv, gpu' = gpu, UNCHANGED slotVars
  PROVE  SlotsInv'
<1>1. /\ cap' = cap /\ cache' = cache /\ slot_expert' = slot_expert /\ step' = step
      /\ wanted' = wanted /\ stale' = stale /\ misread' = misread
  BY DEF slotVars
<1> QED BY <1>1 DEF SlotsInv, Viewed

LEMMA SlotsLoaded ==
  ASSUME SlotsInv
  PROVE  ResidentIsLoaded
<1>q. PICK q : Viewed(q)
  BY DEF SlotsInv
<1> DEFINE v == ViewOf(step, wanted, misread, slot_expert, stale, q)
<1>1. /\ BookOf(cap, cache, slot_expert, wanted, misread)
      /\ ViewOk(v) /\ IsView(v, step, wanted, misread, slot_expert, stale, q)
      /\ OnNull(gpu, v) /\ SlotsHold(gpu, v)
  BY <1>q, SlotsStage
<1> HIDE DEF v
<1>2. Agree(cache, slot_expert)
  BY <1>1 DEF BookOf
<1>3. IsInjective(cache.slots)
  BY <1>2, AgreeApart DEF IsInjective, Resident
<1>4. ToSet(cache.recency) = Resident(cache)
  <2>1. cache.recency \in Seq(Weights) /\ Resident(cache) = Entries(cache.recency)
    BY <1>2 DEF Agree
  <2> QED BY <2>1 DEF ToSet, Entries
<1>5. ASSUME step = Idle, NEW e \in Resident(cache)
      PROVE  /\ slot_expert[cache.slots[e]] = e
             /\ cache.slots[e] \notin stale => gpu.memory[<<"slot", cache.slots[e]>>] = {<<e, e>>}
  <2> DEFINE s == cache.slots[e]
  <2>1. s \in DOMAIN slot_expert /\ slot_expert[s] = e
    BY <1>2, <1>5 DEF Agree
  <2>2. e \in Weights /\ e # -1
    <3>1. e \in Weights
      BY <1>2, <1>5 DEF Agree, Entries
    <3> QED BY <3>1, Numbers
  <2>3. step.stage = "idle"
    BY <1>5 DEF Idle
  <2>4. v.stage = "idle" /\ v.held = slot_expert /\ v.stale = stale /\ v.pending = {}
    BY <1>1, <2>3 DEF IsView
  <2>5. Uploading(gpu.queue["null"]) = {}
    <3>1. gpu.queue["null"] = <<>>
      BY <1>1, <2>4 DEF OnNull
    <3> QED BY <3>1, UploadingNone
  <2> HIDE DEF s
  <2>6. s \notin stale => gpu.memory[SlotOf(s)] = {<<e, e>>}
    BY <1>1, <2>1, <2>2, <2>4, <2>5 DEF SlotsHold
  <2> QED BY <2>1, <2>6 DEF s, SlotOf
<1> QED BY <1>3, <1>4, <1>5 DEF ResidentIsLoaded

LEMMA SlotsInvisible ==
  ASSUME SlotsInv
  PROVE  PlacementIsInvisible
<1>q. PICK q : Viewed(q)
  BY DEF SlotsInv
<1> DEFINE v == ViewOf(step, wanted, misread, slot_expert, stale, q)
<1>1. /\ BookOf(cap, cache, slot_expert, wanted, misread)
      /\ IsView(v, step, wanted, misread, slot_expert, stale, q) /\ Stored(gpu, v)
  BY <1>q, SlotsStage
<1> HIDE DEF v
<1>2. v.wanted = wanted /\ v.misread = misread
  BY <1>1 DEF IsView
<1> SUFFICES ASSUME NEW f \in DOMAIN wanted, gpu.memory[<<"out", f>>] # Torn
             PROVE  {t \in gpu.memory[<<"out", f>>] : t[1] \notin misread[f]}
                      = Residual \cup {<<e, e>> : e \in wanted[f] \ misread[f]}
  BY DEF PlacementIsInvisible
<1>3. f \in 1 .. MaxForwards
  <2>1. wanted \in Seq(SUBSET Weights) /\ Len(wanted) <= MaxForwards /\ MaxForwards \in Nat
    BY <1>1, Numbers DEF BookOf
  <2> QED BY <2>1
<1>4. Right(gpu.memory[<<"out", f>>], wanted[f], misread[f], {})
  BY <1>1, <1>2, <1>3 DEF Stored
<1>5. Exact({}) = {}
  BY DEF Exact
<1> DEFINE out == gpu.memory[<<"out", f>>]
<1> HIDE DEF out
<1>6. {t \in out \cup {} : t[1] \notin misread[f]} = Residual \cup Exact(wanted[f] \ misread[f])
  BY <1>4, <1>5 DEF Right, out
<1>7. out \cup {} = out
  OBVIOUS
<1>8. Exact(wanted[f] \ misread[f]) = {<<e, e>> : e \in wanted[f] \ misread[f]}
  BY DEF Exact
<1> QED BY <1>6, <1>7, <1>8 DEF out

(***************************************************************************)
(* Both paths                                                              *)
(***************************************************************************)

(* The bounded path is not taken: nothing was routed or cached.            *)
Unused == wanted = <<>> /\ cache = [recency |-> <<>>, slots |-> <<>>]

(* The invariant of each path, and that the other is not taken.            *)
PathInv ==
  /\ path \in {"prefetch", "slots"}
  /\ path = "prefetch" => Typed(gpu) /\ PrefetchInv /\ Unused
  /\ path = "slots" => SlotsInv /\ returned = {}

LEMMA PathInit == Init => PathInv
<1> SUFFICES ASSUME Init PROVE PathInv
  OBVIOUS
<1>1. path \in {"prefetch", "slots"} /\ StreamsInit /\ PrefetchInit /\ SlotsInit
  BY DEF Init
<1>2. Typed(gpu) /\ PrefetchInv
  BY <1>1, PrefetchStarts
<1>3. SlotsInv
  BY <1>1, SlotsStart
<1>4. Unused /\ returned = {}
  BY <1>1 DEF SlotsInit, PrefetchInit, Unused
<1> QED BY <1>1, <1>2, <1>3, <1>4 DEF PathInv

LEMMA PathNext == PathInv /\ [Next]_offloadVars => PathInv'
<1> SUFFICES ASSUME PathInv, [Next]_offloadVars PROVE PathInv'
  OBVIOUS
<1>1. path' = path
  BY DEF Next, offloadVars
<1>2. CASE path = "prefetch"
  <2>0. Typed(gpu) /\ PrefetchInv /\ Unused
    BY <1>2 DEF PathInv
  <2>u. UNCHANGED slotVars
    BY <1>2 DEF Next, offloadVars
  <2>v. Unused'
    BY <2>0, <2>u DEF Unused, slotVars
  <2>1. CASE PrefetchNext
    <3>1. Typed(gpu') /\ PrefetchInv'
      BY <2>0, <2>1, PrefetchForward, PrefetchRuns, PrefetchFails DEF PrefetchNext
    <3> QED BY <1>1, <1>2, <2>v, <3>1 DEF PathInv
  <2>2. CASE Device /\ UNCHANGED prefetchVars
    <3>1. Typed(gpu') /\ PrefetchInv'
      BY <2>0, <2>2, PrefetchDevice
    <3> QED BY <1>1, <1>2, <2>v, <3>1 DEF PathInv
  <2>3. CASE UNCHANGED offloadVars
    <3>1. gpu' = gpu /\ UNCHANGED prefetchVars
      BY <2>3 DEF offloadVars
    <3>2. /\ moe_layers' = moe_layers /\ forward' = forward /\ at' = at /\ returned' = returned
      BY <3>1 DEF prefetchVars
    <3>3. Running' = Running /\ MoeLayers'
      BY <2>0, <3>2 DEF Running, MoeLayers, PrefetchInv, HostPlace
    <3>4. HostPlace'
      BY <2>0, <3>2, <3>3 DEF HostPlace, PrefetchInv
    <3>5. Typed(gpu') /\ Base(gpu', Running) /\ OnTime(gpu', at'.stage, at'.k)
      BY <2>0, <3>1, <3>2 DEF PrefetchInv
    <3>6. PrefetchInv'
      BY <3>2, <3>3, <3>4, <3>5, PrefetchPlaced
    <3> QED BY <1>1, <1>2, <2>v, <3>5, <3>6 DEF PathInv
  <2> QED BY <1>2, <2>1, <2>2, <2>3 DEF Next
<1>3. CASE path = "slots"
  <2>0. SlotsInv /\ returned = {}
    BY <1>3 DEF PathInv
  <2>1. UNCHANGED prefetchVars
    BY <1>3 DEF Next, offloadVars
  <2>2. returned' = {}
    BY <2>0, <2>1 DEF prefetchVars
  <2>3. CASE SlotsNext
    BY <1>1, <1>3, <2>0, <2>2, <2>3, SlotsHost DEF PathInv
  <2>4. CASE Device /\ UNCHANGED slotVars
    BY <1>1, <1>3, <2>0, <2>2, <2>4, SlotsOnDevice DEF PathInv
  <2>5. CASE UNCHANGED offloadVars
    <3>1. gpu' = gpu /\ UNCHANGED slotVars
      BY <2>5 DEF offloadVars
    <3> QED BY <1>1, <1>3, <2>0, <2>2, <3>1, SlotsStay DEF PathInv
  <2> QED BY <1>3, <2>3, <2>4, <2>5 DEF Next
<1> QED BY <1>2, <1>3 DEF PathInv

(* "Double buffering only changes when weights arrive, never the math"     *)
(* (prefill_buffered.rs:8-11): the output of a forward that returned Ok is *)
(* what every layer computed from its own weights, for any number of       *)
(* layers and forwards, wherever a call fails and however far the device   *)
(* is behind the host.                                                     *)
THEOREM PrefetchIsWhole == Spec => []PrefetchedIsWhole
<1>1. PathInv => PrefetchedIsWhole
  BY PrefetchWhole DEF PathInv, PrefetchedIsWhole
<1> QED BY PathInit, PathNext, <1>1, PTL DEF Spec

(* Between forwards no two experts share a slot, the LRU index and         *)
(* slot_expert agree, and a resident expert's weights are whole in its     *)
(* slot unless an upload into it failed (moe_slot_place, LruExpertCache):  *)
(* for any number of slots, experts and experts routed to, whatever is     *)
(* evicted, and wherever an upload stops.                                  *)
THEOREM ResidentsAreLoaded == Spec => []ResidentIsLoaded
<1>1. Unused => ResidentIsLoaded
  <2> SUFFICES ASSUME Unused PROVE ResidentIsLoaded
    OBVIOUS
  <2>1. cache.recency = <<>> /\ cache.slots = <<>> /\ DOMAIN <<>> = {}
    BY DEF Unused
  <2>2. Resident(cache) = {} /\ ToSet(cache.recency) = {} /\ IsInjective(cache.slots)
    BY <2>1 DEF Resident, ToSet, IsInjective
  <2> QED BY <2>2 DEF ResidentIsLoaded
<1>2. PathInv => ResidentIsLoaded
  BY <1>1, SlotsLoaded DEF PathInv
<1> QED BY PathInit, PathNext, <1>2, PTL DEF Spec

(* "The output is placement-invariant" (model.rs:2066): what a forward     *)
(* returns has every expert it routed to and no other, from its own        *)
(* weights, whether resident, uploaded or computed on the host, however far*)
(* the device is behind the host; only an expert gathered from a slot      *)
(* whose upload had failed may be wrong.                                   *)
THEOREM PlacementStaysInvisible == Spec => []PlacementIsInvisible
<1>1. Unused => PlacementIsInvisible
  <2> SUFFICES ASSUME Unused PROVE PlacementIsInvisible
    OBVIOUS
  <2>1. DOMAIN wanted = {}
    BY DEF Unused
  <2> QED BY <2>1 DEF PlacementIsInvisible
<1>2. PathInv => PlacementIsInvisible
  BY <1>1, SlotsInvisible DEF PathInv
<1> QED BY PathInit, PathNext, <1>2, PTL DEF Spec

=============================================================================
