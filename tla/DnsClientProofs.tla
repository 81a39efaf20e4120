--------------------------- MODULE DnsClientProofs ---------------------------
(***************************************************************************)
(* Theorems about DnsClient: whatever labels and jumps a well-formed reply *)
(* is made of, readDNSName() returns the name that stands there, and       *)
(* parseDNSResponse() reads every record where it starts; and no reply is  *)
(* reported to have a loop of jumps that it has not.                       *)
(***************************************************************************)
EXTENDS DnsClient, SequenceTheorems, WellFoundedInduction, TLAPS

------------------------------------------------------------------------------
(* Recursion over names.                                                      *)

LEMMA LeastNumber ==
    ASSUME NEW T \in SUBSET Nat, T # {}
    PROVE  \E n \in T : \A k \in T : n <= k
<1>1. PICK n \in T : \A k \in T : ~(<<k, n>> \in OpToRel(<, Nat))
  BY WFMin, NatLessThanWellFounded
<1>2. \A k \in T : ~(k < n)
  BY <1>1 DEF OpToRel
<1> QED
  BY <1>2

\* The offsets of M lead on to others, at a smaller depth.
Ranked(D, N, d, M, next) ==
    /\ N \in Nat /\ d \in [D -> 0..N] /\ M \in SUBSET D /\ next \in [M -> D]
    /\ \A o \in M : d[next[o]] < d[o]

\* What is computed at an offset, from the result one step further or from nothing.
Valued(D, M, V, G, base) ==
    V # {} /\ G \in [M -> [V -> V]] /\ base \in [D -> V]

\* f solves the recursion at the offsets where the walk takes fewer than k steps.
Solves(f, k, D, d, M, next, G, base) ==
    \A o \in D : d[o] < k => f[o] = IF o \in M THEN G[o][f[next[o]]] ELSE base[o]

\* A recursion along steps that lead to smaller depths has a solution.
LEMMA Recursion ==
    ASSUME NEW D, NEW N, NEW d, NEW M, NEW next, Ranked(D, N, d, M, next),
           NEW V, NEW G, NEW base, Valued(D, M, V, G, base)
    PROVE  \E f \in [D -> V] :
               \A o \in D : f[o] = IF o \in M THEN G[o][f[next[o]]] ELSE base[o]
<1> USE DEF Ranked, Valued
<1> DEFINE Open == {k \in Nat : ~\E f \in [D -> V] : Solves(f, k, D, d, M, next, G, base)}
<1>1. \A k \in Nat : k \notin Open
  <2>1. SUFFICES ASSUME Open # {} PROVE FALSE
    OBVIOUS
  <2>2. PICK k \in Open : \A j \in Open : k <= j
    BY <2>1, LeastNumber
  <2>3. k \in Nat /\ k # 0
    <3>1. base \in [D -> V] /\ Solves(base, 0, D, d, M, next, G, base)
      BY DEF Solves
    <3> QED
      BY <3>1
  <2>4. k - 1 \in Nat /\ k - 1 \notin Open
    BY <2>2, <2>3
  <2>5. PICK f \in [D -> V] : Solves(f, k - 1, D, d, M, next, G, base)
    BY <2>4
  <2> DEFINE g == [o \in D |-> IF d[o] < k - 1 THEN f[o]
                               ELSE IF o \in M THEN G[o][f[next[o]]] ELSE base[o]]
  <2>6. g \in [D -> V]
    <3>1. \A o \in D : f[o] \in V /\ base[o] \in V
      OBVIOUS
    <3>2. \A o \in M : G[o][f[next[o]]] \in V
      OBVIOUS
    <3> QED
      BY <3>1, <3>2
  <2>7. \A o \in M : d[o] < k => g[next[o]] = f[next[o]]
    <3>1. SUFFICES ASSUME NEW o \in M, d[o] < k PROVE g[next[o]] = f[next[o]]
      OBVIOUS
    <3>2. next[o] \in D /\ d[next[o]] \in Nat /\ d[o] \in Nat /\ d[next[o]] < d[o]
      OBVIOUS
    <3>3. d[next[o]] < k - 1
      BY <3>1, <3>2, <2>3
    <3> QED
      BY <3>2, <3>3
  <2>8. Solves(g, k, D, d, M, next, G, base)
    <3>1. SUFFICES ASSUME NEW o \in D, d[o] < k
                   PROVE  g[o] = IF o \in M THEN G[o][g[next[o]]] ELSE base[o]
      BY DEF Solves
    <3>2. g[o] = IF o \in M THEN G[o][f[next[o]]] ELSE base[o]
      BY <2>5 DEF Solves
    <3> QED
      BY <3>1, <3>2, <2>7
  <2> QED
    BY <2>2, <2>6, <2>8
<1>2. PICK f \in [D -> V] : Solves(f, N + 1, D, d, M, next, G, base)
  <2>1. N + 1 \in Nat
    OBVIOUS
  <2>2. N + 1 \notin Open
    BY <1>1, <2>1
  <2> QED
    BY <2>1, <2>2
<1>3. \A o \in D : d[o] \in Nat /\ d[o] < N + 1
  OBVIOUS
<1> QED
  BY <1>2, <1>3 DEF Solves

\* f and g agree where they do not recur, and wherever they agree one step further.
AgreeStepwise(f, g, D, M, next) ==
    /\ \A o \in D \ M : f[o] = g[o]
    /\ \A o \in M : f[next[o]] = g[next[o]] => f[o] = g[o]

\* The solution is the only one, whatever its values are.
LEMMA Uniqueness ==
    ASSUME NEW D, NEW N, NEW d, NEW M, NEW next, Ranked(D, N, d, M, next),
           NEW f, NEW g, AgreeStepwise(f, g, D, M, next)
    PROVE  \A o \in D : f[o] = g[o]
<1> USE DEF Ranked, AgreeStepwise
<1> DEFINE Differ == {k \in Nat : \E o \in D : d[o] = k /\ f[o] # g[o]}
<1>1. SUFFICES ASSUME NEW o \in D, f[o] # g[o] PROVE FALSE
  OBVIOUS
<1>2. d[o] \in Differ
  BY <1>1
<1>3. PICK k \in Differ : \A j \in Differ : k <= j
  <2>1. Differ \in SUBSET Nat /\ Differ # {}
    BY <1>2
  <2> HIDE DEF Differ
  <2> QED
    BY <2>1, LeastNumber
<1>4. PICK p \in D : d[p] = k /\ f[p] # g[p]
  OBVIOUS
<1>5. p \in M /\ f[next[p]] # g[next[p]]
  BY <1>4
<1>6. next[p] \in D /\ d[next[p]] \in Nat /\ d[p] \in Nat /\ d[next[p]] < d[p]
  BY <1>5
<1>7. d[next[p]] \in Differ
  BY <1>5, <1>6
<1> QED
  BY <1>3, <1>4, <1>6, <1>7

------------------------------------------------------------------------------
(* The meaning of a well-formed packet.                                       *)

Offsets(r) == 0..Size(r)
Bytes(r)   == {At(r, o).c : o \in Offsets(r)} \cup {"."}
Moving(r)  == {o \in Offsets(r) : GoesOn(r, o)}

\* Labels and jumps stand and lead inside the packet.
LEMMA Steps ==
    ASSUME NEW r, IsWellFormed(r), NEW o \in Moving(r)
    PROVE  /\ o \in 0..Size(r) - 1 /\ Onward(r, o) \in 0..Size(r) - 1
           /\ At(r, Onward(r, o)).kind \in NameKinds
           /\ Depth(r)[Onward(r, o)] < Depth(r)[o]
<1>1. Size(r) \in Nat /\ NamesSound(r)
  BY DEF IsWellFormed
<1>2. o \in 0..Size(r) /\ GoesOn(r, o)
  BY DEF Moving, Offsets
<1>3. o < Size(r)
  BY <1>1, <1>2 DEF GoesOn, At
<1>4. o \in 0..Size(r) - 1
  BY <1>1, <1>2, <1>3
<1> QED
  BY <1>1, <1>2, <1>4 DEF NamesSound

\* A label is a nonempty sequence of bytes of the packet.
LEMMA LabelType ==
    ASSUME NEW r, IsWellFormed(r), NEW o \in Moving(r), At(r, o).kind = "length"
    PROVE  /\ At(r, o).n \in Nat \ {0} /\ At(r, o).n <= LabelMax
           /\ o + 1 + At(r, o).n \in 0..Size(r) - 1
           /\ LabelAt(r, o) \in Seq(Bytes(r)) /\ Len(LabelAt(r, o)) = At(r, o).n
<1>1. Size(r) \in Nat /\ NamesSound(r)
  BY DEF IsWellFormed
<1>2. o \in 0..Size(r) - 1 /\ Onward(r, o) \in 0..Size(r) - 1
  BY Steps
<1>3. Onward(r, o) = o + 1 + At(r, o).n
  BY DEF Onward
<1>4. At(r, o).n \in 1..LabelMax
  BY <1>1, <1>2 DEF NamesSound
<1>5. At(r, o).n \in Nat \ {0} /\ At(r, o).n <= LabelMax
  BY <1>4, PacketAssumption DEF PacketAssumption
<1> DEFINE n == At(r, o).n
<1>6. n \in Nat
  BY <1>5
<1>7. \A i \in 1..n : At(r, o + i).c \in Bytes(r)
  <2>1. SUFFICES ASSUME NEW i \in 1..n PROVE o + i \in Offsets(r)
    BY DEF Bytes
  <2> HIDE DEF n
  <2>2. o + 1 + n <= Size(r) - 1
    BY <1>2, <1>3 DEF n
  <2> QED
    BY <1>1, <1>2, <1>6, <2>2 DEF Offsets
<1>8. LabelAt(r, o) \in [1..n -> Bytes(r)]
  BY <1>7 DEF LabelAt
<1>9. LabelAt(r, o) \in Seq(Bytes(r)) /\ Len(LabelAt(r, o)) = n
  <2> HIDE DEF n
  <2> QED
    BY <1>6, <1>8
<1> QED
  BY <1>2, <1>3, <1>5, <1>9

LEMMA DotType ==
    ASSUME NEW r, NEW a \in Seq(Bytes(r)), NEW b \in Seq(Bytes(r))
    PROVE  Dot(a, b) \in Seq(Bytes(r))
<1>1. <<".">> \in Seq(Bytes(r))
  BY DEF Bytes
<1> QED
  BY <1>1 DEF Dot

NextOf(r) == [o \in Moving(r) |-> Onward(r, o)]

LEMMA NamesRanked ==
    ASSUME NEW r, IsWellFormed(r)
    PROVE  Ranked(Offsets(r), Size(r), Depth(r), Moving(r), NextOf(r))
<1>1. /\ Size(r) \in Nat /\ Depth(r) \in [Offsets(r) -> 0..Size(r)]
      /\ Moving(r) \in SUBSET Offsets(r)
  BY DEF IsWellFormed, NamesSound, Offsets, Moving
<1>2. NextOf(r) \in [Moving(r) -> Offsets(r)]
  BY <1>1, Steps DEF Offsets, NextOf
<1>3. \A o \in Moving(r) : Depth(r)[NextOf(r)[o]] < Depth(r)[o]
  BY Steps DEF NextOf
<1> QED
  BY <1>1, <1>2, <1>3 DEF Ranked

NameFrom(r, f, o) ==
    IF At(r, o).kind = "length" THEN Dot(LabelAt(r, o), f[o + 1 + At(r, o).n])
    ELSE IF At(r, o).kind = "jump" THEN f[At(r, o).to]
    ELSE <<>>

\* NameAt obeys its recursion.
LEMMA NameUnfolds ==
    ASSUME NEW r, IsWellFormed(r)
    PROVE  /\ NameAt(r) \in [Offsets(r) -> Seq(Bytes(r))]
           /\ \A o \in Offsets(r) : NameAt(r)[o] = NameFrom(r, NameAt(r), o)
<1> DEFINE D == Offsets(r)
           V == Seq(Bytes(r))
           M == Moving(r)
           d == Depth(r)
           N == Size(r)
           next == NextOf(r)
           G == [o \in M |-> [b \in V |->
                    IF At(r, o).kind = "length" THEN Dot(LabelAt(r, o), b) ELSE b]]
           base == [o \in D |-> <<>>]
<1>1. Ranked(D, N, d, M, next)
  BY NamesRanked
<1>2. next \in [M -> D] /\ \A o \in M : next[o] = Onward(r, o)
  BY <1>1 DEF Ranked, NextOf
<1>4. V # {} /\ base \in [D -> V]
  <2>1. <<>> \in Seq(Bytes(r))
    OBVIOUS
  <2> QED
    BY <2>1
<1>5. G \in [M -> [V -> V]]
  <2>1. ASSUME NEW o \in M, NEW b \in V
        PROVE  (IF At(r, o).kind = "length" THEN Dot(LabelAt(r, o), b) ELSE b) \in V
    BY LabelType, DotType
  <2> QED
    BY <2>1
<1>6. PICK f \in [D -> V] :
          \A o \in D : f[o] = IF o \in M THEN G[o][f[next[o]]] ELSE base[o]
  <2>1. Valued(D, M, V, G, base)
    BY <1>4, <1>5 DEF Valued
  <2> HIDE DEF D, V, M, d, N, next, G, base
  <2> QED
    BY <1>1, <2>1, Recursion
<1>7. \A o \in D : f[o] = NameFrom(r, f, o)
  <2>1. SUFFICES ASSUME NEW o \in D PROVE f[o] = NameFrom(r, f, o)
    OBVIOUS
  <2>2. CASE o \in M
    <3>1. f[o] = G[o][f[Onward(r, o)]] /\ f[Onward(r, o)] \in V
      <4>1. next[o] = Onward(r, o) /\ next[o] \in D
        BY <1>2, <2>2
      <4> QED
        BY <1>6, <2>2, <4>1
    <3>2. f[o] = IF At(r, o).kind = "length" THEN Dot(LabelAt(r, o), f[Onward(r, o)])
                                             ELSE f[Onward(r, o)]
      BY <2>2, <3>1
    <3> QED
      BY <2>2, <3>2 DEF NameFrom, Moving, GoesOn, Onward
  <2>3. CASE o \notin M
    BY <1>6, <2>1, <2>3 DEF NameFrom, Moving, GoesOn
  <2> QED
    BY <2>2, <2>3
<1>8. f = [o \in Offsets(r) |-> NameFrom(r, f, o)]
  BY <1>7
<1>9. NameAt(r) = CHOOSE g : g = [o \in Offsets(r) |-> NameFrom(r, g, o)]
  BY DEF NameAt, NameFrom, Offsets
<1>10. NameAt(r) = [o \in Offsets(r) |-> NameFrom(r, NameAt(r), o)]
  BY <1>8, <1>9, Zenon
<1>11. \A o \in D : NameAt(r)[o] = NameFrom(r, NameAt(r), o)
  BY <1>10, Zenon
<1>12. \A o \in D : f[o] = NameAt(r)[o]
  <2> DEFINE g == NameAt(r)
  <2>1. \A o \in D \ M : f[o] = g[o]
    BY <1>7, <1>11 DEF NameFrom, Moving, GoesOn
  <2>2. \A o \in M : f[next[o]] = g[next[o]] => f[o] = g[o]
    BY <1>2, <1>7, <1>11 DEF NameFrom, Moving, GoesOn, Onward
  <2>3. AgreeStepwise(f, g, D, M, next)
    BY <2>1, <2>2 DEF AgreeStepwise
  <2> HIDE DEF D, M, d, N, next, g
  <2>4. \A o \in D : f[o] = g[o]
    BY <1>1, <2>3, Uniqueness
  <2> QED
    BY <2>4 DEF g
<1>13. DOMAIN NameAt(r) = D
  BY <1>10, Zenon
<1>14. NameAt(r) = f
  <2>1. NameAt(r) = [o \in D |-> NameAt(r)[o]]
    <3>1. NameAt(r) = [o \in D |-> NameFrom(r, NameAt(r), o)]
      BY <1>10
    <3> QED
      BY <3>1, <1>11
  <2>2. f = [o \in D |-> f[o]]
    OBVIOUS
  <2> QED
    BY <2>1, <2>2, <1>12
<1> QED
  BY <1>11, <1>14

\* EndOfName follows labels only.
Labelled(r) == {o \in Offsets(r) : At(r, o).kind = "length"}
BehindLabel(r) == [o \in Labelled(r) |-> o + 1 + At(r, o).n]

EndFrom(r, f, o) ==
    IF At(r, o).kind = "length" THEN f[o + 1 + At(r, o).n]
    ELSE IF At(r, o).kind = "jump" THEN o + 2
    ELSE o + 1

LEMMA LabelsRanked ==
    ASSUME NEW r, IsWellFormed(r)
    PROVE  Ranked(Offsets(r), Size(r), Depth(r), Labelled(r), BehindLabel(r))
<1>1. Labelled(r) \in SUBSET Moving(r)
  BY DEF Labelled, Moving, GoesOn
<1>2. \A o \in Labelled(r) : BehindLabel(r)[o] = NextOf(r)[o]
  BY <1>1 DEF Labelled, BehindLabel, NextOf, Onward
<1>3. BehindLabel(r) \in [Labelled(r) -> Offsets(r)]
  <2>1. \A o \in Labelled(r) : BehindLabel(r)[o] \in Offsets(r)
    BY <1>1, <1>2, NamesRanked DEF Ranked
  <2> QED
    BY <2>1 DEF BehindLabel
<1> QED
  BY <1>1, <1>2, <1>3, NamesRanked DEF Ranked

\* EndOfName obeys its recursion.
LEMMA EndUnfolds ==
    ASSUME NEW r, IsWellFormed(r)
    PROVE  /\ EndOfName(r) \in [Offsets(r) -> Nat]
           /\ \A o \in Offsets(r) : EndOfName(r)[o] = EndFrom(r, EndOfName(r), o)
<1> DEFINE D == Offsets(r)
           V == Nat
           M == Labelled(r)
           d == Depth(r)
           N == Size(r)
           next == BehindLabel(r)
           G == [o \in M |-> [b \in V |-> b]]
           base == [o \in D |-> IF At(r, o).kind = "jump" THEN o + 2 ELSE o + 1]
<1>1. Ranked(D, N, d, M, next)
  BY LabelsRanked
<1>2. next \in [M -> D] /\ \A o \in M : next[o] = o + 1 + At(r, o).n
  BY <1>1 DEF Ranked, BehindLabel
<1>3. PICK f \in [D -> V] :
          \A o \in D : f[o] = IF o \in M THEN G[o][f[next[o]]] ELSE base[o]
  <2>1. base \in [D -> V]
    BY DEF Offsets
  <2>2. Valued(D, M, V, G, base)
    BY <2>1 DEF Valued
  <2> HIDE DEF D, V, M, d, N, next, G, base
  <2> QED
    BY <1>1, <2>2, Recursion
<1>4. \A o \in D : f[o] = EndFrom(r, f, o)
  BY <1>2, <1>3 DEF EndFrom, Labelled
<1>5. f = [o \in Offsets(r) |-> EndFrom(r, f, o)]
  BY <1>4
<1>6. EndOfName(r) = CHOOSE g : g = [o \in Offsets(r) |-> EndFrom(r, g, o)]
  BY DEF EndOfName, EndFrom, Offsets
<1>7. EndOfName(r) = [o \in Offsets(r) |-> EndFrom(r, EndOfName(r), o)]
  BY <1>5, <1>6, Zenon
<1>8. \A o \in D : EndOfName(r)[o] = EndFrom(r, EndOfName(r), o)
  BY <1>7, Zenon
<1>9. \A o \in D : f[o] = EndOfName(r)[o]
  <2> DEFINE g == EndOfName(r)
  <2>1. \A o \in D \ M : f[o] = g[o]
    BY <1>4, <1>8 DEF EndFrom, Labelled
  <2>2. \A o \in M : f[next[o]] = g[next[o]] => f[o] = g[o]
    BY <1>2, <1>4, <1>8 DEF EndFrom, Labelled
  <2>3. AgreeStepwise(f, g, D, M, next)
    BY <2>1, <2>2 DEF AgreeStepwise
  <2> HIDE DEF D, M, d, N, next, g
  <2>4. \A o \in D : f[o] = g[o]
    BY <1>1, <2>3, Uniqueness
  <2> QED
    BY <2>4 DEF g
<1>10. EndOfName(r) = f
  <2>1. EndOfName(r) = [o \in D |-> EndOfName(r)[o]]
    BY <1>7, <1>8
  <2> QED
    BY <2>1, <1>9
<1> QED
  BY <1>8, <1>10

\* What follows the n-th question or record.
After(r, n) ==
    LET e == HeaderOf(r, n) IN
    IF n <= r.counts[1] THEN e + 1 ELSE e + 1 + At(r, e).len

StartFrom(r, f, n) ==
    IF n = 1 THEN SizeOfHeader
    ELSE LET e == EndOfName(r)[f[n - 1]] IN
         IF n - 1 <= r.counts[1] THEN e + 1 ELSE e + 1 + At(r, e).len

LEMMA DeclaredType ==
    ASSUME NEW r, IsWellFormed(r)
    PROVE  /\ \A s \in 1..4 : r.counts[s] \in Nat
           /\ Declared(r) \in Nat
<1>1. r.counts \in [1..4 -> Nat]
  BY DEF IsWellFormed
<1>2. /\ r.counts[1] \in Nat /\ r.counts[2] \in Nat
      /\ r.counts[3] \in Nat /\ r.counts[4] \in Nat
  BY <1>1
<1> QED
  BY <1>1, <1>2 DEF Declared

\* StartOf obeys its recursion, whatever the offsets are.
LEMMA StartUnfolds ==
    ASSUME NEW r, IsWellFormed(r)
    PROVE  /\ StartOf(r)[1] = SizeOfHeader
           /\ \A n \in 1..Declared(r) : StartOf(r)[n + 1] = After(r, n)
<1> DEFINE C == Declared(r) + 1
           Stuck == {k \in Nat :
                        ~\E f : \A n \in 1..C : n <= k => f[n] = StartFrom(r, f, n)}
<1>1. C \in Nat \ {0}
  BY DeclaredType
<1>2. \A k \in Nat : k \notin Stuck
  <2>1. SUFFICES ASSUME Stuck # {} PROVE FALSE
    OBVIOUS
  <2>2. PICK k \in Stuck : \A j \in Stuck : k <= j
    <3>1. Stuck \in SUBSET Nat
      OBVIOUS
    <3> HIDE DEF Stuck
    <3> QED
      BY <2>1, <3>1, LeastNumber
  <2>3. k \in Nat
    BY <2>2
  <2>4. k # 0
    <3>1. \A n \in 1..C : ~(n <= 0)
      BY <1>1
    <3> QED
      BY <2>2, <3>1
  <2>5. k - 1 \in Nat /\ k - 1 \notin Stuck
    <3>1. k - 1 \in Nat /\ ~(k <= k - 1)
      BY <2>3, <2>4
    <3> QED
      BY <2>2, <3>1
  <2>6. PICK f : \A n \in 1..C : n <= k - 1 => f[n] = StartFrom(r, f, n)
    BY <2>5
  <2> DEFINE g == [n \in 1..C |-> IF n <= k - 1 THEN f[n] ELSE StartFrom(r, f, n)]
  <2>7. ASSUME NEW n \in 1..C, n <= k PROVE g[n] = StartFrom(r, g, n)
    <3>1. g[n] = StartFrom(r, f, n)
      BY <2>6
    <3>2. CASE n = 1
      BY <3>1, <3>2 DEF StartFrom
    <3>3. CASE n # 1
      <4>1. n - 1 \in 1..C /\ n - 1 <= k - 1
        BY <1>1, <2>3, <2>7, <3>3
      <4>2. g[n - 1] = f[n - 1]
        BY <4>1
      <4> QED
        BY <3>1, <4>2 DEF StartFrom
    <3> QED
      BY <3>2, <3>3
  <2>8. k \notin Stuck
    <3> HIDE DEF g
    <3> QED
      BY <2>7
  <2> QED
    BY <2>2, <2>8
<1>3. PICK f : \A n \in 1..C : n <= C => f[n] = StartFrom(r, f, n)
  BY <1>1, <1>2
<1> DEFINE g == [n \in 1..C |-> f[n]]
<1>4. \A n \in 1..C : g[n] = StartFrom(r, g, n)
  <2>1. SUFFICES ASSUME NEW n \in 1..C PROVE g[n] = StartFrom(r, g, n)
    OBVIOUS
  <2>2. g[n] = StartFrom(r, f, n)
    BY <1>1, <1>3
  <2>3. CASE n = 1
    BY <2>2, <2>3 DEF StartFrom
  <2>4. CASE n # 1
    <3>1. n - 1 \in 1..C
      BY <1>1, <2>4
    <3>2. g[n - 1] = f[n - 1]
      BY <3>1
    <3> QED
      BY <2>2, <3>2 DEF StartFrom
  <2> QED
    BY <2>3, <2>4
<1>5. g = [n \in 1..C |-> StartFrom(r, g, n)]
  BY <1>4
<1>6. StartOf(r) = CHOOSE h : h = [n \in 1..C |-> StartFrom(r, h, n)]
  BY DEF StartOf, StartFrom
<1>7. StartOf(r) = [n \in 1..C |-> StartFrom(r, StartOf(r), n)]
  <2> HIDE DEF g
  <2> QED
    BY <1>5, <1>6, Zenon
<1>8. \A n \in 1..C : StartOf(r)[n] = StartFrom(r, StartOf(r), n)
  BY <1>7, Zenon
<1>9. StartOf(r)[1] = SizeOfHeader
  <2>1. 1 \in 1..C
    BY <1>1
  <2> QED
    BY <1>8, <2>1 DEF StartFrom
<1>10. ASSUME NEW n \in 1..Declared(r) PROVE StartOf(r)[n + 1] = After(r, n)
  <2>1. n + 1 \in 1..C /\ n + 1 # 1 /\ (n + 1) - 1 = n
    BY <1>1, DeclaredType
  <2>2. StartOf(r)[n + 1] = StartFrom(r, StartOf(r), n + 1)
    BY <1>8, <2>1
  <2> QED
    BY <2>1, <2>2 DEF StartFrom, After, HeaderOf
<1> QED
  BY <1>9, <1>10

------------------------------------------------------------------------------
(* The invariant.                                                             *)

\* Only a reply that has arrived is parsed.
ReplyInv ==
    /\ reply \in Replies \cup {NoReply}
    /\ pc \in {"send", "wait", "next", "name", "named", "skip", "done"}
    /\ pc \in {"send", "wait"} => /\ reply = NoReply /\ section = 1 /\ records = <<>>
                                  /\ dataLen = 0 /\ orig_ptr = 0 /\ start = 0

NumInv == WellFormed => ptr \in Nat /\ orig_ptr \in Nat /\ dataLen \in Nat /\ start \in Nat

\* What has been copied and what stands at ptr are the name, and where it ends has been
\* saved at its first jump.
Joined(a, b) == IF a = <<>> THEN b ELSE Dot(a, b)

NameInv ==
    WellFormed /\ pc = "name" =>
        /\ output \in Seq(Bytes(reply))
        /\ Joined(output, NameAt(reply)[ptr]) = NameAt(reply)[start]
        /\ (IF jumped THEN orig_ptr ELSE EndOfName(reply)[ptr]) = EndOfName(reply)[start]

CoreInv == ReplyInv /\ NumInv /\ NameInv /\ NameRead

\* The places where a name of the packet stands, and the jumps that led there.
WalkInv ==
    pc = "name" =>
        /\ start \in 0..Size(reply) - 1
        /\ Cell(ptr).kind \in NameKinds
        /\ \A v \in visited : v \in Offsets(reply)
                              /\ Depth(reply)[ptr] <= Depth(reply)[v]

UpTo(s) ==
    IF s = 1 THEN reply.counts[1]
    ELSE IF s = 2 THEN reply.counts[1] + reply.counts[2]
    ELSE IF s = 3 THEN reply.counts[1] + reply.counts[2] + reply.counts[3]
    ELSE Declared(reply)

Header == HeaderOf(reply, Len(records))

\* The records of the sections so far have been read, but for those that are left.
CountInv ==
    /\ section \in 1..4 /\ left \in 0..reply.counts[section]
    /\ records \in Seq(Nat) /\ Len(records) + left = UpTo(section)
    /\ \A n \in 1..Len(records) : records[n] = StartOf(reply)[n]
    /\ pc \in {"name", "named", "skip"} => left < reply.counts[section]

\* Where in a record the parser is.
PlaceInv ==
    /\ pc = "next" /\ Len(records) < Declared(reply) =>
           ptr = StartOf(reply)[Len(records) + 1]
    /\ pc \in {"name", "named"} =>
          \/ field = "question" /\ section = 1 /\ start = StartOf(reply)[Len(records)]
          \/ field = "owner" /\ section # 1 /\ start = StartOf(reply)[Len(records)]
          \/ /\ field = "rdata" /\ section # 1 /\ start = Header + 1
             /\ dataLen = Cell(Header).len /\ HoldsName(Cell(Header))
    /\ pc = "skip" => /\ section # 1 /\ ptr = Header + 1
                      /\ dataLen = Cell(Header).len /\ ~HoldsName(Cell(Header))
    /\ pc = "done" => verdict = "parsed" /\ Len(records) = Declared(reply)

ParseInv == WellFormed /\ Regular(reply) => WalkInv /\ CountInv /\ PlaceInv

Inv == CoreInv /\ ParseInv

------------------------------------------------------------------------------
(* Names are read as they stand in the packet.                                *)

LEMMA Replied ==
    ASSUME ReplyInv, WellFormed
    PROVE  IsWellFormed(reply) /\ pc \notin {"send", "wait"}
BY ReplyAssumption DEF ReplyInv, WellFormed, ReplyAssumption

LEMMA Concat ==
    ASSUME NEW S, NEW s \in Seq(S), NEW t \in Seq(S)
    PROVE  s \o t \in Seq(S) /\ Len(s \o t) = Len(s) + Len(t)
OBVIOUS

LEMMA LengthOf ==
    ASSUME NEW S, NEW s \in Seq(S)
    PROVE  Len(s) \in Nat /\ (s # <<>> => Len(s) > 0)
OBVIOUS

LEMMA EmptyLength == Len(<<>>) = 0
OBVIOUS

LEMMA Dotted ==
    ASSUME NEW S, "." \in S, NEW s \in Seq(S)
    PROVE  s \o <<".">> \in Seq(S) /\ Len(s \o <<".">>) = Len(s) + 1
OBVIOUS

\* What Dot makes of a label and the rest of a name.
LEMMA DotIs ==
    ASSUME NEW S, "." \in S, NEW l \in Seq(S), l # <<>>, NEW x \in Seq(S)
    PROVE  /\ Dot(l, x) \in Seq(S) /\ Dot(l, x) # <<>>
           /\ Len(l) <= Len(Dot(l, x))
           /\ x # <<>> => Dot(l, x) = (l \o <<".">>) \o x
<1>0. Len(l) \in Nat /\ Len(l) > 0 /\ Len(x) \in Nat
  BY LengthOf
<1>1. CASE x = <<>>
  BY <1>0, <1>1 DEF Dot
<1>2. CASE x # <<>>
  <2> DEFINE y == l \o <<".">>
  <2>1. Dot(l, x) = y \o x
    BY <1>2 DEF Dot
  <2>2. y \in Seq(S) /\ Len(y) = Len(l) + 1
    BY Dotted
  <2> HIDE DEF y
  <2>3. y \o x \in Seq(S) /\ Len(y \o x) = Len(y) + Len(x)
    BY <2>2, Concat
  <2>4. Len(l) <= Len(y \o x) /\ Len(y \o x) # 0
    BY <1>0, <2>2, <2>3
  <2>5. y \o x # <<>>
    BY <2>4, EmptyLength
  <2> QED
    BY <2>1, <2>3, <2>4, <2>5 DEF y
<1> QED
  BY <1>1, <1>2

\* A label copied behind what has been copied before.
Copied(a, l) == a \o (IF a = <<>> THEN <<>> ELSE <<".">>) \o l

\* Concatenation, without its definition.
Cat(s, t) == s \o t

LEMMA Regroup == \A S : \A s, t, u \in Seq(S) : Cat(Cat(s, t), u) = Cat(s, Cat(t, u))
BY ConcatAssociative DEF Cat

\* It does not matter whether a label is put behind the labels that were copied or in
\* front of those that follow.
LEMMA JoinStep ==
    ASSUME NEW S, "." \in S, NEW a \in Seq(S), NEW l \in Seq(S), l # <<>>, NEW x \in Seq(S)
    PROVE  /\ Copied(a, l) \in Seq(S) /\ Copied(a, l) # <<>>
           /\ Joined(Copied(a, l), x) = Joined(a, Dot(l, x))
           /\ Len(a) + Len(l) <= Len(Joined(a, Dot(l, x)))
<1>1. /\ Dot(l, x) \in Seq(S) /\ Dot(l, x) # <<>> /\ Len(l) <= Len(Dot(l, x))
      /\ x # <<>> => Dot(l, x) = (l \o <<".">>) \o x
  BY DotIs
<1>2. Len(a) \in Nat /\ Len(l) \in Nat /\ Len(l) > 0 /\ Len(Dot(l, x)) \in Nat
  BY <1>1, LengthOf
<1>3. CASE a = <<>>
  <2>1. Copied(a, l) = l
    BY <1>3 DEF Copied
  <2>2. Joined(a, Dot(l, x)) = Dot(l, x) /\ Joined(l, x) = Dot(l, x)
    BY <1>3 DEF Joined
  <2>3. Len(a) = 0
    BY <1>3, EmptyLength
  <2> QED
    BY <1>1, <1>2, <2>1, <2>2, <2>3
<1>4. CASE a # <<>>
  <2> DEFINE ad == a \o <<".">>
             b == ad \o l
  <2>1. Copied(a, l) = b
    BY <1>4 DEF Copied
  <2>2. ad \in Seq(S) /\ Len(ad) = Len(a) + 1
    BY Dotted
  <2>3. Joined(a, Dot(l, x)) = ad \o Dot(l, x)
    BY <1>1, <1>4 DEF Joined, Dot
  <2> HIDE DEF ad
  <2>4. b \in Seq(S) /\ Len(b) = Len(ad) + Len(l)
    BY <2>2, Concat
  <2>5. b # <<>>
    <3>1. Len(b) # 0
      BY <1>2, <2>2, <2>4
    <3> QED
      BY <3>1, EmptyLength
  <2>6. Joined(b, x) = ad \o Dot(l, x)
    <3>1. CASE x = <<>>
      BY <2>5, <3>1 DEF Joined, Dot
    <3>2. CASE x # <<>>
      <4> DEFINE p == <<".">>
                 lp == l \o p
      <4>1. Joined(b, x) = (b \o p) \o x
        BY <2>5, <3>2 DEF Joined, Dot
      <4>2. Dot(l, x) = lp \o x
        BY <1>1, <3>2
      <4>3. p \in Seq(S) /\ lp \in Seq(S)
        BY Dotted
      <4> HIDE DEF p
      <4>4. b \o p = ad \o lp
        <5>1. ad \in Seq(S) /\ p \in Seq(S)
          BY <2>2, <4>3
        <5>2. Cat(Cat(ad, l), p) = Cat(ad, Cat(l, p))
          BY <5>1, Regroup
        <5> QED
          BY <5>2 DEF Cat
      <4> HIDE DEF b, lp
      <4>5. (ad \o lp) \o x = ad \o (lp \o x)
        <5>1. ad \in Seq(S) /\ lp \in Seq(S)
          BY <2>2, <4>3
        <5>2. Cat(Cat(ad, lp), x) = Cat(ad, Cat(lp, x))
          BY <5>1, Regroup
        <5> QED
          BY <5>2 DEF Cat
      <4> QED
        BY <4>1, <4>2, <4>4, <4>5
    <3> QED
      BY <3>1, <3>2
  <2>7. Len(ad \o Dot(l, x)) = Len(ad) + Len(Dot(l, x))
    BY <1>1, <2>2, Concat
  <2>8. Len(a) + Len(l) <= Len(ad \o Dot(l, x))
    BY <1>1, <1>2, <2>2, <2>7
  <2> HIDE DEF b
  <2> QED
    BY <2>1, <2>3, <2>4, <2>5, <2>6, <2>8
<1> QED
  BY <1>3, <1>4

LEMMA Inside ==
    ASSUME NEW r, IsWellFormed(r), NEW o \in Nat,
           At(r, o).kind \in NameKinds \cup {"record"}
    PROVE  o \in 0..Size(r) - 1 /\ o \in Offsets(r)
<1>1. Size(r) \in Nat
  BY DEF IsWellFormed
<1>2. o < Size(r)
  BY DEF At, NameKinds
<1> QED
  BY <1>1, <1>2 DEF Offsets

\* The meaning of a name, cell by cell.
LEMMA AtLabel ==
    ASSUME NEW r, IsWellFormed(r), NEW o \in Nat, At(r, o).kind = "length"
    PROVE  /\ o + 1 + At(r, o).n \in 0..Size(r) - 1
           /\ At(r, o).n \in Nat \ {0} /\ At(r, o).n <= LabelMax
           /\ LabelAt(r, o) \in Seq(Bytes(r)) /\ Len(LabelAt(r, o)) = At(r, o).n
           /\ LabelAt(r, o) # <<>>
           /\ NameAt(r)[o + 1 + At(r, o).n] \in Seq(Bytes(r))
           /\ NameAt(r)[o] = Dot(LabelAt(r, o), NameAt(r)[o + 1 + At(r, o).n])
           /\ EndOfName(r)[o] = EndOfName(r)[o + 1 + At(r, o).n]
           /\ At(r, o + 1 + At(r, o).n).kind \in NameKinds
           /\ Depth(r)[o + 1 + At(r, o).n] < Depth(r)[o]
<1>1. o \in Offsets(r)
  BY Inside DEF NameKinds
<1>2. o \in Moving(r)
  BY <1>1 DEF Moving, GoesOn
<1>3. Onward(r, o) = o + 1 + At(r, o).n
  BY DEF Onward
<1> DEFINE q == o + 1 + At(r, o).n
<1>4. /\ q \in 0..Size(r) - 1 /\ At(r, q).kind \in NameKinds
      /\ Depth(r)[q] < Depth(r)[o]
  BY <1>2, <1>3, Steps
<1>5. /\ At(r, o).n \in Nat \ {0} /\ At(r, o).n <= LabelMax
      /\ LabelAt(r, o) \in Seq(Bytes(r)) /\ Len(LabelAt(r, o)) = At(r, o).n
  BY <1>2, LabelType
<1>6. LabelAt(r, o) # <<>>
  BY <1>5, EmptyLength
<1>7. NameAt(r)[o] = Dot(LabelAt(r, o), NameAt(r)[q])
  BY <1>1, NameUnfolds DEF NameFrom
<1>8. NameAt(r)[q] \in Seq(Bytes(r))
  <2>1. q \in Offsets(r)
    BY <1>4 DEF Offsets, IsWellFormed
  <2> HIDE DEF q
  <2> QED
    BY <2>1, NameUnfolds
<1>9. EndOfName(r)[o] = EndOfName(r)[q]
  BY <1>1, EndUnfolds DEF EndFrom
<1> QED
  BY <1>4, <1>5, <1>6, <1>7, <1>8, <1>9

LEMMA AtJump ==
    ASSUME NEW r, IsWellFormed(r), NEW o \in Nat, At(r, o).kind = "jump"
    PROVE  /\ At(r, o).to \in SizeOfHeader..Size(r) - 1 /\ o + 1 < Size(r)
           /\ NameAt(r)[o] = NameAt(r)[At(r, o).to]
           /\ EndOfName(r)[o] = o + 2
           /\ At(r, At(r, o).to).kind \in NameKinds
           /\ Depth(r)[At(r, o).to] < Depth(r)[o]
<1>1. o \in 0..Size(r) - 1 /\ o \in Offsets(r)
  BY Inside DEF NameKinds
<1>2. o \in Moving(r)
  BY <1>1 DEF Moving, GoesOn
<1>3. Onward(r, o) = At(r, o).to
  BY DEF Onward
<1>4. At(r, At(r, o).to).kind \in NameKinds /\ Depth(r)[At(r, o).to] < Depth(r)[o]
  BY <1>2, <1>3, Steps
<1>5. At(r, o).to \in SizeOfHeader..Size(r) - 1 /\ o + 1 < Size(r)
  BY <1>1 DEF IsWellFormed, NamesSound
<1>6. NameAt(r)[o] = NameAt(r)[At(r, o).to]
  BY <1>1, NameUnfolds DEF NameFrom
<1>7. EndOfName(r)[o] = o + 2
  BY <1>1, EndUnfolds DEF EndFrom
<1> QED
  BY <1>4, <1>5, <1>6, <1>7

LEMMA AtZero ==
    ASSUME NEW r, IsWellFormed(r), NEW o \in Nat, At(r, o).kind = "zero"
    PROVE  NameAt(r)[o] = <<>> /\ EndOfName(r)[o] = o + 1
<1>1. o \in Offsets(r)
  BY Inside DEF NameKinds
<1> QED
  BY <1>1, NameUnfolds, EndUnfolds DEF NameFrom, EndFrom

------------------------------------------------------------------------------
(* readDNSName() preserves the invariant.                                     *)

\* The length of a label of a well-formed packet is the same as a char.
LEMMA SameLength == ASSUME NEW n \in Nat, n <= LabelMax PROVE label_length(n) = n
BY PacketAssumption DEF PacketAssumption, label_length

LEMMA InitCore == Init => CoreInv
BY DEF Init, CoreInv, ReplyInv, NumInv, NameInv, NameRead, WellFormed, NoReply

\* Before a reply is there, nothing is claimed of it.
LEMMA WaitCore ==
    ASSUME CoreInv, SendQuery \/ SelectTimeout \/ SelectError \/ ReceiveError
    PROVE  CoreInv' /\ ~WellFormed'
<1>1. reply' = NoReply /\ reply = NoReply
  BY DEF CoreInv, ReplyInv, SendQuery, SelectTimeout, SelectError, ReceiveError
<1>2. ~WellFormed'
  BY <1>1 DEF WellFormed
<1>3. ReplyInv'
  BY <1>1 DEF CoreInv, ReplyInv, SendQuery, SelectTimeout, SelectError, ReceiveError, Finish,
              parser, nameVars
<1> QED
  BY <1>2, <1>3 DEF CoreInv, NumInv, NameInv, NameRead

LEMMA ReceiveCore == ASSUME CoreInv, Receive PROVE CoreInv'
<1>1. ReplyInv'
  BY DEF CoreInv, ReplyInv, Receive, nameVars
<1>2. ptr' = 1 /\ orig_ptr' = 0 /\ dataLen' = 0 /\ start' = 0
  BY DEF CoreInv, ReplyInv, Receive, nameVars, SizeOfHeader
<1>3. pc' \in {"next", "done"}
  BY DEF Receive
<1> QED
  BY <1>1, <1>2, <1>3 DEF CoreInv, NumInv, NameInv, NameRead

LEMMA JumpCore == ASSUME CoreInv, FollowJump PROVE CoreInv'
<1>1. /\ pc = "name" /\ Cell(ptr).kind = "jump" /\ reply' = reply /\ start' = start
      /\ dataLen' = dataLen /\ section' = section /\ records' = records
  BY DEF FollowJump, Is, parser
<1>2. pc' \in {"name", "done"} /\ (pc' = "done" => ptr' = ptr /\ orig_ptr' = orig_ptr)
  BY <1>1 DEF FollowJump, Finish, nameVars
<1>3. ReplyInv'
  BY <1>1, <1>2 DEF CoreInv, ReplyInv
<1>4. SUFFICES ASSUME WellFormed' PROVE NumInv' /\ NameInv' /\ NameRead'
  BY <1>3 DEF CoreInv, NumInv, NameInv, NameRead
<1>5. WellFormed /\ IsWellFormed(reply)
  BY <1>1, <1>4, Replied DEF WellFormed, CoreInv
<1>6. ptr \in Nat /\ orig_ptr \in Nat /\ dataLen \in Nat /\ start \in Nat
  BY <1>5 DEF CoreInv, NumInv
<1>7. NameRead'
  BY <1>2 DEF NameRead
<1>8. CASE pc' = "done"
  BY <1>1, <1>2, <1>6, <1>7, <1>8 DEF NumInv, NameInv
<1>9. CASE pc' = "name"
  <2> DEFINE o == Cell(ptr).to
  <2>1. ptr' = o /\ jumped' = TRUE /\ orig_ptr' = savedPtr /\ output' = output
    BY <1>1, <1>9 DEF FollowJump, Finish
  <2>2. /\ o \in SizeOfHeader..Size(reply) - 1
        /\ NameAt(reply)[ptr] = NameAt(reply)[o] /\ EndOfName(reply)[ptr] = ptr + 2
    BY <1>1, <1>5, <1>6, AtJump DEF Cell
  <2>3. o \in Nat
    BY <2>2 DEF SizeOfHeader
  <2>4. savedPtr \in Nat
    BY <1>6 DEF savedPtr
  <2>5. /\ output \in Seq(Bytes(reply))
        /\ Joined(output, NameAt(reply)[ptr]) = NameAt(reply)[start]
        /\ (IF jumped THEN orig_ptr ELSE EndOfName(reply)[ptr]) = EndOfName(reply)[start]
    BY <1>1, <1>5 DEF CoreInv, NameInv
  <2>6. savedPtr = EndOfName(reply)[start]
    BY <2>2, <2>5 DEF savedPtr
  <2> HIDE DEF o
  <2>7. NumInv'
    BY <1>1, <1>6, <2>1, <2>3, <2>4 DEF NumInv
  <2>8. NameInv'
    BY <1>1, <2>1, <2>2, <2>5, <2>6 DEF NameInv
  <2> QED
    BY <1>7, <2>7, <2>8
<1> QED
  BY <1>2, <1>8, <1>9

LEMMA LabelCore == ASSUME CoreInv, CopyLabel PROVE CoreInv'
<1>1. /\ pc = "name" /\ Cell(ptr).kind = "length" /\ reply' = reply /\ start' = start
      /\ dataLen' = dataLen /\ section' = section /\ records' = records
      /\ orig_ptr' = orig_ptr /\ jumped' = jumped
  BY DEF CopyLabel, Is, parser
<1>2. pc' \in {"name", "done"} /\ (pc' = "done" => ptr' = ptr)
  BY <1>1 DEF CopyLabel, Finish
<1>3. ReplyInv'
  BY <1>1, <1>2 DEF CoreInv, ReplyInv
<1>4. SUFFICES ASSUME WellFormed' PROVE NumInv' /\ NameInv' /\ NameRead'
  BY <1>3 DEF CoreInv, NumInv, NameInv, NameRead
<1>5. WellFormed /\ IsWellFormed(reply)
  BY <1>1, <1>4, Replied DEF WellFormed, CoreInv
<1>6. ptr \in Nat /\ orig_ptr \in Nat /\ dataLen \in Nat /\ start \in Nat
  BY <1>5 DEF CoreInv, NumInv
<1>7. NameRead'
  BY <1>2 DEF NameRead
<1>8. CASE pc' = "done"
  BY <1>1, <1>2, <1>6, <1>7, <1>8 DEF NumInv, NameInv
<1>9. CASE pc' = "name"
  <2> DEFINE q == ptr + 1 + Cell(ptr).n
             l == LabelAt(reply, ptr)
             x == NameAt(reply)[q]
             S == Bytes(reply)
  <2>1. ptr' = q /\ output' = Copied(output, l)
    <3>1. l = [i \in 1..Cell(ptr).n |-> Cell(ptr + i).c]
      BY DEF LabelAt, Cell
    <3>2. label_length(Cell(ptr).n) = Cell(ptr).n
      BY <1>1, <1>5, <1>6, AtLabel, SameLength DEF Cell
    <3> QED
      BY <1>1, <1>9, <3>1, <3>2 DEF CopyLabel, Finish, Copied
  <2>2. q \in 0..Size(reply) - 1 /\ l \in Seq(S) /\ l # <<>> /\ x \in Seq(S)
    BY <1>1, <1>5, <1>6, AtLabel DEF Cell
  <2>3. NameAt(reply)[ptr] = Dot(l, x) /\ EndOfName(reply)[ptr] = EndOfName(reply)[q]
    BY <1>1, <1>5, <1>6, AtLabel DEF Cell
  <2>4. /\ output \in Seq(S)
        /\ Joined(output, NameAt(reply)[ptr]) = NameAt(reply)[start]
        /\ (IF jumped THEN orig_ptr ELSE EndOfName(reply)[ptr]) = EndOfName(reply)[start]
    BY <1>1, <1>5 DEF CoreInv, NameInv
  <2>5. "." \in S
    BY DEF Bytes
  <2> HIDE DEF l, S
  <2>6. /\ Copied(output, l) \in Seq(S)
        /\ Joined(Copied(output, l), x) = Joined(output, Dot(l, x))
    <3> HIDE DEF x
    <3> QED
      BY <2>2, <2>4, <2>5, JoinStep
  <2> HIDE DEF q
  <2>7. NumInv'
    BY <1>1, <1>6, <2>1, <2>2 DEF NumInv
  <2>8. NameInv'
    BY <1>1, <2>1, <2>3, <2>4, <2>6 DEF NameInv, S
  <2> QED
    BY <1>7, <2>7, <2>8
<1> QED
  BY <1>2, <1>8, <1>9

LEMMA EndCore == ASSUME CoreInv, EndName PROVE CoreInv'
<1>1. /\ pc = "name" /\ Cell(ptr).kind = "zero" /\ reply' = reply /\ start' = start
      /\ dataLen' = dataLen /\ section' = section /\ records' = records
      /\ orig_ptr' = orig_ptr /\ output' = output
      /\ \/ pc' = "named" /\ ptr' = IF jumped THEN orig_ptr ELSE ptr + 1
         \/ pc' = "done" /\ ptr' = ptr
  BY DEF EndName, Is, parser, nameVars, Finish
<1>2. ReplyInv'
  BY <1>1 DEF CoreInv, ReplyInv
<1>3. SUFFICES ASSUME WellFormed' PROVE NumInv' /\ NameInv' /\ NameRead'
  BY <1>2 DEF CoreInv, NumInv, NameInv, NameRead
<1>4. WellFormed /\ IsWellFormed(reply)
  BY <1>1, <1>3, Replied DEF WellFormed, CoreInv
<1>5. ptr \in Nat /\ orig_ptr \in Nat /\ dataLen \in Nat /\ start \in Nat
  BY <1>4 DEF CoreInv, NumInv
<1>6. NameAt(reply)[ptr] = <<>> /\ EndOfName(reply)[ptr] = ptr + 1
  BY <1>1, <1>4, <1>5, AtZero DEF Cell
<1>7. /\ Joined(output, NameAt(reply)[ptr]) = NameAt(reply)[start]
      /\ (IF jumped THEN orig_ptr ELSE EndOfName(reply)[ptr]) = EndOfName(reply)[start]
  BY <1>1, <1>4 DEF CoreInv, NameInv
<1>8. Joined(output, <<>>) = output
  BY DEF Joined, Dot
<1>9. output = NameAt(reply)[start]
  BY <1>6, <1>7, <1>8
<1>10. pc' = "named" => ptr' = EndOfName(reply)[start]
  BY <1>1, <1>6, <1>7
<1>11. NumInv'
  BY <1>1, <1>5 DEF NumInv
<1> QED
  BY <1>1, <1>9, <1>10, <1>11 DEF NameInv, NameRead

\* Between names, only offsets change.
LEMMA ParseCore ==
    ASSUME CoreInv, Astray \/ parseDNSResponse \/ UNCHANGED vars PROVE CoreInv'
<1>1. CASE UNCHANGED vars
  <2>1. /\ UNCHANGED <<pc, reply, section, records, dataLen>>
        /\ UNCHANGED <<orig_ptr, start, ptr, output, jumped>>
        /\ WellFormed' <=> WellFormed
    BY <1>1 DEF vars, WellFormed
  <2> QED
    BY <2>1 DEF CoreInv, ReplyInv, NumInv, NameInv, NameRead
<1>2. CASE Astray \/ parseDNSResponse
  <2>1. /\ reply' = reply /\ pc \in {"name", "named", "next", "skip"}
        /\ pc' \in {"next", "name", "skip", "done"}
    BY <1>2 DEF Astray, parseDNSResponse, NextSection, NextRecord, EndQuestion, ReadHeader,
                SkipData, Finish, BeginName, Is
  <2>2. ReplyInv'
    BY <2>1 DEF CoreInv, ReplyInv
  <2>3. SUFFICES ASSUME WellFormed' PROVE NumInv' /\ NameInv' /\ NameRead'
    BY <2>2 DEF CoreInv, NumInv, NameInv, NameRead
  <2>4. WellFormed /\ IsWellFormed(reply)
    BY <2>1, <2>3, Replied DEF WellFormed, CoreInv
  <2>5. ptr \in Nat /\ orig_ptr \in Nat /\ dataLen \in Nat /\ start \in Nat
    BY <2>4 DEF CoreInv, NumInv
  <2>6. NameRead'
    BY <2>1 DEF NameRead
  <2>7. ASSUME Is("record") PROVE Cell(ptr).len \in Nat
    <3>1. ptr \in 0..Size(reply) - 1
      BY <2>4, <2>5, <2>7, Inside DEF Is, Cell
    <3> QED
      BY <2>4, <2>7, <3>1 DEF IsWellFormed, Is, Cell
  <2>8. NumInv'
    <3>1. CASE Astray \/ NextSection
      BY <2>5, <3>1 DEF Astray, NextSection, NumInv, parser, nameVars
    <3>2. CASE NextRecord
      BY <2>5, <3>2 DEF NextRecord, BeginName, NumInv, nameVars
    <3>3. CASE EndQuestion
      BY <2>5, <3>3 DEF EndQuestion, NumInv, parser, nameVars
    <3>4. CASE ReadHeader
      <4>1. dataLen' \in Nat
        BY <2>5, <2>7, <3>4 DEF ReadHeader
      <4>2. /\ ptr' \in {ptr, ptr + 1} /\ start' \in {start, ptr + 1}
            /\ orig_ptr' \in {orig_ptr, ptr + 1}
        BY <3>4 DEF ReadHeader, BeginName, nameVars
      <4> QED
        BY <2>5, <4>1, <4>2 DEF NumInv
    <3>5. CASE SkipData
      <4>1. SkipTo \in SUBSET Nat
        BY <2>5 DEF SkipTo
      <4> QED
        BY <2>5, <3>5, <4>1 DEF SkipData, NumInv, parser, nameVars
    <3> QED
      BY <1>2, <3>1, <3>2, <3>3, <3>4, <3>5 DEF parseDNSResponse
  <2>9. NameInv'
    <3>1. SUFFICES ASSUME pc' = "name" PROVE NameInv'
      BY DEF NameInv
    <3>2. ptr' = start' /\ output' = <<>> /\ jumped' = FALSE
      BY <1>2, <3>1 DEF Astray, parseDNSResponse, NextSection, NextRecord, EndQuestion,
                        ReadHeader, SkipData, Finish, BeginName
    <3>3. output' \in Seq(Bytes(reply))
      BY <3>2
    <3> QED
      BY <2>1, <3>2, <3>3 DEF NameInv, Joined
  <2> QED
    BY <2>6, <2>8, <2>9
<1> QED
  BY <1>1, <1>2

LEMMA NextCore == CoreInv /\ [Next]_vars => CoreInv'
<1>1. SUFFICES ASSUME CoreInv, Next \/ UNCHANGED vars PROVE CoreInv'
  OBVIOUS
<1>2. CASE sendDNSQuery
  BY <1>1, <1>2, WaitCore, ReceiveCore DEF sendDNSQuery
<1>3. CASE readDNSName
  BY <1>1, <1>3, JumpCore, LabelCore, EndCore, ParseCore DEF readDNSName
<1>4. CASE parseDNSResponse \/ UNCHANGED vars
  BY <1>1, <1>4, ParseCore
<1> QED
  BY <1>1, <1>2, <1>3, <1>4 DEF Next, Done

LEMMA CoreInvariant == Spec => []CoreInv
<1>1. Init => CoreInv
  BY InitCore
<1>2. CoreInv /\ [Next]_vars => CoreInv'
  BY NextCore
<1> QED
  BY <1>1, <1>2, PTL DEF Spec

\* Whatever labels and jumps a name of a well-formed reply is made of, readDNSName()
\* returns the name that stands there, and goes on behind the name, not behind the last
\* of its jumps.
THEOREM NamesAreRead == Spec => []NameRead
<1>1. CoreInv => NameRead
  BY DEF CoreInv
<1> QED
  BY <1>1, CoreInvariant, PTL

------------------------------------------------------------------------------
(* parseDNSResponse() finds the records of a well-formed reply.               *)

Told == WellFormed /\ Regular(reply)

LEMMA Counted ==
    ASSUME IsWellFormed(reply), CountInv
    PROVE  /\ Len(records) \in Nat /\ section \in 1..4 /\ left \in Nat
           /\ reply.counts[1] \in Nat /\ reply.counts[section] \in Nat
           /\ Declared(reply) \in Nat /\ Len(records) + left <= Declared(reply)
           /\ section = 1 => Len(records) + left = reply.counts[1]
           /\ section = 4 => Len(records) + left = Declared(reply)
           /\ section # 1 /\ left < reply.counts[section] =>
                 reply.counts[1] < Len(records)
           /\ section = 3 /\ left < reply.counts[section] =>
                 InAuthority(reply, Len(records))
           /\ left < reply.counts[section] => Len(records) \in 1..Declared(reply)
<1> DEFINE a == reply.counts[1]
           b == reply.counts[2]
           c == reply.counts[3]
           d == reply.counts[4]
           k == Len(records)
<1>1. a \in Nat /\ b \in Nat /\ c \in Nat /\ d \in Nat
  BY DeclaredType
<1>2. Declared(reply) = a + b + c + d
  BY DEF Declared
<1>3. k \in Nat
  BY DEF CountInv
<1>4. section \in 1..4 /\ left \in 0..reply.counts[section] /\ k + left = UpTo(section)
  BY DEF CountInv
<1>5. \/ section = 1 /\ reply.counts[section] = a /\ k + left = a
      \/ section = 2 /\ reply.counts[section] = b /\ k + left = a + b
      \/ section = 3 /\ reply.counts[section] = c /\ k + left = a + b + c
      \/ section = 4 /\ reply.counts[section] = d /\ k + left = a + b + c + d
  BY <1>2, <1>4 DEF UpTo
<1>6. left \in Nat
  BY <1>1, <1>4, <1>5
<1>7. InAuthority(reply, k) <=> a + b < k /\ k <= a + b + c
  BY DEF InAuthority
<1> DEFINE g == reply.counts[section]
           D == Declared(reply)
<1> HIDE DEF a, b, c, d, k, g, D
<1>8. /\ g \in Nat /\ D \in Nat /\ k + left <= D
      /\ section = 1 => k + left = a
      /\ section = 4 => k + left = D
      /\ section # 1 /\ left < g => a < k
      /\ section = 3 /\ left < g => a + b < k /\ k <= a + b + c
      /\ left < g => k \in 1..D
  BY <1>1, <1>2, <1>3, <1>5, <1>6 DEF g, D
<1> QED
  BY <1>1, <1>3, <1>4, <1>6, <1>7, <1>8 DEF a, k, g, D

\* The conditions under which an action of the parser is looked at.
LEMMA Parsing ==
    ASSUME Inv, Told
    PROVE  /\ IsWellFormed(reply) /\ WalkInv /\ CountInv /\ PlaceInv
           /\ ptr \in Nat /\ orig_ptr \in Nat /\ dataLen \in Nat /\ start \in Nat
BY Replied DEF Inv, Told, ParseInv, CoreInv, NumInv

LEMMA Deeper ==
    ASSUME NEW r, IsWellFormed(r), NEW o \in Offsets(r), NEW q \in Offsets(r),
           NEW v \in Offsets(r), Depth(r)[o] < Depth(r)[q], Depth(r)[q] <= Depth(r)[v]
    PROVE  Depth(r)[o] < Depth(r)[v] /\ Depth(r)[o] <= Depth(r)[v] /\ o # v
<1>1. Depth(r)[o] \in Nat /\ Depth(r)[q] \in Nat /\ Depth(r)[v] \in Nat
  BY NamesRanked DEF Ranked
<1>2. Depth(r)[o] < Depth(r)[v] /\ Depth(r)[o] <= Depth(r)[v]
  BY <1>1
<1> QED
  BY <1>1, <1>2

LEMMA InitParse == Init => ParseInv
BY DEF Init, ParseInv, WellFormed, NoReply

LEMMA ReceiveParse == ASSUME Inv, Receive PROVE ParseInv'
<1>1. SUFFICES ASSUME WellFormed' PROVE (WalkInv /\ CountInv /\ PlaceInv)'
  BY DEF ParseInv
<1>2. CoreInv'
  BY ReceiveCore DEF Inv
<1>3. IsWellFormed(reply')
  BY <1>1, <1>2, Replied, ReplyAssumption DEF Receive, WellFormed, ReplyAssumption
<1>4. HeaderVerdict(reply') = "none"
  BY <1>3 DEF IsWellFormed, HeaderVerdict, SizeOfHeader
<1>5. /\ pc' = "next" /\ left' = reply'.counts[1] /\ ptr' = SizeOfHeader
      /\ section' = 1 /\ records' = <<>>
  BY <1>4 DEF Receive, Inv, CoreInv, ReplyInv
<1>6. reply'.counts[1] \in Nat
  BY <1>3, DeclaredType
<1>7. CountInv'
  <2>1. left' \in 0..reply'.counts[section']
    BY <1>5, <1>6
  <2>2. records' \in Seq(Nat) /\ Len(records') = 0
    BY <1>5
  <2>3. UpTo(section)' = reply'.counts[1]
    BY <1>5 DEF UpTo
  <2> QED
    BY <1>5, <1>6, <2>1, <2>2, <2>3 DEF CountInv
<1>8. PlaceInv'
  <2>1. ptr' = StartOf(reply')[1] /\ Len(records') = 0
    BY <1>3, <1>5, StartUnfolds
  <2> QED
    BY <1>5, <2>1 DEF PlaceInv
<1> QED
  BY <1>5, <1>7, <1>8 DEF WalkInv

\* While a name is read, neither the place in the packet nor the counts change.
LEMMA SamePlace ==
    ASSUME CountInv, PlaceInv, pc = "name", pc' \in {"name", "named"},
           UNCHANGED <<reply, section, left, records, field, start, dataLen>>
    PROVE  CountInv' /\ PlaceInv'
<1>1. UpTo(section)' = UpTo(section) /\ Header' = Header
  BY DEF UpTo, Header
<1>2. CountInv'
  BY <1>1 DEF CountInv
<1>3. Cell(Header)' = Cell(Header)
  BY <1>1 DEF Cell
<1>4. PlaceInv'
  BY <1>1, <1>3 DEF PlaceInv
<1> QED
  BY <1>2, <1>4

LEMMA JumpParse == ASSUME Inv, FollowJump PROVE ParseInv'
<1>1. SUFFICES ASSUME Told' PROVE (WalkInv /\ CountInv /\ PlaceInv)'
  BY DEF ParseInv, Told
<1>2. /\ pc = "name" /\ Cell(ptr).kind = "jump"
      /\ UNCHANGED <<reply, section, left, records, field, start, dataLen>>
  BY DEF FollowJump, Is, parser
<1>3. Told
  BY <1>1, <1>2 DEF Told, WellFormed
<1>4. /\ IsWellFormed(reply) /\ WalkInv /\ CountInv /\ PlaceInv /\ ptr \in Nat
  BY <1>3, Parsing
<1> DEFINE o == Cell(ptr).to
<1>5. /\ o \in SizeOfHeader..Size(reply) - 1 /\ ptr + 1 < Size(reply)
      /\ Cell(o).kind \in NameKinds /\ Depth(reply)[o] < Depth(reply)[ptr]
  BY <1>2, <1>4, AtJump DEF Cell
<1>6. Size(reply) \in Nat /\ o \in Offsets(reply) /\ ptr \in Offsets(reply)
  <2>1. Size(reply) \in Nat
    BY <1>4 DEF IsWellFormed
  <2> HIDE DEF o
  <2> QED
    BY <1>4, <1>5, <2>1 DEF Offsets, SizeOfHeader
<1>7. \A v \in visited : v \in Offsets(reply) /\ Depth(reply)[ptr] <= Depth(reply)[v]
  BY <1>2, <1>4 DEF WalkInv
<1> HIDE DEF o
<1>8. \A v \in visited : Depth(reply)[o] <= Depth(reply)[v] /\ o # v
  BY <1>4, <1>5, <1>6, <1>7, Deeper
<1>9. Depth(reply)[o] <= Depth(reply)[o]
  BY <1>4, <1>6, NamesRanked DEF Ranked
<1>10. o \notin visited
  BY <1>8
<1>11. JumpVerdict(o) = "none"
  BY <1>4, <1>5, <1>6, <1>10 DEF JumpVerdict, SizeOfHeader
<1>12. visited' = visited \cup {o} /\ ptr' = o /\ pc' = "name"
  BY <1>2, <1>11 DEF FollowJump, o
<1>13. WalkInv'
  <2>1. start' \in 0..Size(reply') - 1
    BY <1>2, <1>4 DEF WalkInv
  <2>2. Cell(ptr)'.kind \in NameKinds
    BY <1>2, <1>5, <1>12 DEF Cell
  <2>3. \A v \in visited' : v \in Offsets(reply') /\ Depth(reply')[ptr'] <= Depth(reply')[v]
    BY <1>2, <1>6, <1>7, <1>8, <1>9, <1>12
  <2> QED
    BY <2>1, <2>2, <2>3 DEF WalkInv
<1> QED
  BY <1>2, <1>4, <1>12, <1>13, SamePlace

LEMMA LabelParse == ASSUME Inv, CopyLabel PROVE ParseInv'
<1>1. SUFFICES ASSUME Told' PROVE (WalkInv /\ CountInv /\ PlaceInv)'
  BY DEF ParseInv, Told
<1>2. /\ pc = "name" /\ Cell(ptr).kind = "length" /\ visited' = visited
      /\ UNCHANGED <<reply, section, left, records, field, start, dataLen>>
  BY DEF CopyLabel, Is, parser
<1>3. Told
  BY <1>1, <1>2 DEF Told, WellFormed
<1>4. /\ IsWellFormed(reply) /\ WalkInv /\ CountInv /\ PlaceInv /\ ptr \in Nat
  BY <1>3, Parsing
<1> DEFINE n == Cell(ptr).n
           q == ptr + 1 + n
           l == LabelAt(reply, ptr)
           x == NameAt(reply)[q]
           S == Bytes(reply)
<1>5. /\ q \in 0..Size(reply) - 1 /\ n \in Nat \ {0} /\ n <= LabelMax
      /\ Cell(q).kind \in NameKinds /\ Depth(reply)[q] < Depth(reply)[ptr]
      /\ l \in Seq(S) /\ Len(l) = n /\ l # <<>> /\ x \in Seq(S)
      /\ NameAt(reply)[ptr] = Dot(l, x)
  BY <1>2, <1>4, AtLabel DEF Cell
<1>6. "." \in S
  BY DEF Bytes
<1>7. output \in Seq(S) /\ Joined(output, Dot(l, x)) = NameAt(reply)[start]
  BY <1>2, <1>3, <1>5 DEF Told, Inv, CoreInv, NameInv
<1>8. Len(NameAt(reply)[start]) <= NameMax
  BY <1>2, <1>4 DEF WalkInv, IsWellFormed, NamesSound
<1>9. Len(output) + Len(l) <= NameMax
  <2>1. Len(output) + Len(l) <= Len(Joined(output, Dot(l, x)))
    <3> HIDE DEF l, x, S
    <3> QED
      BY <1>5, <1>6, <1>7, JoinStep
  <2>2. start \in Offsets(reply)
    BY <1>2, <1>4 DEF WalkInv, Offsets, IsWellFormed
  <2>3. Len(NameAt(reply)[start]) \in Nat
    BY <1>4, <2>2, NameUnfolds
  <2>4. Len(output) \in Nat /\ Len(l) \in Nat
    <3> HIDE DEF l, x, S
    <3> QED
      BY <1>5, <1>7
  <2>5. NameMax \in Nat
    BY PacketAssumption DEF PacketAssumption
  <2> DEFINE u == Len(output)
             w == Len(l)
             z == Len(NameAt(reply)[start])
  <2>6. u + w <= z /\ z <= NameMax
    BY <1>7, <1>8, <2>1
  <2>7. u \in Nat /\ w \in Nat /\ z \in Nat
    BY <2>3, <2>4
  <2> HIDE DEF u, w, z
  <2>8. u + w <= NameMax
    BY <2>5, <2>6, <2>7
  <2> QED
    BY <2>8 DEF u, w
<1>10. Size(reply) \in Nat /\ q \in Offsets(reply) /\ ptr \in Offsets(reply)
  <2>1. Size(reply) \in Nat
    BY <1>4 DEF IsWellFormed
  <2>2. ptr \in Offsets(reply)
    BY <1>2, <1>4, Inside DEF NameKinds, Cell
  <2> HIDE DEF q
  <2> QED
    BY <1>5, <2>1, <2>2 DEF Offsets
<1>11. LabelVerdict(n) = "none"
  <2>1. ~(n > LabelMax)
    BY <1>5, PacketAssumption DEF PacketAssumption
  <2>2. ~(q >= Size(reply))
    BY <1>5, <1>10
  <2>3. ~(Len(output) + n > NameMax) /\ ~(n < 0)
    <3>1. Len(output) \in Nat /\ n \in Nat /\ NameMax \in Nat
      <4> HIDE DEF S, n
      <4> QED
        BY <1>5, <1>7, PacketAssumption DEF PacketAssumption
    <3>2. Len(output) + n <= NameMax
      BY <1>5, <1>9
    <3> HIDE DEF n
    <3> QED
      BY <3>1, <3>2
  <2> QED
    BY <2>1, <2>2, <2>3 DEF LabelVerdict
<1>12. ptr' = q /\ pc' = "name"
  <2>1. label_length(n) = n
    BY <1>5, SameLength
  <2> QED
    BY <1>2, <1>11, <2>1 DEF CopyLabel
<1>13. WalkInv'
  <2>1. start' \in 0..Size(reply') - 1
    BY <1>2, <1>4 DEF WalkInv
  <2>2. Cell(ptr)'.kind \in NameKinds
    BY <1>2, <1>5, <1>12 DEF Cell
  <2>3. \A v \in visited : v \in Offsets(reply) /\ Depth(reply)[ptr] <= Depth(reply)[v]
    BY <1>2, <1>4 DEF WalkInv
  <2> HIDE DEF q
  <2>4. \A v \in visited : v \in Offsets(reply) /\ Depth(reply)[q] <= Depth(reply)[v]
    BY <1>4, <1>5, <1>10, <2>3, Deeper
  <2> QED
    BY <1>2, <1>12, <2>1, <2>2, <2>4 DEF WalkInv
<1> QED
  BY <1>2, <1>4, <1>12, <1>13, SamePlace

LEMMA EndParse == ASSUME Inv, EndName PROVE ParseInv'
<1>1. SUFFICES ASSUME Told' PROVE (WalkInv /\ CountInv /\ PlaceInv)'
  BY DEF ParseInv, Told
<1>2. /\ pc = "name" /\ Cell(ptr).kind = "zero"
      /\ UNCHANGED <<reply, section, left, records, field, start, dataLen>>
      /\ pc' = "named" \/ Len(output) > NameMax
  BY DEF EndName, parser, Is
<1>3. Told
  BY <1>1, <1>2 DEF Told, WellFormed
<1>4. CountInv /\ PlaceInv /\ WalkInv /\ IsWellFormed(reply) /\ ptr \in Nat
  BY <1>3, Parsing
\* The name is complete, and none of the packet is too long.
<1>5. pc' = "named"
  <2>1. NameAt(reply)[ptr] = <<>>
    BY <1>2, <1>4, AtZero DEF Cell
  <2>2. Joined(output, NameAt(reply)[ptr]) = NameAt(reply)[start]
    BY <1>2, <1>3 DEF Told, Inv, CoreInv, NameInv
  <2>3. output = NameAt(reply)[start]
    BY <2>1, <2>2 DEF Joined, Dot
  <2>4. Len(NameAt(reply)[start]) <= NameMax
    BY <1>2, <1>4 DEF WalkInv, IsWellFormed, NamesSound
  <2>5. Len(output) \in Nat
    <3>1. output \in Seq(Bytes(reply))
      BY <1>2, <1>3 DEF Told, Inv, CoreInv, NameInv
    <3> QED
      BY <3>1, LengthOf
  <2> QED
    BY <1>2, <2>3, <2>4, <2>5, PacketAssumption DEF PacketAssumption
<1>6. WalkInv'
  BY <1>5 DEF WalkInv
<1> QED
  BY <1>2, <1>4, <1>5, <1>6, SamePlace

\* Behind the owner of a record stands its header, and the value lies in the packet.
LEMMA AtHeader ==
    ASSUME IsWellFormed(reply), CountInv, left < reply.counts[section], section # 1
    PROVE  /\ Header \in Nat /\ Header < Size(reply) /\ Cell(Header).kind = "record"
           /\ ptr = Header => RecordVerdict(Cell(Header)) = "none"
           /\ Cell(Header).len \in Nat /\ Header + 1 + Cell(Header).len <= Size(reply)
           /\ Header + 1 + Cell(Header).len = After(reply, Len(records))
           /\ ReadsName(Cell(Header)) <=> HoldsName(Cell(Header))
           /\ HoldsName(Cell(Header)) =>
                 /\ Header + 1 \in 0..Size(reply) - 1
                 /\ Cell(Header + 1).kind \in NameKinds
                 /\ EndOfName(reply)[Header + 1] = Header + 1 + Cell(Header).len
           /\ ~HoldsName(Cell(Header)) /\ Cell(Header).len > 0 =>
                 Cell(Header + 1).kind \in {"low", "high"}
<1> DEFINE k == Len(records)
           r == reply
           e == HeaderOf(r, k)
<1>1. /\ k \in r.counts[1] + 1 .. Declared(r) /\ k \in 1..Declared(r)
      /\ ~(k <= r.counts[1])
      /\ section = 3 => InAuthority(r, k)
  BY Counted
<1>2. RecordSound(r, k) /\ Size(r) \in Nat /\ StartOf(r)[k] \in SizeOfHeader..Size(r) - 1
  BY <1>1 DEF IsWellFormed
<1>3. e \in Nat
  <2>1. StartOf(r)[k] \in Offsets(r)
    BY <1>2 DEF Offsets, SizeOfHeader
  <2> QED
    BY <2>1, EndUnfolds DEF HeaderOf
<1>4. Header = e /\ \A o : Cell(o) = At(r, o)
  BY DEF Header, Cell
<1> HIDE DEF k, r
<1>5. /\ e < Size(r) /\ At(r, e).kind = "record" /\ At(r, e).classOK /\ At(r, e).ttlOK
      /\ At(r, e).len \in 0..Size(r) - (e + 1)
      /\ HoldsName(At(r, e)) => /\ At(r, e + 1).kind \in NameKinds
                                /\ EndOfName(r)[e + 1] = e + 1 + At(r, e).len
      /\ ~HoldsName(At(r, e)) =>
            /\ ~InAuthority(r, k)
            /\ At(r, e).len > 0 => At(r, e + 1).kind \in {"low", "high"}
  BY <1>2 DEF RecordSound
<1> HIDE DEF e
<1>6. At(r, e).len \in Nat /\ e + 1 + At(r, e).len <= Size(r)
  BY <1>2, <1>3, <1>5
<1>7. HoldsName(At(r, e)) => e + 1 \in 0..Size(r) - 1
  <2>1. SUFFICES ASSUME HoldsName(At(r, e)) PROVE e + 1 \in 0..Size(r) - 1
    OBVIOUS
  <2>2. e + 1 \in Nat /\ At(r, e + 1).kind \in NameKinds
    BY <1>3, <1>5, <2>1
  <2> QED
    BY <2>2, Inside DEF r
<1>8. e + 1 + At(r, e).len = After(r, k)
  BY <1>1 DEF After, e
<1>9. ReadsName(At(r, e)) <=> HoldsName(At(r, e))
  <2>1. section \in 1..4
    BY DEF CountInv
  <2>2. Sections[section] = "authority" => section = 3
    BY <2>1 DEF Sections
  <2> QED
    BY <1>1, <1>5, <2>2 DEF ReadsName
<1>10. ptr = e => RecordVerdict(At(r, e)) = "none"
  <2>1. SUFFICES ASSUME ptr = e PROVE RecordVerdict(At(r, e)) = "none"
    OBVIOUS
  <2>2. ~(At(r, e).len > Size(r) - (e + 1))
    BY <1>2, <1>3, <1>6
  <2> QED
    BY <1>5, <2>1, <2>2 DEF RecordVerdict, r
<1> QED
  BY <1>3, <1>4, <1>5, <1>6, <1>7, <1>8, <1>9, <1>10 DEF r, k

\* The owner of a record has been read: ptr is at the header.
LEMMA OwnerRead ==
    ASSUME Inv, Told, pc = "named", field # "rdata"
    PROVE  ptr = Header
<1>1. PlaceInv
  BY Parsing
<1>2. start = StartOf(reply)[Len(records)]
  BY <1>1 DEF PlaceInv
<1>3. ptr = EndOfName(reply)[start]
  BY DEF Inv, CoreInv, NameRead, Told
<1> QED
  BY <1>2, <1>3 DEF Header, HeaderOf

LEMMA AstrayParse == ASSUME Inv, Astray PROVE ParseInv'
<1>1. reply' = reply
  BY DEF Astray
<1>2. SUFFICES ASSUME Told PROVE FALSE
  BY <1>1 DEF ParseInv, Told, WellFormed
<1>3. IsWellFormed(reply) /\ WalkInv /\ CountInv /\ PlaceInv
  BY <1>2, Parsing
<1>4. CASE pc = "name" /\ ~\E k \in {"jump", "length", "zero"} : Is(k)
  BY <1>3, <1>4 DEF WalkInv, Is, NameKinds
<1>5. CASE pc = "named" /\ field = "owner" /\ ~Is("record")
  <2>1. ptr = Header
    BY <1>2, <1>5, OwnerRead
  <2>2. section # 1 /\ left < reply.counts[section]
    BY <1>3, <1>5 DEF PlaceInv, CountInv
  <2> QED
    BY <1>3, <1>5, <2>1, <2>2, AtHeader DEF Is
<1> QED
  BY <1>4, <1>5 DEF Astray

LEMMA SectionParse == ASSUME Inv, NextSection PROVE ParseInv'
<1>1. reply' = reply /\ ptr' = ptr /\ records' = records /\ pc = "next" /\ left = 0
  BY DEF NextSection
<1>2. SUFFICES ASSUME Told' PROVE (WalkInv /\ CountInv /\ PlaceInv)'
  BY DEF ParseInv, Told
<1>3. Told
  BY <1>1, <1>2 DEF Told, WellFormed
<1>4. IsWellFormed(reply) /\ CountInv /\ PlaceInv
  BY <1>3, Parsing
<1>5. section \in 1..4 /\ Len(records) \in Nat
  BY <1>4, Counted
<1>6. CASE section = 4
  <2>1. pc' = "done" /\ verdict' = "parsed" /\ section' = section /\ left' = left
    BY <1>6 DEF NextSection, Sections, Finish
  <2>2. Len(records) = Declared(reply)
    BY <1>1, <1>4, <1>5, <1>6, Counted
  <2>3. UpTo(section)' = UpTo(section)
    BY <1>1, <2>1 DEF UpTo
  <2>4. CountInv'
    BY <1>1, <1>4, <2>1, <2>3 DEF CountInv
  <2>5. PlaceInv'
    BY <1>1, <2>1, <2>2 DEF PlaceInv
  <2> QED
    BY <2>1, <2>4, <2>5 DEF WalkInv
<1>7. CASE section # 4
  <2>1. pc' = "next" /\ section' = section + 1 /\ left' = reply.counts[section + 1]
    BY <1>1, <1>7 DEF NextSection, Sections
  <2>2. section + 1 \in {2, 3, 4} /\ \A s \in 1..4 : reply.counts[s] \in Nat
    BY <1>4, <1>5, <1>7, DeclaredType
  <2>3. left' \in 0..reply.counts[section + 1]
    BY <2>1, <2>2
  <2>4. Len(records) + left' = UpTo(section)'
    <3>1. Len(records) + 0 = UpTo(section)
      BY <1>1, <1>4 DEF CountInv
    <3>2. UpTo(section)' = UpTo(section) + reply.counts[section + 1]
      <4>1. /\ reply.counts[1] \in Nat /\ reply.counts[2] \in Nat
            /\ reply.counts[3] \in Nat /\ reply.counts[4] \in Nat
        BY <2>2
      <4>2. CASE section = 1
        BY <1>1, <2>1, <4>1, <4>2 DEF UpTo
      <4>3. CASE section = 2
        BY <1>1, <2>1, <4>1, <4>3 DEF UpTo
      <4>4. CASE section = 3
        BY <1>1, <2>1, <4>1, <4>4 DEF UpTo, Declared
      <4> QED
        BY <1>5, <1>7, <4>2, <4>3, <4>4
    <3> QED
      BY <1>5, <2>1, <2>2, <3>1, <3>2
  <2>5. CountInv'
    BY <1>1, <1>4, <2>1, <2>2, <2>3, <2>4 DEF CountInv
  <2>6. PlaceInv'
    BY <1>1, <1>4, <2>1 DEF PlaceInv
  <2> QED
    BY <2>1, <2>5, <2>6 DEF WalkInv
<1> QED
  BY <1>6, <1>7

LEMMA RecordParse == ASSUME Inv, NextRecord PROVE ParseInv'
<1>1. reply' = reply /\ section' = section /\ pc = "next" /\ left > 0 /\ left' = left - 1
  BY DEF NextRecord
<1>2. SUFFICES ASSUME Told' PROVE (WalkInv /\ CountInv /\ PlaceInv)'
  BY DEF ParseInv, Told
<1>3. Told
  BY <1>1, <1>2 DEF Told, WellFormed
<1>4. IsWellFormed(reply) /\ CountInv /\ PlaceInv /\ ptr \in Nat
  BY <1>3, Parsing
<1> DEFINE k == Len(records)
<1>5. /\ k \in Nat /\ left \in Nat /\ section \in 1..4 /\ Declared(reply) \in Nat
      /\ k + left <= Declared(reply) /\ reply.counts[section] \in Nat
  BY <1>4, Counted
<1>6. k + 1 \in 1..Declared(reply) /\ k < Declared(reply)
  <2> HIDE DEF k
  <2> QED
    BY <1>1, <1>5
<1>7. ptr = StartOf(reply)[k + 1]
  BY <1>1, <1>4, <1>6 DEF PlaceInv
<1>8. ptr \in SizeOfHeader..Size(reply) - 1 /\ Cell(ptr).kind \in NameKinds
  BY <1>4, <1>6, <1>7 DEF IsWellFormed, Cell
<1>9. Size(reply) \in Nat /\ ~(ptr >= Size(reply))
  BY <1>4, <1>8 DEF IsWellFormed, SizeOfHeader
<1>10. ~Exhausted
  BY <1>9 DEF Exhausted
<1>11. /\ pc' = "name" /\ start' = ptr /\ ptr' = ptr /\ visited' = {}
       /\ field' = (IF Sections[section] = "questions" THEN "question" ELSE "owner")
       /\ records' = Append(records, ptr)
  BY <1>10 DEF NextRecord, BeginName
<1>12. Sections[section] = "questions" <=> section = 1
  BY <1>5 DEF Sections
<1>13. /\ records' \in Seq(Nat) /\ Len(records') = k + 1 /\ records'[k + 1] = ptr
       /\ \A n \in 1..k : records'[n] = records[n]
  <2>1. records \in Seq(Nat)
    BY <1>4 DEF CountInv
  <2> QED
    BY <1>4, <1>11, <2>1
<1>14. WalkInv'
  BY <1>1, <1>8, <1>11 DEF WalkInv, Cell, SizeOfHeader
<1>15. CountInv'
  <2>1. UpTo(section)' = UpTo(section) /\ k + left = UpTo(section)
    BY <1>1, <1>4 DEF UpTo, CountInv
  <2>2. left' \in 0..reply.counts[section] /\ left' < reply.counts[section]
    BY <1>1, <1>4, <1>5 DEF CountInv
  <2>3. (k + 1) + left' = UpTo(section)
    <3> HIDE DEF k
    <3> QED
      BY <1>1, <1>5, <2>1
  <2>4. \A n \in 1..k + 1 : records'[n] = StartOf(reply)[n]
    <3>1. \A n \in 1..k : records'[n] = StartOf(reply)[n]
      BY <1>4, <1>13 DEF CountInv
    <3>2. records'[k + 1] = StartOf(reply)[k + 1]
      BY <1>7, <1>13
    <3> HIDE DEF k
    <3> QED
      BY <1>5, <3>1, <3>2
  <2> HIDE DEF k
  <2> QED
    BY <1>1, <1>5, <1>13, <2>1, <2>2, <2>3, <2>4 DEF CountInv
<1>16. PlaceInv'
  <2>1. start' = StartOf(reply')[Len(records')]
    BY <1>1, <1>7, <1>11, <1>13
  <2> QED
    BY <1>1, <1>11, <1>12, <2>1 DEF PlaceInv
<1> QED
  BY <1>14, <1>15, <1>16

\* A record is done: what follows it is the start of the next.
LEMMA RecordDone ==
    ASSUME IsWellFormed(reply), CountInv, left < reply.counts[section],
           pc' = "next", ptr' = After(reply, Len(records)),
           UNCHANGED <<reply, section, left, records>>
    PROVE  WalkInv' /\ CountInv' /\ PlaceInv'
<1>1. UpTo(section)' = UpTo(section)
  BY DEF UpTo
<1>2. CountInv'
  BY <1>1 DEF CountInv
<1>3. Len(records) \in 1..Declared(reply)
  BY Counted
<1>4. ptr' = StartOf(reply)[Len(records) + 1]
  BY <1>3, StartUnfolds
<1>5. PlaceInv'
  BY <1>4 DEF PlaceInv
<1> QED
  BY <1>2, <1>5 DEF WalkInv

LEMMA QuestionParse == ASSUME Inv, EndQuestion PROVE ParseInv'
<1>1. /\ UNCHANGED <<reply, section, left, records>> /\ pc = "named" /\ field = "question"
      /\ pc' = "next" /\ ptr' = ptr + 1
  BY DEF EndQuestion, parser
<1>2. SUFFICES ASSUME Told' PROVE (WalkInv /\ CountInv /\ PlaceInv)'
  BY DEF ParseInv, Told
<1>3. Told
  BY <1>1, <1>2 DEF Told, WellFormed
<1>4. IsWellFormed(reply) /\ CountInv /\ PlaceInv
  BY <1>3, Parsing
<1>5. section = 1 /\ left < reply.counts[section]
  BY <1>1, <1>4 DEF PlaceInv, CountInv
<1>6. Len(records) <= reply.counts[1]
  BY <1>4, <1>5, Counted
<1>7. ptr' = After(reply, Len(records))
  BY <1>1, <1>3, <1>6, OwnerRead DEF After, Header
<1> QED
  BY <1>1, <1>4, <1>5, <1>7, RecordDone

LEMMA HeaderParse == ASSUME Inv, ReadHeader PROVE ParseInv'
<1>1. /\ UNCHANGED <<reply, section, left, records>> /\ pc = "named" /\ field = "owner"
  BY DEF ReadHeader
<1>2. SUFFICES ASSUME Told' PROVE (WalkInv /\ CountInv /\ PlaceInv)'
  BY DEF ParseInv, Told
<1>3. Told
  BY <1>1, <1>2 DEF Told, WellFormed
<1>4. IsWellFormed(reply) /\ CountInv /\ PlaceInv
  BY <1>3, Parsing
<1>5. section # 1 /\ left < reply.counts[section]
  BY <1>1, <1>4 DEF PlaceInv, CountInv
<1>6. ptr = Header
  BY <1>1, <1>3, OwnerRead
<1> DEFINE h == Cell(Header)
<1>7. /\ Header \in Nat /\ Header < Size(reply) /\ RecordVerdict(h) = "none"
      /\ ReadsName(h) <=> HoldsName(h)
      /\ HoldsName(h) => /\ Header + 1 \in 0..Size(reply) - 1
                         /\ Cell(Header + 1).kind \in NameKinds
  BY <1>4, <1>5, <1>6, AtHeader
<1>8. Size(reply) \in Nat /\ ~(ptr >= Size(reply))
  BY <1>4, <1>6, <1>7 DEF IsWellFormed
<1>9. /\ dataLen' = h.len
      /\ HoldsName(h) => BeginName(ptr + 1, "rdata")
      /\ ~HoldsName(h) => pc' = "skip" /\ ptr' = ptr + 1
  BY <1>6, <1>7, <1>8 DEF ReadHeader
<1>10. UpTo(section)' = UpTo(section) /\ Header' = Header /\ Cell(Header)' = h
  BY <1>1 DEF UpTo, Header, Cell
<1>11. CountInv'
  BY <1>1, <1>4, <1>5, <1>10 DEF CountInv
<1>12. CASE HoldsName(h)
  <2>1. /\ pc' = "name" /\ field' = "rdata" /\ start' = Header + 1 /\ ptr' = Header + 1
        /\ visited' = {}
    BY <1>6, <1>9, <1>12 DEF BeginName
  <2>2. WalkInv'
    <3>1. Cell(ptr)' = Cell(Header + 1)
      BY <1>1, <2>1 DEF Cell
    <3> QED
      BY <1>1, <1>7, <1>12, <2>1, <3>1 DEF WalkInv
  <2>3. PlaceInv'
    BY <1>1, <1>5, <1>9, <1>10, <1>12, <2>1 DEF PlaceInv
  <2> QED
    BY <1>11, <2>2, <2>3
<1>13. CASE ~HoldsName(h)
  <2>1. pc' = "skip" /\ ptr' = Header + 1
    BY <1>6, <1>9, <1>13
  <2>2. PlaceInv'
    BY <1>1, <1>5, <1>9, <1>10, <1>13, <2>1 DEF PlaceInv
  <2> QED
    BY <1>11, <2>1, <2>2 DEF WalkInv
<1> QED
  BY <1>12, <1>13

LEMMA SkipParse == ASSUME Inv, SkipData PROVE ParseInv'
<1>1. /\ UNCHANGED <<reply, section, left, records>> /\ pc' = "next" /\ ptr' \in SkipTo
      /\ pc = "skip" \/ (pc = "named" /\ field = "rdata")
  BY DEF SkipData, parser
<1>2. SUFFICES ASSUME Told' PROVE (WalkInv /\ CountInv /\ PlaceInv)'
  BY DEF ParseInv, Told
<1>3. Told
  BY <1>1, <1>2 DEF Told, WellFormed
<1>4. IsWellFormed(reply) /\ CountInv /\ PlaceInv
  BY <1>3, Parsing
<1>5. section # 1 /\ left < reply.counts[section]
  BY <1>1, <1>4 DEF PlaceInv, CountInv
<1> DEFINE h == Cell(Header)
           k == Len(records)
<1>6. /\ Header \in Nat /\ h.len \in Nat /\ Header + 1 + h.len <= Size(reply)
      /\ Header + 1 + h.len = After(reply, k)
      /\ HoldsName(h) => EndOfName(reply)[Header + 1] = Header + 1 + h.len
      /\ ~HoldsName(h) /\ h.len > 0 => Cell(Header + 1).kind \in {"low", "high"}
  BY <1>4, <1>5, AtHeader
<1>7. Size(reply) \in Nat /\ dataLen = h.len
  BY <1>1, <1>4 DEF IsWellFormed, PlaceInv
<1>8. k \in 1..Declared(reply) /\ Declared(reply) \in Nat /\ reply.counts[1] < k
      /\ reply.counts[1] \in Nat
  BY <1>4, <1>5, Counted
<1>9. /\ HoldsName(h) => (k < Declared(reply) => At(reply, StartOf(reply)[k + 1]).kind = "jump")
      /\ ~HoldsName(h) => Cell(Header + 1).kind # "high"
  <2>1. k \in reply.counts[1] + 1 .. Declared(reply)
    BY <1>8
  <2> QED
    BY <1>3, <2>1 DEF Told, Regular, Header, Cell
<1>10. CASE ~HoldsName(h)
  <2>1. ptr = Header + 1
    BY <1>1, <1>4, <1>10 DEF PlaceInv
  <2>2. ptr' = Header + 1 + h.len
    <3>1. CASE h.len = 0
      BY <1>1, <1>6, <1>7, <2>1, <3>1 DEF SkipTo
    <3>2. CASE h.len # 0
      <4>1. h.len > 0 /\ ~(ptr >= Size(reply))
        BY <1>6, <1>7, <2>1, <3>2
      <4>2. ~Is("jump") /\ ~Is("high")
        BY <1>6, <1>9, <1>10, <2>1, <4>1 DEF Is
      <4> QED
        BY <1>1, <1>7, <2>1, <4>1, <4>2 DEF SkipTo
    <3> QED
      BY <3>1, <3>2
  <2>3. ptr' = After(reply, Len(records))
    BY <1>6, <2>2
  <2> QED
    BY <1>1, <1>4, <1>5, <2>3, RecordDone
<1>11. CASE HoldsName(h)
  <2>1. pc = "named" /\ start = Header + 1
    BY <1>1, <1>4, <1>11 DEF PlaceInv
  <2>2. ptr = EndOfName(reply)[start]
    BY <1>3, <2>1 DEF Inv, CoreInv, NameRead, Told
  <2>3. ptr = After(reply, k)
    BY <1>6, <1>11, <2>1, <2>2
  <2>4. CASE k < Declared(reply)
    <3>1. ptr = StartOf(reply)[k + 1]
      BY <1>4, <1>8, <2>3, StartUnfolds
    <3>2. k + 1 \in 1..Declared(reply)
      <4> HIDE DEF k
      <4> QED
        BY <1>8, <2>4
    <3>3. ptr \in SizeOfHeader..Size(reply) - 1
      BY <1>4, <3>1, <3>2 DEF IsWellFormed
    <3>4. ~(ptr >= Size(reply)) /\ Is("jump")
      BY <1>7, <1>9, <1>11, <2>4, <3>1, <3>3 DEF Is, Cell, SizeOfHeader
    <3>5. ptr' = ptr
      BY <1>1, <3>4 DEF SkipTo
    <3>6. ptr' = After(reply, Len(records))
      BY <2>3, <3>5
    <3> QED
      BY <1>1, <1>4, <1>5, <3>6, RecordDone
  <2>5. CASE ~(k < Declared(reply))
    <3>1. UpTo(section)' = UpTo(section)
      BY <1>1 DEF UpTo
    <3>2. CountInv'
      BY <1>1, <1>4, <3>1 DEF CountInv
    <3>3. PlaceInv'
      BY <1>1, <2>5 DEF PlaceInv
    <3> QED
      BY <1>1, <3>2, <3>3 DEF WalkInv
  <2> QED
    BY <2>4, <2>5
<1> QED
  BY <1>10, <1>11

LEMMA StutterParse == ASSUME Inv, UNCHANGED vars PROVE ParseInv'
<1>1. SUFFICES ASSUME Told' PROVE (WalkInv /\ CountInv /\ PlaceInv)'
  BY DEF ParseInv, Told
<1>2. /\ UNCHANGED <<pc, reply, ptr, section, left, field, start, visited>>
      /\ UNCHANGED <<dataLen, records, verdict>>
  BY DEF vars
<1>3. Told
  BY <1>1, <1>2 DEF Told, WellFormed
<1>4. WalkInv /\ CountInv /\ PlaceInv
  BY <1>3, Parsing
<1>5. WalkInv'
  BY <1>2, <1>4 DEF WalkInv, Cell
<1>6. CountInv'
  <2>1. UpTo(section)' = UpTo(section)
    BY <1>2 DEF UpTo
  <2> QED
    BY <1>2, <1>4, <2>1 DEF CountInv
<1>7. PlaceInv'
  <2>1. Header' = Header /\ Cell(Header)' = Cell(Header)
    BY <1>2 DEF Header, Cell
  <2> QED
    BY <1>2, <1>4, <2>1 DEF PlaceInv
<1> QED
  BY <1>5, <1>6, <1>7

LEMMA NextInv == Inv /\ [Next]_vars => Inv'
<1>1. SUFFICES ASSUME Inv, Next \/ UNCHANGED vars PROVE ParseInv'
  BY NextCore DEF Inv
<1>2. CASE sendDNSQuery
  <2>1. CASE Receive
    BY <1>1, <2>1, ReceiveParse
  <2>2. CASE SendQuery \/ SelectTimeout \/ SelectError \/ ReceiveError
    BY <1>1, <2>2, WaitCore DEF Inv, ParseInv
  <2> QED
    BY <1>2, <2>1, <2>2 DEF sendDNSQuery
<1>3. CASE readDNSName
  BY <1>1, <1>3, JumpParse, LabelParse, EndParse, AstrayParse DEF readDNSName
<1>4. CASE parseDNSResponse
  BY <1>1, <1>4, SectionParse, RecordParse, QuestionParse, HeaderParse, SkipParse
     DEF parseDNSResponse
<1>5. CASE UNCHANGED vars
  BY <1>1, <1>5, StutterParse
<1> QED
  BY <1>1, <1>2, <1>3, <1>4, <1>5 DEF Next, Done

LEMMA Invariance == Spec => []Inv
<1>1. Init => Inv
  BY InitCore, InitParse DEF Inv
<1>2. Inv /\ [Next]_vars => Inv'
  BY NextInv
<1> QED
  BY <1>1, <1>2, PTL DEF Spec

\* Every question and record of a well-formed, regular reply is read where it starts, and
\* the parser reaches the end of the last section: no test of parseDNSResponse() or
\* readDNSName() rejects such a reply.
THEOREM SectionsAreRead == Spec => []SectionsRead
<1>1. Inv => SectionsRead
  <2>1. SUFFICES ASSUME Inv, Told PROVE CountInv /\ PlaceInv
    BY DEF Told, SectionsRead, CountInv, PlaceInv
  <2> QED
    BY <2>1, Parsing
<1> QED
  BY <1>1, Invariance, PTL

------------------------------------------------------------------------------
(* Loops, in any packet, well-formed or not.                                  *)

\* Whoever reads a name at o comes to p: every set of offsets that holds o, and with
\* each offset the one where the name goes on, holds p.
Closed(S) == \A o \in S : GoesOn(reply, o) => Onward(reply, o) \in S
LeadsTo(o, p) == \A S : o \in S /\ Closed(S) => p \in S

\* Whoever follows the jump at p comes back to it.
InCircle(p) == At(reply, p).kind = "jump" /\ LeadsTo(At(reply, p).to, p)

LoopReal == pc = "done" /\ verdict = "jump loop" => \E p : InCircle(p)

\* What is read comes behind every target of a jump that was followed.
VisitedInv == pc = "name" => \A o \in visited : LeadsTo(o, ptr)

\* What is read comes from a packet, so that a length that passes the tests is that of
\* the byte.
RawInv == IsPacket(reply) /\ ptr \in Nat /\ orig_ptr \in Nat /\ dataLen \in Nat

LoopInv == RawInv /\ VisitedInv /\ LoopReal

LEMMA LeadsOn ==
    ASSUME NEW o, NEW p, LeadsTo(o, p), GoesOn(reply, p)
    PROVE  LeadsTo(o, Onward(reply, p))
BY DEF LeadsTo, Closed

LEMMA SameReply ==
    ASSUME UNCHANGED reply, NEW o, NEW p, LeadsTo(o, p)
    PROVE  LeadsTo(o, p)'
BY DEF LeadsTo, Closed

LEMMA InPacket ==
    ASSUME RawInv, Is("length") \/ Is("jump") \/ Is("record")
    PROVE  ptr \in 0..Size(reply) - 1
BY DEF RawInv, IsPacket, Is, Cell, At

\* A negative length passes the other tests, but is not copied.
LEMMA SignedCopy ==
    ASSUME RawInv, CopyLabel, pc' # "done"
    PROVE  /\ label_length(Cell(ptr).n) = Cell(ptr).n /\ Cell(ptr).n \in Nat
           /\ ptr' = ptr + 1 + Cell(ptr).n
<1> DEFINE m == Cell(ptr).n
           n == label_length(m)
<1>1. Is("length")
  BY DEF CopyLabel
<1>2. m \in 1..2 * SignBit - 1
  BY <1>1, InPacket DEF RawInv, IsPacket, Is, Cell
<1>3. m \in Nat /\ m < 2 * SignBit /\ SignBit \in Nat
  BY <1>2, PacketAssumption DEF PacketAssumption
<1>4. LabelVerdict(n) = "none" /\ ptr' = ptr + 1 + n
  BY DEF CopyLabel, Finish
<1> HIDE DEF m
<1>5. n \in Int
  BY <1>3 DEF label_length
<1>6. ~(n < 0)
  <2> HIDE DEF n
  <2> QED
    BY <1>4 DEF LabelVerdict
<1>7. n = m
  BY <1>3, <1>6 DEF label_length
<1> QED
  BY <1>3, <1>4, <1>7 DEF m

LEMMA JumpLoop == ASSUME LoopInv, RawInv', FollowJump PROVE LoopInv'
<1>1. pc = "name" /\ At(reply, ptr).kind = "jump" /\ UNCHANGED reply
  BY DEF FollowJump, Is, Cell
<1>2. PICK o : o = At(reply, ptr).to
  OBVIOUS
<1>3. GoesOn(reply, ptr) /\ Onward(reply, ptr) = o
  BY <1>1, <1>2 DEF GoesOn, Onward
<1>4. \A v \in visited : LeadsTo(v, o)
  BY <1>1, <1>3, LeadsOn DEF LoopInv, VisitedInv
<1>5. CASE JumpVerdict(o) # "none"
  <2>1. pc' = "done" /\ verdict' = JumpVerdict(o) /\ ptr' = ptr
    BY <1>2, <1>5 DEF FollowJump, Finish, Cell
  <2>2. ASSUME verdict' = "jump loop" PROVE \E p : InCircle(p)'
    <3>1. o \in visited
      BY <2>1, <2>2 DEF JumpVerdict
    <3>2. LeadsTo(o, ptr)'
      BY <1>1, <2>1, <3>1, SameReply DEF LoopInv, VisitedInv
    <3>3. InCircle(ptr)'
      BY <1>1, <1>2, <2>1, <3>2 DEF InCircle
    <3> QED
      BY <3>3
  <2> QED
    BY <2>1, <2>2 DEF LoopInv, VisitedInv, LoopReal
<1>6. CASE JumpVerdict(o) = "none"
  <2>1. pc' = "name" /\ ptr' = o /\ visited' = visited \cup {o}
    BY <1>1, <1>2, <1>6 DEF FollowJump, Cell
  <2>2. ASSUME NEW v \in visited' PROVE LeadsTo(v, o)
    BY <1>4, <2>1, <2>2 DEF LeadsTo
  <2>3. VisitedInv'
    BY <1>1, <2>1, <2>2, SameReply DEF VisitedInv
  <2> QED
    BY <2>1, <2>3 DEF LoopInv, LoopReal
<1> QED
  BY <1>5, <1>6

LEMMA LabelLoop == ASSUME LoopInv, RawInv', CopyLabel PROVE LoopInv'
<1>1. /\ pc = "name" /\ At(reply, ptr).kind = "length" /\ UNCHANGED <<reply, visited>>
      /\ \/ pc' = "done" /\ verdict' = LabelVerdict(label_length(At(reply, ptr).n))
         \/ pc' = "name" /\ ptr' = ptr + 1 + At(reply, ptr).n
  BY SignedCopy DEF CopyLabel, Is, Cell, Finish, LoopInv
<1>2. CASE pc' = "done"
  <2>1. verdict' # "jump loop"
    BY <1>1, <1>2 DEF LabelVerdict
  <2> QED
    BY <1>2, <2>1 DEF LoopInv, VisitedInv, LoopReal
<1>3. CASE pc' # "done"
  <2>1. GoesOn(reply, ptr) /\ ptr' = Onward(reply, ptr)
    BY <1>1, <1>3 DEF GoesOn, Onward
  <2>2. \A v \in visited : LeadsTo(v, ptr')
    BY <1>1, <2>1, LeadsOn DEF LoopInv, VisitedInv
  <2>3. VisitedInv'
    BY <1>1, <2>2, SameReply DEF VisitedInv
  <2> QED
    BY <1>3, <2>3 DEF LoopInv, LoopReal
<1> QED
  BY <1>2, <1>3

\* Every jump that is followed and every record that is read stands in the packet.
LEMMA RawStep == RawInv /\ [Next]_vars => RawInv'
<1>1. SUFFICES ASSUME RawInv, Next \/ UNCHANGED vars PROVE RawInv'
  OBVIOUS
<1>2. ptr \in Nat /\ orig_ptr \in Nat /\ dataLen \in Nat /\ IsPacket(reply)
  BY <1>1 DEF RawInv
<1>3. CASE Receive
  BY <1>2, <1>3, ReplyAssumption
     DEF Receive, RawInv, ReplyAssumption, SizeOfHeader, nameVars
<1>4. CASE SendQuery \/ SelectTimeout \/ SelectError \/ ReceiveError
  BY <1>1, <1>4 DEF SendQuery, SelectTimeout, SelectError, ReceiveError, parser, nameVars,
     RawInv
<1>5. CASE FollowJump
  <2>1. Is("jump") /\ Cell(ptr).to \in Nat
    BY <1>1, <1>5, InPacket DEF FollowJump, RawInv, IsPacket, Is, Cell
  <2>2. reply' = reply /\ dataLen' = dataLen
    BY <1>5 DEF FollowJump, parser
  <2>3. ptr' \in Nat /\ orig_ptr' \in Nat
    BY <1>2, <1>5, <2>1 DEF FollowJump, savedPtr, nameVars
  <2> QED
    BY <1>2, <2>2, <2>3 DEF RawInv
<1>6. CASE CopyLabel
  <2>1. reply' = reply /\ dataLen' = dataLen /\ orig_ptr' = orig_ptr
    BY <1>6 DEF CopyLabel, parser
  <2>2. CASE pc' = "done"
    <3>1. ptr' = ptr
      BY <1>6, <2>2 DEF CopyLabel
    <3> QED
      BY <1>2, <2>1, <3>1 DEF RawInv
  <2>3. CASE pc' # "done"
    BY <1>1, <1>2, <1>6, <2>1, <2>3, SignedCopy DEF RawInv
  <2> QED
    BY <2>2, <2>3
<1>7. CASE EndName \/ Astray
  <2>1. UNCHANGED <<reply, dataLen, orig_ptr>> /\ ptr' \in {ptr, ptr + 1, orig_ptr}
    BY <1>7 DEF EndName, Astray, parser, nameVars
  <2> QED
    BY <1>2, <2>1 DEF RawInv
<1>8. CASE NextSection \/ EndQuestion
  BY <1>2, <1>8 DEF NextSection, EndQuestion, parser, nameVars, RawInv
<1>9. CASE NextRecord
  BY <1>2, <1>9 DEF NextRecord, BeginName, nameVars, RawInv
<1>10. CASE ReadHeader
  <2>1. reply' = reply
    BY <1>10 DEF ReadHeader
  <2>2. CASE UNCHANGED <<ptr, orig_ptr, dataLen>>
    BY <1>2, <2>1, <2>2 DEF RawInv
  <2>3. CASE Is("record") /\ dataLen' = Cell(ptr).len
    <3>1. Cell(ptr).len \in Nat
      BY <1>1, <2>3, InPacket DEF RawInv, IsPacket, Is, Cell
    <3>2. /\ ptr' \in {ptr, ptr + 1}
          /\ orig_ptr' = orig_ptr \/ orig_ptr' = ptr + 1
      <4>1. CASE UNCHANGED <<ptr, nameVars>>
        BY <4>1 DEF nameVars
      <4>2. CASE BeginName(ptr + 1, "rdata")
        BY <4>2 DEF BeginName
      <4>3. CASE ptr' = ptr + 1 /\ UNCHANGED nameVars
        BY <4>3 DEF nameVars
      <4> QED
        BY <1>10, <4>1, <4>2, <4>3 DEF ReadHeader
    <3> QED
      BY <1>2, <2>1, <2>3, <3>1, <3>2 DEF RawInv
  <2> QED
    BY <1>10, <2>2, <2>3 DEF ReadHeader, nameVars
<1>11. CASE SkipData
  <2>1. ptr' \in {ptr, ptr + dataLen}
    BY <1>11 DEF SkipData, SkipTo
  <2> QED
    BY <1>2, <1>11, <2>1 DEF SkipData, parser, nameVars, RawInv
<1>12. CASE UNCHANGED vars
  BY <1>1, <1>12 DEF vars, RawInv
<1> QED
  BY <1>1, <1>3, <1>4, <1>5, <1>6, <1>7, <1>8, <1>9, <1>10, <1>11, <1>12
     DEF Next, Done, sendDNSQuery, readDNSName, parseDNSResponse

LEMMA LoopInvStep == LoopInv /\ [Next]_vars => LoopInv'
<1>1. SUFFICES ASSUME LoopInv, RawInv', Next \/ UNCHANGED vars PROVE LoopInv'
  BY RawStep DEF LoopInv
<1>2. CASE UNCHANGED vars
  <2>1. UNCHANGED <<pc, verdict, visited, ptr, reply>>
    BY <1>2 DEF vars
  <2>2. VisitedInv'
    BY <1>1, <2>1, SameReply DEF LoopInv, VisitedInv
  <2>3. LoopReal'
    <3>1. SUFFICES ASSUME NEW p, InCircle(p), pc = "done" PROVE InCircle(p)'
      BY <1>1, <2>1 DEF LoopInv, LoopReal
    <3> QED
      BY <2>1, <3>1, SameReply DEF InCircle
  <2> QED
    BY <1>1, <2>2, <2>3 DEF LoopInv
<1>3. CASE pc' = "done" /\ verdict' # "jump loop"
  BY <1>1, <1>3 DEF LoopInv, VisitedInv, LoopReal
<1>4. CASE pc' = "name" /\ visited' = {}
  BY <1>1, <1>4 DEF LoopInv, VisitedInv, LoopReal
<1>5. CASE pc' \notin {"done", "name"}
  BY <1>1, <1>5 DEF LoopInv, VisitedInv, LoopReal
<1>6. CASE sendDNSQuery
  BY <1>3, <1>5, <1>6 DEF sendDNSQuery, SendQuery, SelectTimeout, SelectError,
     ReceiveError, Receive, HeaderVerdict, Finish
<1>7. CASE readDNSName
  <2>1. CASE EndName \/ Astray
    BY <1>3, <1>5, <2>1 DEF EndName, Astray, Finish
  <2> QED
    BY <1>1, <1>7, <2>1, JumpLoop, LabelLoop DEF readDNSName
<1>8. CASE parseDNSResponse
  <2>1. CASE NextSection
    BY <1>3, <1>5, <2>1 DEF NextSection, Finish
  <2>2. CASE NextRecord
    BY <1>3, <1>4, <2>2 DEF NextRecord, BeginName, Finish
  <2>3. CASE EndQuestion
    BY <1>5, <2>3 DEF EndQuestion
  <2>4. CASE ReadHeader
    <3>1. CASE ptr >= Size(reply) /\ Finish("truncated RR header")
      BY <1>3, <3>1 DEF Finish
    <3>2. ASSUME NEW h, Finish(RecordVerdict(h)) PROVE LoopInv'
      BY <1>3, <3>2 DEF Finish, RecordVerdict
    <3>3. ASSUME NEW o, BeginName(o, "rdata") PROVE LoopInv'
      BY <1>4, <3>3 DEF BeginName
    <3>4. CASE pc' = "skip"
      BY <1>5, <3>4
    <3> QED
      BY <2>4, <3>1, <3>2, <3>3, <3>4 DEF ReadHeader
  <2>5. CASE SkipData
    BY <1>5, <2>5 DEF SkipData
  <2> QED
    BY <1>8, <2>1, <2>2, <2>3, <2>4, <2>5 DEF parseDNSResponse
<1> QED
  BY <1>1, <1>2, <1>6, <1>7, <1>8 DEF Next, Done

\* No packet, however malformed, is reported to have a jump loop unless it has one: the
\* parser stands at a jump that leads back to itself.  Names that share a target are not
\* taken for a loop, and neither is a chain of jumps, however long.
THEOREM LoopsAreReal == Spec => []LoopReal
<1>1. Init => LoopInv
  <2>1. SUFFICES ASSUME Init PROVE RawInv
    BY DEF Init, LoopInv, VisitedInv, LoopReal
  <2>2. Size(reply) = 0
    BY <2>1, EmptyLength DEF Init, NoReply, Size
  <2> QED
    BY <2>1, <2>2 DEF Init, RawInv, IsPacket
<1>2. LoopInv => LoopReal
  BY DEF LoopInv
<1> QED
  BY <1>1, <1>2, LoopInvStep, PTL DEF Spec

==============================================================================
