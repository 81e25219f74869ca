---------------------------- MODULE SequenceFacts ---------------------------
(***************************************************************************)
(* Facts about sets of naturals and about logs: sequences that grow at     *)
(* their end, are drained from their head, or are rewritten in place. The  *)
(* proofs about the machines cite them.                                    *)
(***************************************************************************)
EXTENDS LogOps, SequenceTheorems, WellFoundedInduction, TLAPS

\* A set of naturals that is not empty has a least member.
LEMMA LeastNatural ==
    ASSUME NEW T, T \subseteq Nat, T # {}
    PROVE  \E x \in T : \A y \in T : x <= y
<1>1. PICK x \in T : \A y \in T : <<y, x>> \notin OpToRel(<, Nat)
  BY NatLessThanWellFounded, WFMin
<1>2. \A y \in T : ~(y < x)
  BY <1>1 DEF OpToRel
<1>3. \A y \in T : y \in Nat /\ x \in Nat
  OBVIOUS
<1>4. QED
  BY <1>2, <1>3

\* Induction up to a bound, for a set.
LEMMA UpTo ==
    ASSUME NEW N \in Nat, NEW T, 0 \in T, \A n \in 0 .. N - 1 : n \in T => n + 1 \in T
    PROVE  0 .. N \subseteq T
<1> DEFINE Missing == {n \in 0 .. N : n \notin T}
<1>1. SUFFICES ASSUME Missing # {} PROVE FALSE
  OBVIOUS
<1>2. PICK m \in Missing : \A k \in Missing : m <= k
  <2>1. Missing \subseteq Nat
    OBVIOUS
  <2>2. QED
    BY <1>1, <2>1, LeastNatural
<1>3. m \in 0 .. N /\ m \notin T /\ m # 0
  OBVIOUS
<1>4. m - 1 \in 0 .. N - 1 /\ m - 1 + 1 = m
  BY <1>3
<1>5. m - 1 \in T
  <2>1. m - 1 \in 0 .. N /\ ~(m <= m - 1)
    BY <1>3
  <2>2. QED
    BY <1>2, <2>1
<1>6. QED
  BY <1>3, <1>4, <1>5

\* A set of positions that is not empty has a largest member.
LEMMA LargestExists ==
    ASSUME NEW n \in Nat, NEW S, S \subseteq 1 .. n, S # {}
    PROVE  \E m \in S : \A k \in S : k <= m
<1> DEFINE Distances == {n - k : k \in S}
<1>1. Distances \subseteq Nat /\ Distances # {}
  <2>1. \A k \in S : n - k \in Nat
    OBVIOUS
  <2>2. QED
    BY <2>1
<1>2. PICK d \in Distances : \A e \in Distances : d <= e
  BY <1>1, LeastNatural
<1>3. PICK m \in S : d = n - m
  OBVIOUS
<1>4. \A k \in S : n - m <= n - k
  BY <1>2, <1>3
<1>5. QED
  <2> SUFFICES ASSUME NEW k \in S PROVE k <= m
    OBVIOUS
  <2>1. k \in Int /\ m \in Int
    OBVIOUS
  <2>2. n - m <= n - k
    BY <1>4
  <2> HIDE DEF Distances
  <2>3. QED
    BY <2>1, <2>2

\* Numbers that are not none have a largest.
LEMMA LargestValue ==
    ASSUME NEW n \in Nat \ {0}, NEW f, \A i \in 1 .. n : f[i] \in Nat
    PROVE  \E m \in 1 .. n : \A i \in 1 .. n : f[i] <= f[m]
<1> DEFINE Leads(m, k) == m \in 1 .. k /\ \A i \in 1 .. k : f[i] <= f[m]
           Led == {k \in 0 .. n : k = 0 \/ \E m \in 1 .. k : Leads(m, k)}
<1>1. 0 \in Led
  OBVIOUS
<1>2. ASSUME NEW k \in 0 .. n - 1, k \in Led PROVE k + 1 \in Led
  <2>1. k + 1 \in 0 .. n /\ k + 1 \in 1 .. k + 1 /\ k + 1 \in 1 .. n /\ f[k + 1] \in Nat
    OBVIOUS
  <2>2. CASE k = 0
    <3>1. \A i \in 1 .. k + 1 : i = k + 1
      BY <2>2
    <3>2. Leads(k + 1, k + 1)
      BY <2>1, <3>1
    <3>3. QED
      BY <2>1, <3>2
  <2>3. CASE k # 0
    <3>1. PICK m \in 1 .. k : Leads(m, k)
      BY <1>2, <2>3
    <3>2. /\ m \in 1 .. k + 1 /\ f[m] \in Nat
          /\ \A i \in 1 .. k + 1 : (i \in 1 .. k \/ i = k + 1) /\ f[i] \in Nat
      OBVIOUS
    <3>3. CASE f[k + 1] <= f[m]
      <4>1. Leads(m, k + 1)
        BY <3>1, <3>2, <3>3
      <4>2. QED
        BY <2>1, <3>2, <4>1
    <3>4. CASE ~(f[k + 1] <= f[m])
      <4>1. \A i \in 1 .. k : f[i] <= f[k + 1]
        BY <2>1, <3>1, <3>2, <3>4
      <4>2. Leads(k + 1, k + 1)
        BY <2>1, <3>2, <4>1
      <4>3. QED
        BY <2>1, <4>2
    <3>5. QED
      BY <3>3, <3>4
  <2>4. QED
    BY <2>2, <2>3
<1> HIDE DEF Led
<1>3. 0 .. n \subseteq Led
  BY <1>1, <1>2, UpTo
<1>4. QED
  BY <1>3 DEF Led

-----------------------------------------------------------------------------
\* The positions of a sequence.
LEMMA Positions ==
    ASSUME NEW S, NEW s \in Seq(S)
    PROVE  /\ Len(s) \in Nat
           /\ DOMAIN s = 1 .. Len(s)
           /\ \A i \in DOMAIN s : s[i] \in S
BY LenProperties, ElementOfSeq

\* A log that grew by one entry: the entries before it stay where they were.
LEMMA AppendGrows ==
    ASSUME NEW S, NEW s \in Seq(S), NEW x \in S
    PROVE  /\ Append(s, x) \in Seq(S)
           /\ Len(s) \in Nat /\ Len(Append(s, x)) = Len(s) + 1
           /\ DOMAIN s = 1 .. Len(s)
           /\ DOMAIN Append(s, x) = (DOMAIN s) \cup {Len(s) + 1}
           /\ Len(s) + 1 \notin DOMAIN s
           /\ \A i \in DOMAIN s : Append(s, x)[i] = s[i]
           /\ Append(s, x)[Len(s) + 1] = x
<1>1. /\ Append(s, x) \in Seq(S)
      /\ Len(Append(s, x)) = Len(s) + 1
      /\ \A i \in 1 .. Len(s) : Append(s, x)[i] = s[i]
      /\ Append(s, x)[Len(s) + 1] = x
  BY AppendProperties
<1>2. Len(s) \in Nat /\ DOMAIN s = 1 .. Len(s) /\ DOMAIN Append(s, x) = 1 .. (Len(s) + 1)
  BY <1>1, LenProperties
<1>3. 1 .. (Len(s) + 1) = (1 .. Len(s)) \cup {Len(s) + 1} /\ Len(s) + 1 \notin 1 .. Len(s)
  BY <1>2
<1>4. QED
  BY <1>1, <1>2, <1>3

LEMMA AppendHolds ==
    ASSUME NEW S, NEW s \in Seq(S), NEW x \in S
    PROVE  Append(s, x) \in Seq(S) /\ Held(Append(s, x)) = Held(s) \cup {x}
BY AppendGrows DEF Held

\* What is left of a sequence when its head is taken.
LEMMA TailShifts ==
    ASSUME NEW S, NEW s \in Seq(S), s # <<>>
    PROVE  /\ Len(s) \in Nat /\ Len(s) >= 1
           /\ DOMAIN s = 1 .. Len(s)
           /\ Head(s) = s[1] /\ Head(s) \in S
           /\ Tail(s) \in Seq(S)
           /\ Len(Tail(s)) = Len(s) - 1
           /\ DOMAIN Tail(s) = 1 .. (Len(s) - 1)
           /\ \A i \in DOMAIN Tail(s) : i + 1 \in DOMAIN s /\ Tail(s)[i] = s[i + 1]
<1>1. /\ Head(s) = s[1] /\ Head(s) \in S /\ Tail(s) \in Seq(S)
      /\ Len(Tail(s)) = Len(s) - 1
      /\ \A i \in 1 .. Len(Tail(s)) : Tail(s)[i] = s[i + 1]
  BY HeadTailProperties
<1>2. Len(s) \in Nat /\ Len(s) >= 1
  BY EmptySeq, LenProperties
<1>3. DOMAIN s = 1 .. Len(s) /\ DOMAIN Tail(s) = 1 .. (Len(s) - 1)
  BY <1>1, LenProperties
<1>4. \A i \in 1 .. (Len(s) - 1) : i + 1 \in 1 .. Len(s)
  BY <1>2
<1>5. QED
  BY <1>1, <1>2, <1>3, <1>4

\* Its head was the last one, or the second is the next.
LEMMA AfterHead ==
    ASSUME NEW S, NEW s \in Seq(S), s # <<>>
    PROVE  /\ Len(s) = 1 <=> Tail(s) = <<>>
           /\ Tail(s) # <<>> => 2 \in DOMAIN s /\ Tail(s)[1] = s[2]
<1>1. /\ Len(s) \in Nat /\ Len(s) >= 1 /\ DOMAIN s = 1 .. Len(s)
      /\ Tail(s) \in Seq(S) /\ Len(Tail(s)) = Len(s) - 1
      /\ DOMAIN Tail(s) = 1 .. (Len(s) - 1)
      /\ \A i \in DOMAIN Tail(s) : i + 1 \in DOMAIN s /\ Tail(s)[i] = s[i + 1]
  BY TailShifts
<1>2. Len(Tail(s)) = 0 <=> Tail(s) = <<>>
  BY <1>1, EmptySeq
<1>3. Len(s) = 1 <=> Len(Tail(s)) = 0
  BY <1>1
<1>4. Tail(s) # <<>> => 1 \in DOMAIN Tail(s) /\ 1 + 1 = 2
  BY <1>1, <1>2
<1>5. QED
  BY <1>1, <1>2, <1>3, <1>4

LEMMA TailHolds ==
    ASSUME NEW S, NEW s \in Seq(S), s # <<>>
    PROVE  Head(s) \in Held(s) /\ Tail(s) \in Seq(S) /\ Held(Tail(s)) \subseteq Held(s)
<1>1. 1 \in DOMAIN s
  BY TailShifts
<1>2. QED
  BY <1>1, TailShifts DEF Held

\* What a sequence holds is its head and what its tail holds.
LEMMA HeldSplits ==
    ASSUME NEW S, NEW s \in Seq(S), s # <<>>
    PROVE  \A x \in Held(s) : x = Head(s) \/ x \in Held(Tail(s))
<1> SUFFICES ASSUME NEW i \in DOMAIN s
             PROVE  s[i] = Head(s) \/ s[i] \in Held(Tail(s))
  BY DEF Held
<1>1. /\ Len(s) \in Nat /\ DOMAIN s = 1 .. Len(s) /\ Head(s) = s[1]
      /\ DOMAIN Tail(s) = 1 .. (Len(s) - 1)
      /\ \A k \in DOMAIN Tail(s) : k + 1 \in DOMAIN s /\ Tail(s)[k] = s[k + 1]
  BY TailShifts
<1>2. CASE i = 1
  BY <1>1, <1>2
<1>3. CASE i # 1
  <2>1. i - 1 \in DOMAIN Tail(s) /\ i - 1 + 1 = i
    BY <1>1, <1>3
  <2>2. Tail(s)[i - 1] = s[i]
    BY <1>1, <2>1
  <2>3. QED
    BY <2>1, <2>2 DEF Held
<1>4. QED
  BY <1>2, <1>3

\* A log that grew by several entries.
LEMMA ConcatGrows ==
    ASSUME NEW S, NEW s \in Seq(S), NEW t \in Seq(S)
    PROVE  /\ s \o t \in Seq(S)
           /\ Len(s) \in Nat /\ Len(t) \in Nat /\ Len(s \o t) = Len(s) + Len(t)
           /\ DOMAIN s = 1 .. Len(s) /\ DOMAIN t = 1 .. Len(t) /\ DOMAIN (s \o t) = 1 .. Len(s) + Len(t)
           /\ \A i \in DOMAIN s : i \in DOMAIN (s \o t) /\ (s \o t)[i] = s[i]
           /\ \A i \in DOMAIN t : Len(s) + i \in DOMAIN (s \o t) /\ (s \o t)[Len(s) + i] = t[i]
           /\ \A i \in DOMAIN (s \o t) :
                 \/ i \in DOMAIN s /\ (s \o t)[i] = s[i]
                 \/ i > Len(s) /\ i - Len(s) \in DOMAIN t /\ (s \o t)[i] = t[i - Len(s)]
<1>1. /\ s \o t \in Seq(S) /\ Len(s \o t) = Len(s) + Len(t)
      /\ \A i \in 1 .. Len(s) + Len(t) : (s \o t)[i] = IF i <= Len(s) THEN s[i] ELSE t[i - Len(s)]
  BY ConcatProperties
<1>2. /\ Len(s) \in Nat /\ Len(t) \in Nat
      /\ DOMAIN s = 1 .. Len(s) /\ DOMAIN t = 1 .. Len(t) /\ DOMAIN (s \o t) = 1 .. Len(s) + Len(t)
  BY <1>1, LenProperties
<1>3. \A i \in 1 .. Len(s) : i \in 1 .. Len(s) + Len(t) /\ i <= Len(s)
  BY <1>2
<1>4. \A i \in 1 .. Len(t) : /\ Len(s) + i \in 1 .. Len(s) + Len(t)
                             /\ ~(Len(s) + i <= Len(s)) /\ Len(s) + i - Len(s) = i
  BY <1>2
<1>5. \A i \in 1 .. Len(s) + Len(t) : ~(i <= Len(s)) => i > Len(s) /\ i - Len(s) \in 1 .. Len(t)
  BY <1>2
<1>6. \A i \in 1 .. Len(s) + Len(t) : i <= Len(s) => i \in 1 .. Len(s)
  BY <1>2
<1>7. QED
  BY <1>1, <1>2, <1>3, <1>4, <1>5, <1>6

\* Rewriting every element in place gives a sequence of the new elements.
LEMMA RewriteHolds ==
    ASSUME NEW S, NEW T, NEW s \in Seq(S), NEW t, DOMAIN t = DOMAIN s,
           t = [i \in DOMAIN s |-> t[i]], \A i \in DOMAIN s : t[i] \in T
    PROVE  t \in Seq(T)
<1>1. DOMAIN s = 1 .. Len(s) /\ Len(s) \in Nat
  BY LenProperties
<1>2. t \in [1 .. Len(s) -> T]
  BY <1>1
<1>3. QED
  BY <1>1, <1>2, IsASeq

\* One element is replaced.
LEMMA ReplaceOne ==
    ASSUME NEW S, NEW s \in Seq(S), NEW i \in DOMAIN s, NEW e \in S
    PROVE  /\ [s EXCEPT ![i] = e] \in Seq(S)
           /\ Len([s EXCEPT ![i] = e]) = Len(s)
           /\ DOMAIN [s EXCEPT ![i] = e] = DOMAIN s
           /\ [s EXCEPT ![i] = e][i] = e
           /\ \A j \in DOMAIN s : j # i => [s EXCEPT ![i] = e][j] = s[j]
BY ExceptSeq, LenProperties

-----------------------------------------------------------------------------
(* Keep, by the function it is computed with: Prefix is what it has come to *)
(* after each entry.                                                        *)

IsPrefixKept(f, s, T, n) ==
    f = [m \in 0 .. n |->
            IF m = 0 THEN <<>>
            ELSE IF s[m] \in T THEN Append(f[m - 1], s[m]) ELSE f[m - 1]]

KeepsWith(f, s, T) ==
    /\ f[0] = <<>>
    /\ \A n \in 0 .. Len(s) - 1 :
          f[n + 1] = IF s[n + 1] \in T THEN Append(f[n], s[n + 1]) ELSE f[n]
    /\ Keep(s, T) = f[Len(s)]

\* the recursion has a solution
LEMMA KeepIsDefined ==
    ASSUME NEW S, NEW s \in Seq(S), NEW T
    PROVE  \E f : KeepsWith(f, s, T)
<1>0. Len(s) \in Nat
  BY Positions
<1> DEFINE Solved == {n \in 0 .. Len(s) : \E f : IsPrefixKept(f, s, T, n)}
<1>1. 0 \in Solved
  <2>1. IsPrefixKept([m \in 0 .. 0 |-> <<>>], s, T, 0)
    BY DEF IsPrefixKept
  <2>2. QED
    BY <1>0, <2>1
<1>2. ASSUME NEW n \in 0 .. Len(s) - 1, n \in Solved PROVE n + 1 \in Solved
  <2>1. PICK f : IsPrefixKept(f, s, T, n)
    BY <1>2
  <2> DEFINE g == [m \in 0 .. n + 1 |->
                      IF m <= n THEN f[m]
                      ELSE IF s[m] \in T THEN Append(f[n], s[m]) ELSE f[n]]
  <2>2. \A m \in 0 .. n + 1 :
           g[m] = IF m = 0 THEN <<>>
                  ELSE IF s[m] \in T THEN Append(g[m - 1], s[m]) ELSE g[m - 1]
    <3> SUFFICES ASSUME NEW m \in 0 .. n + 1
                 PROVE  g[m] = IF m = 0 THEN <<>>
                               ELSE IF s[m] \in T THEN Append(g[m - 1], s[m]) ELSE g[m - 1]
      OBVIOUS
    <3>1. CASE m = n + 1
      <4>1. m # 0 /\ ~(m <= n) /\ m - 1 = n /\ n \in 0 .. n + 1 /\ n <= n
        BY <1>0, <3>1
      <4>2. g[m - 1] = f[n]
        BY <4>1
      <4>3. QED
        BY <4>1, <4>2
    <3>2. CASE m # n + 1
      <4>1. m \in 0 .. n /\ m <= n
        BY <1>0, <3>2
      <4>2. g[m] = f[m]
        BY <4>1
      <4>3. m # 0 => m - 1 \in 0 .. n + 1 /\ m - 1 <= n
        BY <1>0, <4>1
      <4>4. m # 0 => g[m - 1] = f[m - 1]
        BY <4>3
      <4>5. f[m] = IF m = 0 THEN <<>>
                   ELSE IF s[m] \in T THEN Append(f[m - 1], s[m]) ELSE f[m - 1]
        BY <2>1, <4>1 DEF IsPrefixKept
      <4>6. QED
        BY <4>2, <4>4, <4>5
    <3>3. QED
      BY <3>1, <3>2
  <2>3. IsPrefixKept(g, s, T, n + 1)
    <3>1. g = [m \in 0 .. n + 1 |-> g[m]]
      OBVIOUS
    <3> HIDE DEF g
    <3>2. QED
      BY <2>2, <3>1 DEF IsPrefixKept
  <2>4. n + 1 \in 0 .. Len(s)
    BY <1>0
  <2>5. QED
    BY <2>3, <2>4
<1>3. Len(s) \in Solved
  <2> HIDE DEF Solved
  <2>1. 0 .. Len(s) \subseteq Solved
    BY <1>0, <1>1, <1>2, UpTo
  <2>2. QED
    BY <1>0, <2>1
<1> DEFINE k == CHOOSE f : IsPrefixKept(f, s, T, Len(s))
<1>4. IsPrefixKept(k, s, T, Len(s))
  BY <1>3
<1>5. Keep(s, T) = k[Len(s)]
  BY DEF Keep, IsPrefixKept
<1> HIDE DEF k
<1>6. k[0] = <<>>
  BY <1>0, <1>4 DEF IsPrefixKept
<1>7. ASSUME NEW n \in 0 .. Len(s) - 1
      PROVE  k[n + 1] = IF s[n + 1] \in T THEN Append(k[n], s[n + 1]) ELSE k[n]
  <2>1. n + 1 \in 0 .. Len(s) /\ n + 1 # 0 /\ n + 1 - 1 = n
    BY <1>0
  <2> DEFINE m == n + 1
  <2>2. m \in 0 .. Len(s) /\ m # 0 /\ m - 1 = n
    BY <2>1
  <2> HIDE DEF m
  <2>3. k[m] = IF s[m] \in T THEN Append(k[m - 1], s[m]) ELSE k[m - 1]
    BY <1>4, <2>2 DEF IsPrefixKept
  <2>4. k[m] = IF s[m] \in T THEN Append(k[n], s[m]) ELSE k[n]
    BY <2>2, <2>3
  <2>5. QED
    BY <2>4 DEF m
<1>8. KeepsWith(k, s, T)
  BY <1>5, <1>6, <1>7 DEF KeepsWith
<1>9. QED
  BY <1>8

\* it keeps what is in T, and nothing else
LEMMA KeepHolds ==
    ASSUME NEW S, NEW s \in Seq(S), NEW T
    PROVE  Keep(s, T) \in Seq(S) /\ Held(Keep(s, T)) = Held(s) \cap T
<1>0. /\ Len(s) \in Nat /\ DOMAIN s = 1 .. Len(s) /\ \A i \in DOMAIN s : s[i] \in S
  BY Positions
<1>a. PICK f : KeepsWith(f, s, T)
  BY KeepIsDefined
<1>1. /\ f[0] = <<>>
      /\ \A n \in 0 .. Len(s) - 1 :
            f[n + 1] = IF s[n + 1] \in T THEN Append(f[n], s[n + 1]) ELSE f[n]
      /\ Keep(s, T) = f[Len(s)]
  BY <1>a DEF KeepsWith
<1> DEFINE Right == {n \in 0 .. Len(s) :
                       f[n] \in Seq(S) /\ Held(f[n]) = {s[i] : i \in 1 .. n} \cap T}
<1>2. 0 \in Right
  <2>1. f[0] = <<>>
    BY <1>1
  <2>2. <<>> \in Seq(S) /\ Held(<<>>) = {}
    BY EmptySeq DEF Held
  <2>3. {s[i] : i \in 1 .. 0} = {}
    OBVIOUS
  <2>4. f[0] \in Seq(S) /\ Held(f[0]) = {s[i] : i \in 1 .. 0} \cap T
    BY <2>1, <2>2, <2>3
  <2>5. QED
    BY <1>0, <2>4
<1>3. ASSUME NEW n \in 0 .. Len(s) - 1, n \in Right PROVE n + 1 \in Right
  <2>1. /\ n + 1 \in 0 .. Len(s) /\ n + 1 \in DOMAIN s /\ n + 1 # 0 /\ n + 1 - 1 = n
        /\ 1 .. n + 1 = (1 .. n) \cup {n + 1}
    BY <1>0
  <2>2. f[n + 1] = IF s[n + 1] \in T THEN Append(f[n], s[n + 1]) ELSE f[n]
    BY <1>1
  <2>3. f[n] \in Seq(S) /\ Held(f[n]) = {s[i] : i \in 1 .. n} \cap T /\ s[n + 1] \in S
    BY <1>0, <1>3, <2>1
  <2>4. {s[i] : i \in 1 .. n + 1} = {s[i] : i \in 1 .. n} \cup {s[n + 1]}
    BY <2>1
  <2>5. CASE s[n + 1] \in T
    <3>1. f[n + 1] \in Seq(S) /\ Held(f[n + 1]) = Held(f[n]) \cup {s[n + 1]}
      BY <2>2, <2>3, <2>5, AppendHolds
    <3>2. QED
      BY <2>1, <2>3, <2>4, <2>5, <3>1
  <2>6. CASE s[n + 1] \notin T
    BY <2>1, <2>2, <2>3, <2>4, <2>6
  <2>7. QED
    BY <2>5, <2>6
<1>4. Len(s) \in Right
  <2> HIDE DEF Right
  <2>1. 0 .. Len(s) \subseteq Right
    BY <1>0, <1>2, <1>3, UpTo
  <2>2. QED
    BY <1>0, <2>1
<1>5. Held(s) = {s[i] : i \in 1 .. Len(s)}
  BY <1>0 DEF Held
<1>6. QED
  BY <1>1, <1>4, <1>5

Ascending(s) == \A i, j \in DOMAIN s : i < j => s[i] < s[j]

\* it keeps the order of numbers
LEMMA KeepAscends ==
    ASSUME NEW s \in Seq(Int), NEW T, Ascending(s)
    PROVE  Ascending(Keep(s, T))
<1>0. /\ Len(s) \in Nat /\ DOMAIN s = 1 .. Len(s) /\ \A i \in DOMAIN s : s[i] \in Int
  BY Positions
<1>a. PICK f : KeepsWith(f, s, T)
  BY KeepIsDefined
<1>1. /\ f[0] = <<>>
      /\ \A n \in 0 .. Len(s) - 1 :
            f[n + 1] = IF s[n + 1] \in T THEN Append(f[n], s[n + 1]) ELSE f[n]
      /\ Keep(s, T) = f[Len(s)]
  BY <1>a DEF KeepsWith
<1> DEFINE Right == {n \in 0 .. Len(s) :
                       /\ f[n] \in Seq(Int) /\ Ascending(f[n])
                       /\ \A i \in DOMAIN f[n] : \E j \in 1 .. n : f[n][i] = s[j]}
<1>2. 0 \in Right
  <2>1. f[0] = <<>>
    BY <1>1
  <2>2. <<>> \in Seq(Int) /\ Ascending(<<>>) /\ DOMAIN <<>> = {}
    BY EmptySeq DEF Ascending
  <2>3. /\ f[0] \in Seq(Int) /\ Ascending(f[0])
        /\ \A i \in DOMAIN f[0] : \E j \in 1 .. 0 : f[0][i] = s[j]
    BY <2>1, <2>2
  <2>4. QED
    BY <1>0, <2>3
<1>3. ASSUME NEW n \in 0 .. Len(s) - 1, n \in Right PROVE n + 1 \in Right
  <2>1. n + 1 \in 0 .. Len(s) /\ n + 1 \in DOMAIN s /\ n + 1 # 0 /\ n + 1 - 1 = n
    BY <1>0
  <2>2. f[n + 1] = IF s[n + 1] \in T THEN Append(f[n], s[n + 1]) ELSE f[n]
    BY <1>1
  <2>3. /\ f[n] \in Seq(Int) /\ Ascending(f[n]) /\ s[n + 1] \in Int
        /\ \A i \in DOMAIN f[n] : \E j \in 1 .. n : f[n][i] = s[j]
    BY <1>0, <1>3, <2>1
  <2>4. CASE s[n + 1] \in T
    <3>0. f[n + 1] = Append(f[n], s[n + 1])
      BY <2>2, <2>4
    <3>1. /\ f[n + 1] \in Seq(Int)
          /\ Len(f[n]) \in Nat /\ DOMAIN f[n] = 1 .. Len(f[n])
          /\ DOMAIN f[n + 1] = (DOMAIN f[n]) \cup {Len(f[n]) + 1}
          /\ \A i \in DOMAIN f[n] : f[n + 1][i] = f[n][i]
          /\ f[n + 1][Len(f[n]) + 1] = s[n + 1]
      BY SMTT(30), <2>3, <3>0, AppendGrows
    <3>2. \A i \in DOMAIN f[n] : f[n][i] < s[n + 1]
      <4> SUFFICES ASSUME NEW i \in DOMAIN f[n] PROVE f[n][i] < s[n + 1]
        OBVIOUS
      <4>1. PICK j \in 1 .. n : f[n][i] = s[j]
        BY <2>3
      <4>2. j \in DOMAIN s /\ j < n + 1
        BY <1>0, <2>1
      <4>3. QED
        BY <2>1, <4>1, <4>2 DEF Ascending
    <3>3. ASSUME NEW i \in DOMAIN f[n + 1], NEW j \in DOMAIN f[n + 1], i < j
          PROVE  f[n + 1][i] < f[n + 1][j]
      <4>1. i \in DOMAIN f[n]
        BY <3>1, <3>3
      <4>2. CASE j \in DOMAIN f[n]
        BY <2>3, <3>1, <3>3, <4>1, <4>2 DEF Ascending
      <4>3. CASE j = Len(f[n]) + 1
        BY <3>1, <3>2, <4>1, <4>3
      <4>4. QED
        BY <3>1, <4>2, <4>3
    <3>4. ASSUME NEW i \in DOMAIN f[n + 1]
          PROVE  \E j \in 1 .. n + 1 : f[n + 1][i] = s[j]
      <4>1. CASE i \in DOMAIN f[n]
        <5>1. PICK j \in 1 .. n : f[n][i] = s[j]
          BY <2>3, <4>1
        <5>2. j \in 1 .. n + 1
          BY <2>1
        <5>3. f[n + 1][i] = s[j]
          BY <3>1, <4>1, <5>1
        <5>4. QED
          BY <5>2, <5>3
      <4>2. CASE i = Len(f[n]) + 1
        <5>1. n + 1 \in 1 .. n + 1
          BY <2>1
        <5>2. f[n + 1][i] = s[n + 1]
          BY <3>1, <4>2
        <5>3. QED
          BY <5>1, <5>2
      <4>3. QED
        BY <3>1, <4>1, <4>2
    <3>5. Ascending(f[n + 1])
      BY <3>3 DEF Ascending
    <3>6. QED
      BY <2>1, <3>1, <3>4, <3>5
  <2>5. CASE s[n + 1] \notin T
    BY SMTT(30), <1>0, <2>1, <2>2, <2>3, <2>5
  <2>6. QED
    BY <2>4, <2>5
<1>4. Len(s) \in Right
  <2> HIDE DEF Right
  <2>1. 0 .. Len(s) \subseteq Right
    BY <1>0, <1>2, <1>3, UpTo
  <2>2. QED
    BY <1>0, <2>1
<1>5. QED
  BY <1>1, <1>4

\* when everything is in T, it is the sequence
LEMMA KeepEverything ==
    ASSUME NEW S, NEW s \in Seq(S), NEW T, \A i \in DOMAIN s : s[i] \in T
    PROVE  Keep(s, T) = s
<1>0. /\ Len(s) \in Nat /\ DOMAIN s = 1 .. Len(s) /\ \A i \in DOMAIN s : s[i] \in S
  BY Positions
<1>a. PICK f : KeepsWith(f, s, T)
  BY KeepIsDefined
<1>1. /\ f[0] = <<>>
      /\ \A n \in 0 .. Len(s) - 1 :
            f[n + 1] = IF s[n + 1] \in T THEN Append(f[n], s[n + 1]) ELSE f[n]
      /\ Keep(s, T) = f[Len(s)]
  BY <1>a DEF KeepsWith
<1> DEFINE Right == {n \in 0 .. Len(s) :
                       f[n] \in Seq(S) /\ Len(f[n]) = n /\ \A i \in 1 .. n : f[n][i] = s[i]}
<1>2. 0 \in Right
  <2>1. f[0] = <<>>
    BY <1>1
  <2>2. f[0] \in Seq(S) /\ Len(f[0]) = 0
    BY <2>1, EmptySeq
  <2>3. QED
    BY <1>0, <2>2
<1>3. ASSUME NEW n \in 0 .. Len(s) - 1, n \in Right PROVE n + 1 \in Right
  <2>1. n + 1 \in 0 .. Len(s) /\ n + 1 \in DOMAIN s /\ n + 1 # 0 /\ n + 1 - 1 = n
    BY <1>0
  <2>2. f[n + 1] = Append(f[n], s[n + 1])
    BY <1>1, <2>1
  <2>3. f[n] \in Seq(S) /\ Len(f[n]) = n /\ s[n + 1] \in S /\ \A i \in 1 .. n : f[n][i] = s[i]
    BY <1>0, <1>3, <2>1
  <2>4. /\ f[n + 1] \in Seq(S) /\ Len(f[n + 1]) = n + 1
        /\ \A i \in DOMAIN f[n] : f[n + 1][i] = f[n][i]
        /\ f[n + 1][n + 1] = s[n + 1] /\ DOMAIN f[n] = 1 .. n
    BY <2>2, <2>3, AppendGrows
  <2>5. \A i \in 1 .. n + 1 : f[n + 1][i] = s[i]
    BY <1>0, <2>3, <2>4
  <2>6. QED
    BY <2>1, <2>4, <2>5
<1>4. Len(s) \in Right
  <2> HIDE DEF Right
  <2>1. 0 .. Len(s) \subseteq Right
    BY <1>0, <1>2, <1>3, UpTo
  <2>2. QED
    BY <1>0, <2>1
<1>5. QED
  BY <1>1, <1>4, SeqEqual

\* What is left of entries that are all different is all different.
LEMMA KeepApart ==
    ASSUME NEW S, NEW s \in Seq(S), NEW T, \A i, j \in DOMAIN s : s[i] = s[j] => i = j
    PROVE  \A i, j \in DOMAIN Keep(s, T) : Keep(s, T)[i] = Keep(s, T)[j] => i = j
<1>0. /\ Len(s) \in Nat /\ DOMAIN s = 1 .. Len(s) /\ \A i \in DOMAIN s : s[i] \in S
  BY Positions
<1>a. PICK f : KeepsWith(f, s, T)
  BY KeepIsDefined
<1> DEFINE Apart(l) == \A i, j \in DOMAIN l : l[i] = l[j] => i = j
           Good == {n \in 0 .. Len(s) : /\ f[n] \in Seq(S) /\ Apart(f[n])
                                        /\ \A i \in DOMAIN f[n] : \E j \in 1 .. n : f[n][i] = s[j]}
<1>1. 0 \in Good
  <2>1. f[0] = <<>> /\ <<>> \in Seq(S) /\ DOMAIN <<>> = {}
    BY <1>a, EmptySeq DEF KeepsWith
  <2>2. /\ 0 \in 0 .. Len(s) /\ f[0] \in Seq(S) /\ Apart(f[0])
        /\ \A i \in DOMAIN f[0] : \E j \in 1 .. 0 : f[0][i] = s[j]
    BY <1>0, <2>1
  <2>3. QED
    BY <2>2
<1>2. ASSUME NEW n \in 0 .. Len(s) - 1, n \in Good PROVE n + 1 \in Good
  <2> DEFINE l == f[n]
             x == s[n + 1]
  <2>1. /\ n + 1 \in 0 .. Len(s) /\ n + 1 \in DOMAIN s /\ 1 .. n \subseteq DOMAIN s
        /\ n + 1 \notin 1 .. n /\ n + 1 \in 1 .. n + 1 /\ 1 .. n \subseteq 1 .. n + 1
    BY <1>0
  <2>2. l \in Seq(S) /\ Apart(l) /\ \A i \in DOMAIN l : \E j \in 1 .. n : l[i] = s[j]
    BY <1>2
  <2>3. f[n + 1] = IF x \in T THEN Append(l, x) ELSE l
    BY <1>a DEF KeepsWith
  <2>4. x \in S
    BY <1>0, <2>1
  <2> HIDE DEF l, x
  <2>5. \A i \in DOMAIN l : l[i] # x
    BY <2>1, <2>2 DEF x
  <2>6. CASE x \in T
    <3>1. /\ Append(l, x) \in Seq(S) /\ DOMAIN Append(l, x) = DOMAIN l \cup {Len(l) + 1}
          /\ \A i \in DOMAIN l : Append(l, x)[i] = l[i]
          /\ Append(l, x)[Len(l) + 1] = x
      BY <2>2, <2>4, AppendGrows
    <3>2. Apart(Append(l, x))
      <4>1. SUFFICES ASSUME NEW i \in DOMAIN Append(l, x), NEW j \in DOMAIN Append(l, x),
                            Append(l, x)[i] = Append(l, x)[j]
                     PROVE  i = j
        OBVIOUS
      <4>2. QED
        BY <2>2, <2>5, <3>1, <4>1
    <3>3. \A i \in DOMAIN Append(l, x) : \E j \in 1 .. n + 1 : Append(l, x)[i] = s[j]
      BY <2>1, <2>2, <3>1 DEF x
    <3>4. QED
      BY <2>1, <2>3, <2>6, <3>1, <3>2, <3>3
  <2>7. CASE x \notin T
    <3>1. \A i \in DOMAIN l : \E j \in 1 .. n + 1 : l[i] = s[j]
      BY <2>1, <2>2
    <3>2. QED
      BY <2>1, <2>2, <2>3, <2>7, <3>1
  <2>8. QED
    BY <2>6, <2>7
<1> HIDE DEF Good
<1>3. 0 .. Len(s) \subseteq Good
  BY <1>0, <1>1, <1>2, UpTo
<1>4. Len(s) \in Good
  BY <1>0, <1>3
<1>5. QED
  BY <1>4, <1>a DEF Good, KeepsWith

\* The last of what is left is the last entry in T.
LEMMA KeepLast ==
    ASSUME NEW S, NEW s \in Seq(S), NEW T
    PROVE  /\ Keep(s, T) = <<>> => \A i \in DOMAIN s : s[i] \notin T
           /\ Keep(s, T) # <<>> =>
                \E m \in DOMAIN s :
                    /\ s[m] \in T /\ Keep(s, T)[Len(Keep(s, T))] = s[m]
                    /\ \A i \in DOMAIN s : s[i] \in T => i <= m
<1>0. /\ Len(s) \in Nat /\ DOMAIN s = 1 .. Len(s) /\ \A i \in DOMAIN s : s[i] \in S
  BY Positions
<1>a. PICK f : KeepsWith(f, s, T)
  BY KeepIsDefined
<1> DEFINE Ends(l, m, n) == /\ m \in 1 .. n /\ s[m] \in T /\ l[Len(l)] = s[m]
                            /\ \A i \in 1 .. n : s[i] \in T => i <= m
           Good == {n \in 0 .. Len(s) :
                       /\ f[n] \in Seq(S)
                       /\ f[n] = <<>> => \A i \in 1 .. n : s[i] \notin T
                       /\ f[n] # <<>> => \E m \in 1 .. n : Ends(f[n], m, n)}
<1>1. 0 \in Good
  <2>1. f[0] = <<>> /\ <<>> \in Seq(S)
    BY <1>a, EmptySeq DEF KeepsWith
  <2>2. 0 \in 0 .. Len(s) /\ \A i \in 1 .. 0 : s[i] \notin T
    BY <1>0
  <2> HIDE DEF Ends
  <2>3. QED
    BY <2>1, <2>2
<1>2. ASSUME NEW n \in 0 .. Len(s) - 1, n \in Good PROVE n + 1 \in Good
  <2> DEFINE l == f[n]
             x == s[n + 1]
  <2>1. /\ n \in Nat /\ n + 1 \in 0 .. Len(s) /\ n + 1 \in DOMAIN s /\ n + 1 \in 1 .. n + 1
        /\ 1 .. n \subseteq 1 .. n + 1 /\ \A i \in 1 .. n + 1 : i \in Nat /\ (i \in 1 .. n \/ i = n + 1)
        /\ \A i \in 1 .. n + 1 : i <= n + 1
    BY <1>0
  <2>2. /\ l \in Seq(S)
        /\ l = <<>> => \A i \in 1 .. n : s[i] \notin T
        /\ l # <<>> => \E m \in 1 .. n : Ends(l, m, n)
    BY <1>2
  <2>3. f[n + 1] = IF x \in T THEN Append(l, x) ELSE l
    BY <1>a DEF KeepsWith
  <2>4. x \in S
    BY <1>0, <2>1
  <2> HIDE DEF l
  <2>5. CASE x \in T
    <3>1. /\ Append(l, x) \in Seq(S) /\ Len(Append(l, x)) = Len(l) + 1
          /\ Append(l, x)[Len(l) + 1] = x /\ Len(l) \in Nat
      BY <2>2, <2>4, AppendGrows
    <3>2. Append(l, x) # <<>>
      BY <3>1, EmptySeq
    <3>3. Ends(Append(l, x), n + 1, n + 1)
      BY <2>1, <2>5, <3>1
    <3>4. QED
      BY <2>1, <2>3, <2>5, <3>1, <3>2, <3>3
  <2>6. CASE x \notin T
    <3>1. l = <<>> => \A i \in 1 .. n + 1 : s[i] \notin T
      BY <2>1, <2>2, <2>6
    <3>2. l # <<>> => \E m \in 1 .. n + 1 : Ends(l, m, n + 1)
      BY <2>1, <2>2, <2>6
    <3>3. QED
      BY <2>1, <2>2, <2>3, <2>6, <3>1, <3>2
  <2>7. QED
    BY <2>5, <2>6
<1> HIDE DEF Good
<1>3. 0 .. Len(s) \subseteq Good
  BY <1>0, <1>1, <1>2, UpTo
<1>4. Len(s) \in Good
  BY <1>0, <1>3
<1>5. QED
  BY <1>0, <1>4, <1>a DEF Good, KeepsWith
=============================================================================
