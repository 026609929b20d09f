-------------------------- MODULE ResumptionProofs --------------------------
(***************************************************************************)
(* No coroutine is resumed twice, while it runs or after it has returned,  *)
(* and whoever is queued has a call below it that flushes the queue: for   *)
(* any number of coroutines, suspend_points and threads.                   *)
(***************************************************************************)
EXTENDS Resumption, SequenceTheorems, FiniteSetTheorems, TLAPS

-----------------------------------------------------------------------------
(* Sequences *)

\* Append adds one element at the end.
LEMMA Appended ==
    ASSUME NEW C, NEW s \in Seq(C), NEW c \in C
    PROVE  /\ Append(s, c) \in Seq(C)
           /\ Range(Append(s, c)) = Range(s) \cup {c}
           /\ IsInjective(s) /\ c \notin Range(s) => IsInjective(Append(s, c))
<1>1. /\ Append(s, c) \in Seq(C) /\ Len(Append(s, c)) = Len(s) + 1 /\ Len(s) \in Nat
      /\ DOMAIN s = 1 .. Len(s) /\ DOMAIN Append(s, c) = 1 .. Len(s) + 1
      /\ \A i \in 1 .. Len(s) : Append(s, c)[i] = s[i]
      /\ Append(s, c)[Len(s) + 1] = c
  BY AppendProperties, LenProperties
<1>2. Range(Append(s, c)) = Range(s) \cup {c}
  <2>1. ASSUME NEW x \in Range(Append(s, c)) PROVE x \in Range(s) \cup {c}
    BY <1>1 DEF Range
  <2>2. ASSUME NEW x \in Range(s) PROVE x \in Range(Append(s, c))
    <3>1. PICK i \in 1 .. Len(s) : x = s[i]
      BY <1>1 DEF Range
    <3>2. i \in 1 .. Len(s) + 1 /\ x = Append(s, c)[i]
      BY <1>1, <3>1
    <3> QED
      BY <1>1, <3>2 DEF Range
  <2>3. c \in Range(Append(s, c))
    <3>1. Len(s) + 1 \in 1 .. Len(s) + 1
      BY <1>1
    <3> QED
      BY <1>1, <3>1 DEF Range
  <2> QED
    BY <2>1, <2>2, <2>3
<1>3. ASSUME IsInjective(s), c \notin Range(s) PROVE IsInjective(Append(s, c))
  BY <1>1, <1>3 DEF IsInjective, Range
<1> QED
  BY <1>1, <1>2, <1>3

\* A concatenation has the elements of both.
LEMMA Concatenated ==
    ASSUME NEW C, NEW s \in Seq(C), NEW r \in Seq(C)
    PROVE  /\ s \o r \in Seq(C)
           /\ Range(s \o r) = Range(s) \cup Range(r)
           /\ IsInjective(s) /\ IsInjective(r) /\ Range(s) \cap Range(r) = {} => IsInjective(s \o r)
<1>1. /\ s \o r \in Seq(C) /\ Len(s) \in Nat /\ Len(r) \in Nat
      /\ DOMAIN s = 1 .. Len(s) /\ DOMAIN r = 1 .. Len(r) /\ DOMAIN (s \o r) = 1 .. Len(s) + Len(r)
      /\ \A i \in 1 .. Len(s) + Len(r) : (s \o r)[i] = IF i <= Len(s) THEN s[i] ELSE r[i - Len(s)]
  BY ConcatProperties, LenProperties
<1>2. Range(s \o r) = Range(s) \cup Range(r)
  BY RangeConcatenation
<1>3. ASSUME IsInjective(s), IsInjective(r), Range(s) \cap Range(r) = {}
      PROVE  IsInjective(s \o r)
  <2>1. \A i \in 1 .. Len(s), j \in 1 .. Len(r) : s[i] # r[j]
    BY <1>1, <1>3 DEF Range
  <2>2. /\ \A i, j \in 1 .. Len(s) : s[i] = s[j] => i = j
        /\ \A i, j \in 1 .. Len(r) : r[i] = r[j] => i = j
    BY <1>1, <1>3 DEF IsInjective
  <2>3. ASSUME NEW i \in 1 .. Len(s) + Len(r), NEW j \in 1 .. Len(s) + Len(r), (s \o r)[i] = (s \o r)[j]
        PROVE  i = j
    <3>1. CASE i <= Len(s) /\ j <= Len(s)
      BY <1>1, <2>2, <2>3, <3>1
    <3>2. CASE i > Len(s) /\ j > Len(s)
      <4>1. i - Len(s) \in 1 .. Len(r) /\ j - Len(s) \in 1 .. Len(r) /\ r[i - Len(s)] = r[j - Len(s)]
        BY <1>1, <2>3, <3>2
      <4>2. i - Len(s) = j - Len(s)
        BY <2>2, <4>1
      <4> QED
        BY <1>1, <4>2
    <3>3. CASE i <= Len(s) /\ j > Len(s)
      <4>1. j - Len(s) \in 1 .. Len(r) /\ i \in 1 .. Len(s) /\ s[i] = r[j - Len(s)]
        BY <1>1, <2>3, <3>3
      <4> QED
        BY <2>1, <4>1
    <3>4. CASE i > Len(s) /\ j <= Len(s)
      <4>1. i - Len(s) \in 1 .. Len(r) /\ j \in 1 .. Len(s) /\ s[j] = r[i - Len(s)]
        BY <1>1, <2>3, <3>4
      <4> QED
        BY <2>1, <4>1
    <3> QED
      BY <1>1, <3>1, <3>2, <3>3, <3>4
  <2> QED
    BY <1>1, <2>3 DEF IsInjective
<1> QED
  BY <1>1, <1>2, <1>3

\* Without its first element.
LEMMA Beheaded ==
    ASSUME NEW C, NEW s \in Seq(C), s # <<>>
    PROVE  /\ Tail(s) \in Seq(C) /\ Head(s) \in C /\ Head(s) \in Range(s)
           /\ Range(Tail(s)) \subseteq Range(s)
           /\ IsInjective(s) => IsInjective(Tail(s)) /\ Range(Tail(s)) = Range(s) \ {Head(s)}
<1>1. /\ Tail(s) \in Seq(C) /\ Head(s) \in C /\ Len(s) \in Nat \ {0} /\ DOMAIN s = 1 .. Len(s)
      /\ Head(s) = s[1] /\ DOMAIN Tail(s) = 1 .. Len(s) - 1
      /\ \A i \in 1 .. Len(s) - 1 : Tail(s)[i] = s[i + 1]
  BY HeadTailProperties, EmptySeq, LenProperties
<1>2. Head(s) \in Range(s)
  BY <1>1 DEF Range
<1>3. Range(Tail(s)) \subseteq Range(s)
  BY <1>1 DEF Range
<1>4. ASSUME IsInjective(s) PROVE IsInjective(Tail(s)) /\ Range(Tail(s)) = Range(s) \ {Head(s)}
  <2>1. \A i, j \in 1 .. Len(s) : s[i] = s[j] => i = j
    BY <1>1, <1>4 DEF IsInjective
  <2>2. IsInjective(Tail(s))
    <3>1. ASSUME NEW i \in 1 .. Len(s) - 1, NEW j \in 1 .. Len(s) - 1, Tail(s)[i] = Tail(s)[j]
          PROVE  i = j
      <4>1. i + 1 \in 1 .. Len(s) /\ j + 1 \in 1 .. Len(s) /\ s[i + 1] = s[j + 1]
        BY <1>1, <3>1
      <4>2. i + 1 = j + 1
        BY <2>1, <4>1
      <4> QED
        BY <4>2
    <3> QED
      BY <1>1, <3>1 DEF IsInjective
  <2>3. Head(s) \notin Range(Tail(s))
    BY <1>1, <2>1 DEF Range
  <2>4. ASSUME NEW x \in Range(s), x # Head(s) PROVE x \in Range(Tail(s))
    <3>1. PICK i \in 1 .. Len(s) : x = s[i]
      BY <1>1 DEF Range
    <3>2. i - 1 \in 1 .. Len(s) - 1 /\ (i - 1) + 1 = i
      BY <1>1, <2>4, <3>1
    <3>3. Tail(s)[i - 1] = x
      BY <1>1, <3>1, <3>2
    <3> QED
      BY <1>1, <3>2, <3>3 DEF Range
  <2> QED
    BY <1>3, <2>2, <2>3, <2>4
<1> QED
  BY <1>1, <1>2, <1>3, <1>4

\* Without its last element.
LEMMA Shortened ==
    ASSUME NEW C, NEW s \in Seq(C), s # <<>>
    PROVE  /\ Front(s) \in Seq(C) /\ Last(s) \in C /\ Last(s) \in Range(s)
           /\ Range(Front(s)) \subseteq Range(s)
           /\ IsInjective(s) => IsInjective(Front(s)) /\ Range(Front(s)) = Range(s) \ {Last(s)}
<1>1. Len(s) \in Nat \ {0} /\ DOMAIN s = 1 .. Len(s) /\ \A i \in 1 .. Len(s) : s[i] \in C
  BY EmptySeq, LenProperties, ElementOfSeq
<1>2. /\ Front(s) \in Seq(C) /\ Len(Front(s)) = Len(s) - 1
      /\ \A i \in 1 .. Len(s) - 1 : Front(s)[i] = s[i]
  <2>1. \A i \in 1 .. Len(s) - 1 : s[i] \in C
    BY <1>1
  <2>2. /\ SubSeq(s, 1, Len(s) - 1) \in Seq(C)
        /\ Len(SubSeq(s, 1, Len(s) - 1)) = IF 1 <= Len(s) - 1 THEN (Len(s) - 1) - 1 + 1 ELSE 0
        /\ \A i \in 1 .. (Len(s) - 1) - 1 + 1 : SubSeq(s, 1, Len(s) - 1)[i] = s[1 + i - 1]
    <3>1. Len(s) - 1 \in Int
      BY <1>1
    <3> QED
      BY <2>1, <3>1, SubSeqProperties
  <2> QED
    BY <1>1, <2>2 DEF Front
<1>3. DOMAIN Front(s) = 1 .. Len(s) - 1 /\ Last(s) = s[Len(s)] /\ Len(s) \in 1 .. Len(s)
  BY <1>1, <1>2, LenProperties DEF Last
<1>4. Last(s) \in Range(s) /\ Last(s) \in C
  BY <1>1, <1>3 DEF Range
<1>5. Range(Front(s)) \subseteq Range(s)
  BY <1>1, <1>2, <1>3 DEF Range
<1>6. ASSUME IsInjective(s) PROVE IsInjective(Front(s)) /\ Range(Front(s)) = Range(s) \ {Last(s)}
  <2>1. \A i, j \in 1 .. Len(s) : s[i] = s[j] => i = j
    BY <1>1, <1>6 DEF IsInjective
  <2>2. IsInjective(Front(s))
    BY <1>1, <1>2, <1>3, <2>1 DEF IsInjective
  <2>3. Last(s) \notin Range(Front(s))
    BY <1>1, <1>2, <1>3, <2>1 DEF Range
  <2>4. ASSUME NEW x \in Range(s), x # Last(s) PROVE x \in Range(Front(s))
    <3>1. PICK i \in 1 .. Len(s) : x = s[i]
      BY <1>1 DEF Range
    <3>2. i \in 1 .. Len(s) - 1 /\ Front(s)[i] = x
      BY <1>1, <1>2, <1>3, <2>4, <3>1
    <3> QED
      BY <1>3, <3>2 DEF Range
  <2> QED
    BY <1>5, <2>2, <2>3, <2>4
<1> QED
  BY <1>2, <1>4, <1>5, <1>6

\* The same elements from the end.
LEMMA Reversed ==
    ASSUME NEW C, NEW s \in Seq(C)
    PROVE  /\ Reverse(s) \in Seq(C) /\ Range(Reverse(s)) = Range(s)
           /\ IsInjective(s) => IsInjective(Reverse(s))
<1>1. Len(s) \in Nat /\ DOMAIN s = 1 .. Len(s) /\ \A i \in 1 .. Len(s) : s[i] \in C
  BY LenProperties, ElementOfSeq
<1>2. \A i \in 1 .. Len(s) : (Len(s) - i) + 1 \in 1 .. Len(s)
  BY <1>1
<1>3. /\ DOMAIN Reverse(s) = 1 .. Len(s)
      /\ \A i \in 1 .. Len(s) : Reverse(s)[i] = s[(Len(s) - i) + 1]
  BY DEF Reverse
<1>4. Reverse(s) \in Seq(C)
  <2>1. Reverse(s) \in [1 .. Len(s) -> C]
    BY <1>1, <1>2 DEF Reverse
  <2> QED
    BY <1>1, <2>1, SeqDef
<1>5. Range(Reverse(s)) = Range(s)
  <2>1. ASSUME NEW x \in Range(s) PROVE x \in Range(Reverse(s))
    <3>1. PICK i \in 1 .. Len(s) : x = s[i]
      BY <1>1 DEF Range
    <3>2. (Len(s) - ((Len(s) - i) + 1)) + 1 = i
      BY <1>1
    <3>3. Reverse(s)[(Len(s) - i) + 1] = x
      BY <1>2, <1>3, <3>1, <3>2
    <3> QED
      BY <1>2, <1>3, <3>3 DEF Range
  <2>2. ASSUME NEW x \in Range(Reverse(s)) PROVE x \in Range(s)
    BY <1>1, <1>2, <1>3 DEF Range
  <2> QED
    BY <2>1, <2>2
<1>6. ASSUME IsInjective(s) PROVE IsInjective(Reverse(s))
  <2>1. ASSUME NEW i \in 1 .. Len(s), NEW j \in 1 .. Len(s), Reverse(s)[i] = Reverse(s)[j]
        PROVE  i = j
    <3>1. (Len(s) - i) + 1 = (Len(s) - j) + 1
      BY <1>1, <1>2, <1>3, <1>6, <2>1 DEF IsInjective
    <3> QED
      BY <1>1, <3>1
  <2> QED
    BY <1>3, <2>1 DEF IsInjective
<1> QED
  BY <1>4, <1>5, <1>6

\* A sequence of the elements of a set has each of them, and once.
LEMMA Listed ==
    ASSUME NEW S, IsFiniteSet(S), NEW s \in SetToSeqs(S)
    PROVE  s \in Seq(S) /\ IsInjective(s) /\ Range(s) = S
<1> DEFINE D == 1 .. Cardinality(S)
<1>1. Cardinality(S) \in Nat
  BY FS_CardinalityType
<1>2. s \in [D -> S] /\ \A i, j \in D : i # j => s[i] # s[j]
  BY DEF SetToSeqs
<1>3. s \in Seq(S)
  BY <1>1, <1>2, SeqDef
<1>4. IsInjective(s) /\ s \in Injection(D, S)
  BY <1>2 DEF IsInjective, Injection
<1>5. Cardinality(D) = Cardinality(S)
  <2> HIDE DEF D
  <2>1. \A n \in Nat : Cardinality(1 .. n) = n
    BY FS_CountingElements, FS_Interval
  <2> QED
    BY <1>1, <2>1 DEF D
<1>6. s \in Surjection(D, S)
  <2> HIDE DEF D
  <2> QED
    BY <1>4, <1>5, FS_Injection
<1> QED
  BY <1>2, <1>3, <1>4, <1>6 DEF Range, Surjection

-----------------------------------------------------------------------------
(* Lists of handles *)

\* Where a handle may be: in a suspend_point, in the queue of a thread, or in a frame of
\* install_queue_and_call.
InPoint(p) == <<"point", p>>
InQueue(t) == <<"queue", t>>
InFrame(t, d) == <<"frame", <<t, d>>>>
Holders == {InPoint(p) : p \in Points} \cup {InQueue(t) : t \in Threads}
           \cup {InFrame(t, d) : t \in Threads, d \in Nat}

Filled == [Holders -> Seq(Coroutines)]
Held(L) == UNION {Range(L[h]) : h \in Holders}

\* No coroutine has two handles.
Distinct(L) ==
    /\ \A h \in Holders : IsInjective(L[h])
    /\ \A g, h \in Holders : Range(L[g]) \cap Range(L[h]) # {} => g = h

\* The list h of L gains S, and that makes M.
Gains(L, h, S, M) ==
    /\ M \in Filled /\ Distinct(M) /\ Held(M) = Held(L) \cup S
    /\ \A g \in Holders : Range(M[g]) = IF g = h THEN Range(L[g]) \cup S ELSE Range(L[g])

\* What is in the list a of L is moved to b, and that makes M.
Moved(L, a, b, M) ==
    /\ M \in Filled /\ Distinct(M) /\ Held(M) = Held(L)
    /\ \A g \in Holders : Range(M[g]) = IF g = a THEN {} ELSE IF g = b THEN Range(L[a]) \cup Range(L[b])
                                        ELSE Range(L[g])

\* A new handle.
LEMMA Put ==
    ASSUME NEW L \in Filled, Distinct(L), NEW h \in Holders, NEW c \in Coroutines, c \notin Held(L),
           NEW M, M = [L EXCEPT ![h] = Append(@, c)]
    PROVE  Gains(L, h, {c}, M)
<1>1. /\ L[h] \in Seq(Coroutines) /\ c \notin Range(L[h]) /\ IsInjective(L[h])
      /\ \A g \in Holders : c \notin Range(L[g])
  BY DEF Filled, Held, Distinct
<1>2. /\ Append(L[h], c) \in Seq(Coroutines) /\ IsInjective(Append(L[h], c))
      /\ Range(Append(L[h], c)) = Range(L[h]) \cup {c}
  BY <1>1, Appended
<1>3. M \in Filled /\ M[h] = Append(L[h], c) /\ \A g \in Holders : g # h => M[g] = L[g]
  BY <1>2 DEF Filled
<1>4. \A g \in Holders : Range(M[g]) = IF g = h THEN Range(L[g]) \cup {c} ELSE Range(L[g])
  BY ONLY <1>2, <1>3
<1>5. \A g \in Holders : IsInjective(M[g])
  BY <1>2, <1>3 DEF Distinct
<1>6. Distinct(M)
  <2>1. ASSUME NEW g \in Holders, NEW k \in Holders, NEW x \in Range(M[g]), x \in Range(M[k])
        PROVE  g = k
    <3>1. CASE x = c
      BY <1>1, <1>4, <2>1, <3>1
    <3>2. CASE x # c
      <4>1. x \in Range(L[g]) /\ x \in Range(L[k])
        <5>1. \A f \in Holders : Range(M[f]) \subseteq Range(L[f]) \cup {c}
          <6>1. ASSUME NEW f \in Holders PROVE Range(M[f]) \subseteq Range(L[f]) \cup {c}
            <7>1. CASE f = h
              BY <1>2, <1>3, <7>1
            <7>2. CASE f # h
              BY <1>3, <7>2
            <7> QED
              BY <7>1, <7>2
          <6> QED
            BY <6>1
        <5> QED
          BY <5>1, <2>1, <3>2
      <4> QED
        BY <4>1 DEF Distinct
    <3> QED
      BY <3>1, <3>2
  <2> QED
    BY <1>5, <2>1 DEF Distinct
<1>7. Held(M) = Held(L) \cup {c}
  BY ONLY h \in Holders, <1>4, Zenon DEF Held
<1> QED
  BY ONLY <1>3, <1>4, <1>6, <1>7 DEF Gains

\* New handles.
LEMMA PutAll ==
    ASSUME NEW L \in Filled, Distinct(L), NEW h \in Holders,
           NEW s \in Seq(Coroutines), IsInjective(s), Range(s) \cap Held(L) = {},
           NEW M, M = [L EXCEPT ![h] = @ \o s]
    PROVE  Gains(L, h, Range(s), M)
<1>1. /\ L[h] \in Seq(Coroutines) /\ IsInjective(L[h]) /\ Range(L[h]) \cap Range(s) = {}
      /\ \A g \in Holders : Range(L[g]) \cap Range(s) = {}
  BY DEF Filled, Held, Distinct
<1>2. /\ L[h] \o s \in Seq(Coroutines) /\ IsInjective(L[h] \o s)
      /\ Range(L[h] \o s) = Range(L[h]) \cup Range(s)
  BY <1>1, Concatenated
<1>3. M \in Filled /\ M[h] = L[h] \o s /\ \A g \in Holders : g # h => M[g] = L[g]
  BY <1>2 DEF Filled
<1>4. \A g \in Holders : Range(M[g]) = IF g = h THEN Range(L[g]) \cup Range(s) ELSE Range(L[g])
  BY ONLY <1>2, <1>3
<1>5. \A g \in Holders : IsInjective(M[g])
  BY <1>2, <1>3 DEF Distinct
<1>6. Distinct(M)
  BY ONLY Distinct(L), <1>1, <1>4, <1>5, Zenon DEF Distinct
<1>7. Held(M) = Held(L) \cup Range(s)
  BY ONLY h \in Holders, <1>4, Zenon DEF Held
<1> QED
  BY ONLY <1>3, <1>4, <1>6, <1>7 DEF Gains

\* All the handles of one list are put at the end of another.
LEMMA MoveAll ==
    ASSUME NEW L \in Filled, Distinct(L), NEW a \in Holders, NEW b \in Holders, a # b,
           NEW M, M = [L EXCEPT ![a] = <<>>, ![b] = L[b] \o L[a]]
    PROVE  Moved(L, a, b, M)
<1>1. /\ L[a] \in Seq(Coroutines) /\ L[b] \in Seq(Coroutines)
      /\ IsInjective(L[a]) /\ IsInjective(L[b]) /\ Range(L[a]) \cap Range(L[b]) = {}
  BY DEF Filled, Distinct
<1>2. /\ L[b] \o L[a] \in Seq(Coroutines) /\ IsInjective(L[b] \o L[a])
      /\ Range(L[b] \o L[a]) = Range(L[a]) \cup Range(L[b])
  BY <1>1, Concatenated
<1>3. /\ M \in Filled /\ M[a] = <<>> /\ M[b] = L[b] \o L[a]
      /\ \A g \in Holders : g \notin {a, b} => M[g] = L[g]
  <2>1. <<>> \in Seq(Coroutines)
    BY EmptySeq
  <2> DEFINE both == L[b] \o L[a]
  <2> HIDE DEF both
  <2>2. both \in Seq(Coroutines) /\ M = [L EXCEPT ![a] = <<>>, ![b] = both]
    BY <1>2 DEF both
  <2>3. /\ M \in Filled /\ M[a] = <<>> /\ M[b] = both
        /\ \A g \in Holders : g \notin {a, b} => M[g] = L[g]
    BY ONLY L \in Filled, a \in Holders, b \in Holders, a # b, <2>1, <2>2 DEF Filled
  <2> QED
    BY <2>3 DEF both
<1>4. Range(<<>>) = {} /\ IsInjective(<<>>)
  BY DEF Range, IsInjective
<1>5. \A g \in Holders : Range(M[g]) = IF g = a THEN {} ELSE IF g = b THEN Range(L[a]) \cup Range(L[b])
                                       ELSE Range(L[g])
  BY ONLY <1>2, <1>3, <1>4
<1>6. \A g \in Holders : IsInjective(M[g])
  BY <1>2, <1>3, <1>4 DEF Distinct
<1>7. Distinct(M)
  BY ONLY Distinct(L), a \in Holders, b \in Holders, <1>5, <1>6, Zenon DEF Distinct
<1>8. Held(M) = Held(L)
  <2>1. ASSUME NEW c \in Held(L) PROVE c \in Held(M)
    <3>1. PICK g \in Holders : c \in Range(L[g])
      BY DEF Held
    <3>2. CASE g = a
      <4>1. c \in Range(M[b])
        BY ONLY a # b, b \in Holders, <1>5, <3>1, <3>2
      <4> QED
        BY <4>1 DEF Held
    <3>3. CASE g # a
      <4>1. c \in Range(M[g])
        BY ONLY b \in Holders, <1>4, <1>5, <3>1, <3>3
      <4> QED
        BY <4>1 DEF Held
    <3> QED
      BY <3>2, <3>3
  <2>2. ASSUME NEW c \in Held(M) PROVE c \in Held(L)
    <3>1. PICK g \in Holders : c \in Range(M[g])
      BY DEF Held
    <3>2. c \in Range(L[g]) \/ c \in Range(L[a])
      BY <1>5, <3>1
    <3> QED
      BY <3>2 DEF Held
  <2> QED
    BY <2>1, <2>2
<1> QED
  BY ONLY <1>3, <1>5, <1>7, <1>8 DEF Moved

\* The handles of one list are put into an empty one, the last one first.
LEMMA TurnOver ==
    ASSUME NEW L \in Filled, Distinct(L), NEW a \in Holders, NEW b \in Holders, a # b, L[b] = <<>>,
           NEW M, M = [L EXCEPT ![a] = <<>>, ![b] = Reverse(L[a])]
    PROVE  Moved(L, a, b, M)
<1>1. L[a] \in Seq(Coroutines) /\ IsInjective(L[a])
  BY DEF Filled, Distinct
<1>2. /\ Reverse(L[a]) \in Seq(Coroutines) /\ IsInjective(Reverse(L[a]))
      /\ Range(Reverse(L[a])) = Range(L[a])
  BY <1>1, Reversed
<1>3. /\ M \in Filled /\ M[a] = <<>> /\ M[b] = Reverse(L[a])
      /\ \A g \in Holders : g \notin {a, b} => M[g] = L[g]
  BY <1>2 DEF Filled
<1>4. Range(<<>>) = {} /\ IsInjective(<<>>)
  BY DEF Range, IsInjective
<1>5. \A g \in Holders : Range(M[g]) = IF g = a THEN {} ELSE IF g = b THEN Range(L[a]) ELSE Range(L[g])
  BY ONLY <1>2, <1>3, <1>4
<1>6. \A g \in Holders : IsInjective(M[g])
  BY <1>2, <1>3, <1>4 DEF Distinct
<1>7. Distinct(M)
  BY ONLY Distinct(L), a \in Holders, b \in Holders, <1>5, <1>6, Zenon DEF Distinct
<1>8. Held(M) = Held(L)
  <2>1. ASSUME NEW c \in Held(L) PROVE c \in Held(M)
    <3>1. PICK g \in Holders : c \in Range(L[g])
      BY DEF Held
    <3>2. CASE g = a
      <4>1. c \in Range(M[b])
        BY ONLY a # b, b \in Holders, <1>5, <3>1, <3>2
      <4> QED
        BY <4>1 DEF Held
    <3>3. CASE g # a
      <4>1. c \in Range(M[g])
        BY ONLY L[b] = <<>>, b \in Holders, <1>4, <1>5, <3>1, <3>3
      <4> QED
        BY <4>1 DEF Held
    <3> QED
      BY <3>2, <3>3
  <2>2. ASSUME NEW c \in Held(M) PROVE c \in Held(L)
    <3>1. PICK g \in Holders : c \in Range(M[g])
      BY DEF Held
    <3>2. c \in Range(L[g]) \/ c \in Range(L[a])
      BY <1>5, <3>1
    <3> QED
      BY <3>2 DEF Held
  <2> QED
    BY <2>1, <2>2
<1> QED
  <2>1. Range(L[b]) = {}
    BY ONLY <1>4, L[b] = <<>>
  <2> QED
    BY ONLY <2>1, <1>3, <1>5, <1>7, <1>8 DEF Moved

\* c is taken from the list h of L, and that makes M.
Taken(L, h, c, M) ==
    /\ M \in Filled /\ Distinct(M) /\ Held(M) = Held(L) \ {c} /\ c \in Held(L) /\ c \in Coroutines
    /\ c \in Range(L[h]) /\ \A g \in Holders : c \notin Range(M[g])
    /\ \A g \in Holders : Range(M[g]) = IF g = h THEN Range(L[g]) \ {c} ELSE Range(L[g])

\* What is left of the list has each of the others once.
LEMMA Take ==
    ASSUME NEW L \in Filled, Distinct(L), NEW h \in Holders, NEW c, c \in Range(L[h]),
           NEW s \in Seq(Coroutines), IsInjective(s), Range(s) = Range(L[h]) \ {c}
    PROVE  Taken(L, h, c, [L EXCEPT ![h] = s])
<1> DEFINE M == [L EXCEPT ![h] = s]
<1>1. M \in Filled /\ M[h] = s /\ \A g \in Holders : g # h => M[g] = L[g]
  BY DEF Filled
<1> HIDE DEF M
<1>2. \A g \in Holders : Range(M[g]) = IF g = h THEN Range(L[g]) \ {c} ELSE Range(L[g])
  BY ONLY <1>1, Range(s) = Range(L[h]) \ {c}
<1>3. \A g \in Holders : IsInjective(M[g])
  BY <1>1 DEF Distinct
<1>4. Distinct(M)
  BY <1>2, <1>3 DEF Distinct
<1>5. \A g \in Holders : c \notin Range(M[g])
  BY <1>2 DEF Distinct
<1>6. Held(M) = Held(L) \ {c} /\ c \in Held(L)
  BY <1>2, <1>5 DEF Held
<1>7. c \in Coroutines
  <2>1. L[h] \in Seq(Coroutines)
    BY DEF Filled
  <2> QED
    BY <2>1, RangeOfSeq
<1>8. Taken(L, h, c, M)
  BY ONLY <1>1, <1>2, <1>4, <1>5, <1>6, <1>7, c \in Range(L[h]) DEF Taken
<1> QED
  BY <1>8 DEF M

LEMMA TakeFirst ==
    ASSUME NEW L \in Filled, Distinct(L), NEW h \in Holders, L[h] # <<>>
    PROVE  Taken(L, h, Head(L[h]), [L EXCEPT ![h] = Tail(L[h])])
<1>1. L[h] \in Seq(Coroutines) /\ IsInjective(L[h])
  BY DEF Filled, Distinct
<1>2. /\ Tail(L[h]) \in Seq(Coroutines) /\ Head(L[h]) \in Range(L[h])
      /\ IsInjective(Tail(L[h])) /\ Range(Tail(L[h])) = Range(L[h]) \ {Head(L[h])}
  BY <1>1, Beheaded
<1> QED
  BY <1>2, Take

LEMMA TakeLast ==
    ASSUME NEW L \in Filled, Distinct(L), NEW h \in Holders, L[h] # <<>>
    PROVE  Taken(L, h, Last(L[h]), [L EXCEPT ![h] = Front(L[h])])
<1>1. L[h] \in Seq(Coroutines) /\ IsInjective(L[h])
  BY DEF Filled, Distinct
<1>2. /\ Front(L[h]) \in Seq(Coroutines) /\ Last(L[h]) \in Range(L[h])
      /\ IsInjective(Front(L[h])) /\ Range(Front(L[h])) = Range(L[h]) \ {Last(L[h])}
  BY <1>1, Shortened
<1> QED
  BY <1>2, Take

-----------------------------------------------------------------------------
(* Stacks *)

RunOf(s, d) == IF d \in 1 .. Len(s) THEN s[d].runs ELSE NoOne
RestOf(s, d) == IF d \in 1 .. Len(s) THEN s[d].rest ELSE <<>>

\* A frame is of a coroutine, and has no handles then, or of install_queue_and_call.
LEMMA FrameTypes ==
    /\ \A c \in Coroutines : CoroFrame(c) \in Frame /\ CoroFrame(c).runs = c /\ c # NoOne
                             /\ CoroFrame(c).rest = <<>> /\ CoroFrame(c).prev = FALSE
    /\ \A f \in Frame : /\ f.runs \in Coroutines \cup {NoOne} /\ f.prev \in BOOLEAN
                        /\ f.rest \in Seq(Coroutines) /\ (f.runs # NoOne => f.rest = <<>>)
<1>1. <<>> \in Seq(Coroutines)
  BY EmptySeq
<1>2. ASSUME NEW c \in Coroutines
      PROVE  CoroFrame(c) \in Frame /\ CoroFrame(c).runs = c /\ c # NoOne
             /\ CoroFrame(c).rest = <<>> /\ CoroFrame(c).prev = FALSE
  BY CoroutinesAssumption DEF CoroFrame, Frame
<1>3. ASSUME NEW f \in Frame
      PROVE  /\ f.runs \in Coroutines \cup {NoOne} /\ f.prev \in BOOLEAN
             /\ f.rest \in Seq(Coroutines) /\ (f.runs # NoOne => f.rest = <<>>)
  BY <1>1 DEF Frame
<1> QED
  BY <1>2, <1>3

LEMMA InstallTypes ==
    ASSUME active \in [Threads -> BOOLEAN], NEW t \in Threads,
           NEW handles \in Seq(Coroutines), NEW p \in Points \cup {NoOne}
    PROVE  LET f == InstallFrame(t, handles, p)
           IN  f \in Frame /\ f.runs = NoOne /\ f.rest = handles /\ f.prev = active[t]
BY DEF InstallFrame, Frame

\* A frame is put on a stack.
LEMMA Pushed ==
    ASSUME NEW s \in Seq(Frame), NEW f \in Frame
    PROVE  LET r == Append(s, f)
           IN  /\ r \in Seq(Frame) /\ Len(r) = Len(s) + 1 /\ Len(s) \in Nat /\ r # <<>>
               /\ \A d \in 1 .. Len(s) : r[d] = s[d]
               /\ r[Len(s) + 1] = f
               /\ \A d \in Nat : /\ RunOf(r, d) = IF d = Len(s) + 1 THEN f.runs ELSE RunOf(s, d)
                                 /\ RestOf(r, d) = IF d = Len(s) + 1 THEN f.rest ELSE RestOf(s, d)
<1> DEFINE r == Append(s, f)
<1>1. /\ r \in Seq(Frame) /\ Len(r) = Len(s) + 1 /\ Len(s) \in Nat /\ r # <<>>
      /\ \A d \in 1 .. Len(s) : r[d] = s[d]
      /\ r[Len(s) + 1] = f
  BY AppendProperties, LenProperties
<1> HIDE DEF r
<1>2. ASSUME NEW d \in Nat
      PROVE  /\ RunOf(r, d) = IF d = Len(s) + 1 THEN f.runs ELSE RunOf(s, d)
             /\ RestOf(r, d) = IF d = Len(s) + 1 THEN f.rest ELSE RestOf(s, d)
  BY <1>1 DEF RunOf, RestOf
<1> QED
  BY <1>1, <1>2 DEF r

\* The top is taken away.
LEMMA Popped ==
    ASSUME NEW s \in Seq(Frame), s # <<>>
    PROVE  LET r == Front(s)
           IN  /\ r \in Seq(Frame) /\ Len(r) + 1 = Len(s) /\ Len(r) \in Nat /\ Last(s) = s[Len(s)]
               /\ \A d \in 1 .. Len(r) : r[d] = s[d]
               /\ Last(s) \in Frame
               /\ RunOf(s, Len(s)) = Last(s).runs /\ RestOf(s, Len(s)) = Last(s).rest
               /\ \A d \in Nat : /\ RunOf(r, d) = IF d = Len(s) THEN NoOne ELSE RunOf(s, d)
                                 /\ RestOf(r, d) = IF d = Len(s) THEN <<>> ELSE RestOf(s, d)
<1> DEFINE r == Front(s)
<1>1. Len(s) \in Nat \ {0} /\ DOMAIN s = 1 .. Len(s) /\ \A i \in 1 .. Len(s) : s[i] \in Frame
  BY EmptySeq, LenProperties, ElementOfSeq
<1>2. r \in Seq(Frame) /\ Len(r) = Len(s) - 1 /\ \A d \in 1 .. Len(s) - 1 : r[d] = s[d]
  <2>1. \A i \in 1 .. Len(s) - 1 : s[i] \in Frame
    BY <1>1
  <2>2. Len(s) - 1 \in Int /\ 1 \in Int
    BY <1>1
  <2>3. /\ SubSeq(s, 1, Len(s) - 1) \in Seq(Frame)
        /\ Len(SubSeq(s, 1, Len(s) - 1)) = IF 1 <= Len(s) - 1 THEN (Len(s) - 1) - 1 + 1 ELSE 0
        /\ \A i \in 1 .. (Len(s) - 1) - 1 + 1 : SubSeq(s, 1, Len(s) - 1)[i] = s[1 + i - 1]
    BY <2>1, <2>2, SubSeqProperties
  <2> QED
    BY <1>1, <2>3 DEF Front
<1> HIDE DEF r
<1>3. /\ Last(s) = s[Len(s)] /\ Last(s) \in Frame
      /\ RunOf(s, Len(s)) = Last(s).runs /\ RestOf(s, Len(s)) = Last(s).rest
  BY <1>1 DEF Last, RunOf, RestOf
<1>4. ASSUME NEW d \in Nat
      PROVE  /\ RunOf(r, d) = IF d = Len(s) THEN NoOne ELSE RunOf(s, d)
             /\ RestOf(r, d) = IF d = Len(s) THEN <<>> ELSE RestOf(s, d)
  <2>1. CASE d \in 1 .. Len(s) - 1
    <3>1. d \in 1 .. Len(r) /\ d \in 1 .. Len(s) /\ d # Len(s) /\ r[d] = s[d]
      <4>1. Len(s) \in Nat /\ Len(r) = Len(s) - 1 /\ r[d] = s[d]
        BY <1>1, <1>2, <2>1
      <4> QED
        BY ONLY <2>1, <4>1, d \in Nat
    <3> QED
      BY ONLY <3>1 DEF RunOf, RestOf
  <2>2. CASE d \notin 1 .. Len(s) - 1
    <3>1. d \notin 1 .. Len(r) /\ (d # Len(s) => d \notin 1 .. Len(s))
      <4>1. Len(s) \in Nat /\ Len(r) = Len(s) - 1
        BY <1>1, <1>2
      <4> QED
        BY ONLY <2>2, <4>1, d \in Nat
    <3> QED
      BY ONLY <3>1 DEF RunOf, RestOf
  <2> QED
    BY <2>1, <2>2
<1>5. Len(r) + 1 = Len(s) /\ Len(r) \in Nat /\ \A d \in 1 .. Len(r) : r[d] = s[d]
  BY <1>1, <1>2
<1> QED
  BY <1>2, <1>3, <1>4, <1>5 DEF r

\* The top is replaced.
LEMMA Replaced ==
    ASSUME NEW s \in Seq(Frame), s # <<>>, NEW f \in Frame
    PROVE  LET r == Append(Front(s), f)
           IN  /\ r \in Seq(Frame) /\ Len(r) = Len(s) /\ Len(s) \in Nat \ {0}
               /\ \A d \in 1 .. Len(s) : r[d] = IF d = Len(s) THEN f ELSE s[d]
               /\ \A d \in Nat : /\ RunOf(r, d) = IF d = Len(s) THEN f.runs ELSE RunOf(s, d)
                                 /\ RestOf(r, d) = IF d = Len(s) THEN f.rest ELSE RestOf(s, d)
<1> DEFINE q == Front(s)
           r == Append(q, f)
<1>1. /\ q \in Seq(Frame) /\ Len(q) + 1 = Len(s) /\ Len(q) \in Nat
      /\ \A d \in 1 .. Len(q) : q[d] = s[d]
      /\ \A d \in Nat : /\ RunOf(q, d) = IF d = Len(s) THEN NoOne ELSE RunOf(s, d)
                        /\ RestOf(q, d) = IF d = Len(s) THEN <<>> ELSE RestOf(s, d)
  BY Popped
<1> HIDE DEF q
<1>2. /\ r \in Seq(Frame) /\ Len(r) = Len(q) + 1
      /\ \A d \in 1 .. Len(q) : r[d] = q[d]
      /\ r[Len(q) + 1] = f
      /\ \A d \in Nat : /\ RunOf(r, d) = IF d = Len(q) + 1 THEN f.runs ELSE RunOf(q, d)
                        /\ RestOf(r, d) = IF d = Len(q) + 1 THEN f.rest ELSE RestOf(q, d)
  BY <1>1, Pushed
<1> HIDE DEF r
<1>3. \A d \in 1 .. Len(s) : r[d] = IF d = Len(s) THEN f ELSE s[d]
  BY <1>1, <1>2
<1>4. \A d \in Nat : /\ RunOf(r, d) = IF d = Len(s) THEN f.runs ELSE RunOf(s, d)
                     /\ RestOf(r, d) = IF d = Len(s) THEN f.rest ELSE RestOf(s, d)
  BY <1>1, <1>2
<1> QED
  BY <1>1, <1>2, <1>3, <1>4 DEF q, r

\* The top is replaced, and another frame put on it.
LEMMA Resumed ==
    ASSUME NEW s \in Seq(Frame), s # <<>>, NEW f \in Frame, NEW g \in Frame
    PROVE  Front(s) \o <<f, g>> = Append(Append(Front(s), f), g)
<1> DEFINE q == Front(s)
<1>1. q \in Seq(Frame) /\ Len(q) \in Nat
  BY Popped
<1> HIDE DEF q
<1>2. <<f>> \in Seq(Frame) /\ <<g>> \in Seq(Frame)
  OBVIOUS
<1>3. <<f>> \o <<g>> = <<f, g>>
  <2> DEFINE a == <<f>>
             b == <<g>>
             c == <<f, g>>
  <2>1. /\ a \in Seq(Frame) /\ b \in Seq(Frame) /\ c \in Seq(Frame)
        /\ Len(a) = 1 /\ Len(b) = 1 /\ Len(c) = 2 /\ a[1] = f /\ b[1] = g /\ c[1] = f /\ c[2] = g
    OBVIOUS
  <2> HIDE DEF a, b, c
  <2>2. /\ a \o b \in Seq(Frame) /\ Len(a \o b) = Len(a) + Len(b)
        /\ \A i \in 1 .. Len(a) + Len(b) : (a \o b)[i] = IF i <= Len(a) THEN a[i] ELSE b[i - Len(a)]
    BY ONLY <2>1, ConcatProperties
  <2>3. \A i \in 1 .. Len(a \o b) : (a \o b)[i] = c[i]
    BY ONLY <2>1, <2>2
  <2>4. a \o b = c
    BY ONLY <2>1, <2>2, <2>3, SeqEqual
  <2> QED
    BY <2>4 DEF a, b, c
<1>4. Append(q, f) = q \o <<f>> /\ Append(q, f) \in Seq(Frame)
  BY <1>1, AppendIsConcat, AppendProperties
<1>5. Append(Append(q, f), g) = (q \o <<f>>) \o <<g>>
  BY <1>4, AppendIsConcat
<1>6. (q \o <<f>>) \o <<g>> = q \o (<<f>> \o <<g>>)
  BY <1>1, <1>2, <1>3, ConcatAssociative
<1> QED
  BY <1>3, <1>5, <1>6 DEF q

-----------------------------------------------------------------------------
(* Who flushes a queue *)

\* The lists and stacks, without what the coroutines do.
Shape ==
    /\ points \in [Points -> Seq(Coroutines)]
    /\ queue \in [Threads -> Seq(Coroutines)]
    /\ active \in [Threads -> BOOLEAN]
    /\ stack \in [Threads -> Seq(Frame)]

Installs(s) == {d \in 1 .. Len(s) : s[d].runs = NoOne}

\* What QueueIsServed says of a thread with the stack s.
Served(a, q, s) ==
    /\ a <=> Installs(s) # {}
    /\ q # <<>> => a
    /\ \A d \in Installs(s) : s[d].prev <=> \E e \in Installs(s) : e < d

\* A coroutine is resumed.
LEMMA CoroutineOnTop ==
    ASSUME NEW a \in BOOLEAN, NEW q, NEW s \in Seq(Frame), NEW c \in Coroutines, Served(a, q, s)
    PROVE  Served(a, q, Append(s, CoroFrame(c)))
<1> DEFINE r == Append(s, CoroFrame(c))
<1>1. /\ Len(r) = Len(s) + 1 /\ Len(s) \in Nat /\ \A d \in 1 .. Len(s) : r[d] = s[d]
      /\ r[Len(s) + 1].runs = c /\ c # NoOne
  BY Pushed, FrameTypes
<1> HIDE DEF r
<1>2. Installs(r) = Installs(s)
  BY <1>1 DEF Installs
<1>3. \A d \in Installs(s) : r[d] = s[d]
  BY <1>1 DEF Installs
<1> QED
  BY <1>2, <1>3 DEF Served, r

\* A coroutine suspends or returns.
LEMMA CoroutineAway ==
    ASSUME NEW a \in BOOLEAN, NEW q, NEW s \in Seq(Frame), s # <<>>, Last(s).runs # NoOne, Served(a, q, s)
    PROVE  Served(a, q, Front(s))
<1> DEFINE r == Front(s)
<1>1. Len(r) + 1 = Len(s) /\ Len(r) \in Nat /\ Last(s) = s[Len(s)] /\ \A d \in 1 .. Len(r) : r[d] = s[d]
  BY Popped
<1> HIDE DEF r
<1>2. Installs(r) = Installs(s)
  BY <1>1 DEF Installs
<1>3. \A d \in Installs(r) : r[d] = s[d]
  BY <1>1 DEF Installs
<1> QED
  BY <1>2, <1>3 DEF Served, r

\* install_queue_and_call is called: it keeps whether there was a queue.
LEMMA InstallOnTop ==
    ASSUME NEW a \in BOOLEAN, NEW q, NEW s \in Seq(Frame), Served(a, q, s),
           NEW f \in Frame, f.runs = NoOne, f.prev = a, NEW o
    PROVE  Served(TRUE, o, Append(s, f))
<1> DEFINE r == Append(s, f)
<1>1. /\ Len(r) = Len(s) + 1 /\ Len(s) \in Nat /\ \A d \in 1 .. Len(s) : r[d] = s[d]
      /\ r[Len(s) + 1] = f
  BY Pushed
<1> HIDE DEF r
<1>2. Installs(r) = Installs(s) \cup {Len(s) + 1}
  BY <1>1 DEF Installs
<1>3. \A d \in Installs(s) : r[d] = s[d] /\ d < Len(s) + 1 /\ d \in Nat
  BY <1>1 DEF Installs
<1>4. Installs(r) # {}
  BY <1>2
<1>5. ASSUME NEW d \in Installs(r) PROVE r[d].prev <=> \E e \in Installs(r) : e < d
  <2>1. CASE d = Len(s) + 1
    <3>1. \A e \in Installs(r) : e < d <=> e \in Installs(s)
      <4>1. d = Len(s) + 1 /\ Len(s) \in Nat /\ Installs(r) = Installs(s) \cup {Len(s) + 1}
        BY <1>1, <1>2, <2>1
      <4> QED
        BY ONLY <1>3, <4>1
    <3>4. (\E e \in Installs(r) : e < d) <=> Installs(s) # {}
      BY ONLY <1>2, <3>1
    <3>2. r[d].prev = a /\ (a <=> Installs(s) # {})
      BY <1>1, <2>1 DEF Served
    <3> QED
      BY <3>2, <3>4
  <2>2. CASE d \in Installs(s)
    <3>1. (\E e \in Installs(r) : e < d) <=> \E e \in Installs(s) : e < d
      BY <1>1, <1>2, <1>3, <2>2
    <3>2. r[d] = s[d] /\ (s[d].prev <=> \E e \in Installs(s) : e < d)
      BY <1>3, <2>2 DEF Served
    <3> QED
      BY <3>1, <3>2
  <2> QED
    BY <1>2, <2>1, <2>2
<1> QED
  BY ONLY <1>4, <1>5 DEF Served, r

\* install_queue_and_call returns, with an empty queue.
LEMMA InstallAway ==
    ASSUME NEW a \in BOOLEAN, NEW q, NEW s \in Seq(Frame), s # <<>>, Last(s).runs = NoOne, Served(a, q, s)
    PROVE  Served(Last(s).prev, <<>>, Front(s))
<1> DEFINE r == Front(s)
<1>1. Len(r) + 1 = Len(s) /\ Len(r) \in Nat /\ Last(s) = s[Len(s)] /\ \A d \in 1 .. Len(r) : r[d] = s[d]
  BY Popped
<1> HIDE DEF r
<1>2. Installs(s) = Installs(r) \cup {Len(s)}
  BY <1>1 DEF Installs
<1>3. \A d \in Installs(r) : r[d] = s[d] /\ d < Len(s) /\ d \in Nat
  BY <1>1 DEF Installs
<1>4. Last(s).prev <=> Installs(r) # {}
  <2>1. Last(s).prev <=> \E e \in Installs(s) : e < Len(s)
    BY <1>1, <1>2 DEF Served
  <2>2. (\E e \in Installs(s) : e < Len(s)) <=> Installs(r) # {}
    BY <1>1, <1>2, <1>3
  <2> QED
    BY <2>1, <2>2
<1>5. ASSUME NEW d \in Installs(r) PROVE r[d].prev <=> \E e \in Installs(r) : e < d
  <2>1. (\E e \in Installs(s) : e < d) <=> \E e \in Installs(r) : e < d
    BY <1>1, <1>2, <1>3
  <2>2. r[d] = s[d] /\ (s[d].prev <=> \E e \in Installs(s) : e < d)
    BY <1>2, <1>3 DEF Served
  <2> QED
    BY <2>1, <2>2
<1> QED
  BY ONLY <1>4, <1>5 DEF Served, r

\* install_queue_and_call goes on.
LEMMA InstallStays ==
    ASSUME NEW a \in BOOLEAN, NEW q, NEW s \in Seq(Frame), s # <<>>, Last(s).runs = NoOne, Served(a, q, s),
           NEW f \in Frame, f.runs = NoOne, f.prev = Last(s).prev
    PROVE  a = TRUE /\ Served(a, q, Append(Front(s), f))
<1> DEFINE r == Append(Front(s), f)
<1>1. /\ Len(r) = Len(s) /\ Len(s) \in Nat \ {0} /\ Last(s) = s[Len(s)]
      /\ \A d \in 1 .. Len(s) : r[d] = IF d = Len(s) THEN f ELSE s[d]
  BY Replaced, Popped
<1> HIDE DEF r
<1>2. Installs(r) = Installs(s)
  BY <1>1 DEF Installs
<1>3. \A d \in Installs(s) : r[d].prev = s[d].prev
  BY <1>1 DEF Installs
<1>4. Len(s) \in Installs(s)
  BY <1>1 DEF Installs
<1>5. a = TRUE
  BY <1>4 DEF Served
<1> QED
  BY <1>2, <1>3, <1>5 DEF Served, r

LEMMA OtherQueue ==
    ASSUME NEW q, NEW s, Served(TRUE, q, s), NEW o
    PROVE  Served(TRUE, o, s)
BY DEF Served

Sound == Shape /\ QueueIsServed

\* What a step of one thread has to keep.
LEMMA Local ==
    ASSUME Sound, NEW t \in Threads, NEW a \in BOOLEAN, NEW q \in Seq(Coroutines), NEW s \in Seq(Frame),
           points' \in [Points -> Seq(Coroutines)],
           active' = [active EXCEPT ![t] = a], queue' = [queue EXCEPT ![t] = q],
           stack' = [stack EXCEPT ![t] = s], Served(a, q, s)
    PROVE  Sound'
<1>1. Shape'
  BY DEF Sound, Shape
<1>2. \A u \in Threads : /\ active'[u] = IF u = t THEN a ELSE active[u]
                         /\ queue'[u] = IF u = t THEN q ELSE queue[u]
                         /\ stack'[u] = IF u = t THEN s ELSE stack[u]
  BY DEF Sound, Shape
<1>3. ASSUME NEW u \in Threads PROVE Served(active'[u], queue'[u], stack'[u])
  <2>1. CASE u = t
    BY <1>2, <2>1
  <2>2. CASE u # t
    <3>1. Served(active[u], queue[u], stack[u])
      BY DEF Sound, QueueIsServed, Served, Installs, Depth
    <3> QED
      BY <1>2, <2>2, <3>1
  <2> QED
    BY <2>1, <2>2
<1>4. QueueIsServed'
  BY <1>3 DEF QueueIsServed, Served, Installs, Depth
<1> QED
  BY <1>1, <1>4 DEF Sound

\* What it says of the thread that acts.
LEMMA Here ==
    ASSUME Sound, NEW t \in Threads
    PROVE  /\ active[t] \in BOOLEAN /\ queue[t] \in Seq(Coroutines) /\ stack[t] \in Seq(Frame)
           /\ Served(active[t], queue[t], stack[t])
           /\ active = [active EXCEPT ![t] = active[t]]
           /\ queue = [queue EXCEPT ![t] = queue[t]]
           /\ stack = [stack EXCEPT ![t] = stack[t]]
           /\ InCoroutine(t) => /\ stack[t] # <<>> /\ me(t) \in Coroutines
                                /\ Last(stack[t]).runs # NoOne
           /\ InInstaller(t) => /\ stack[t] # <<>> /\ Installer(t) \in Frame
                                /\ Installer(t) = Last(stack[t]) /\ Installer(t).runs = NoOne
<1>1. active[t] \in BOOLEAN /\ queue[t] \in Seq(Coroutines) /\ stack[t] \in Seq(Frame)
  BY DEF Sound, Shape
<1>2. Served(active[t], queue[t], stack[t])
  BY DEF Sound, QueueIsServed, Served, Installs, Depth
<1>3. /\ active = [active EXCEPT ![t] = active[t]]
      /\ queue = [queue EXCEPT ![t] = queue[t]]
      /\ stack = [stack EXCEPT ![t] = stack[t]]
  BY DEF Sound, Shape
<1>4. stack[t] # <<>> => Last(stack[t]) \in Frame
  BY <1>1, Popped
<1>5. stack[t] # <<>> => Last(stack[t]).runs \in Coroutines \cup {NoOne}
  BY <1>4, FrameTypes
<1> QED
  BY <1>1, <1>2, <1>3, <1>4, <1>5 DEF InCoroutine, InInstaller, Installer, me

\* Only suspend_points change.
LEMMA PointsOnly ==
    ASSUME Sound, points' \in [Points -> Seq(Coroutines)], UNCHANGED <<queue, active, stack>>
    PROVE  Sound'
<1>1. queue' = queue /\ active' = active /\ stack' = stack
  OBVIOUS
<1>2. Shape'
  BY <1>1 DEF Sound, Shape
<1>3. QueueIsServed <=> \A t \in Threads : Served(active[t], queue[t], stack[t])
  BY DEF QueueIsServed, Served, Installs, Depth
<1>4. QueueIsServed' <=> \A t \in Threads : Served(active'[t], queue'[t], stack'[t])
  BY DEF QueueIsServed, Served, Installs, Depth
<1> QED
  BY <1>1, <1>2, <1>3, <1>4 DEF Sound

\* The thread does what leaves its queue alone, or puts more into it.
LEMMA Queueing ==
    ASSUME Sound, NEW t \in Threads, NEW q \in Seq(Coroutines), active[t],
           points' \in [Points -> Seq(Coroutines)],
           queue' = [queue EXCEPT ![t] = q], NEW s \in Seq(Frame),
           stack' = [stack EXCEPT ![t] = s], Served(TRUE, queue[t], s), UNCHANGED active
    PROVE  Sound'
<1>1. active' = [active EXCEPT ![t] = TRUE]
  BY Here
<1>2. Served(TRUE, q, s)
  BY OtherQueue
<1> QED
  BY <1>1, <1>2, Local

\* A coroutine runs in the place of the one that suspends.
LEMMA Transferred ==
    ASSUME Sound, NEW t \in Threads, InCoroutine(t), NEW c \in Coroutines
    PROVE  LET s == Append(Front(stack[t]), CoroFrame(c))
           IN  s \in Seq(Frame) /\ Served(active[t], queue[t], s)
<1>1. /\ active[t] \in BOOLEAN /\ stack[t] \in Seq(Frame) /\ stack[t] # <<>>
      /\ Last(stack[t]).runs # NoOne /\ Served(active[t], queue[t], stack[t])
  BY Here
<1>2. Front(stack[t]) \in Seq(Frame) /\ Served(active[t], queue[t], Front(stack[t]))
  BY <1>1, CoroutineAway, Popped
<1>3. CoroFrame(c) \in Frame
  BY FrameTypes
<1> QED
  BY <1>1, <1>2, <1>3, CoroutineOnTop, AppendProperties

\* install_queue_and_call is called, on s.
LEMMA Installed ==
    ASSUME Sound, NEW t \in Threads, NEW s \in Seq(Frame), Served(active[t], queue[t], s),
           NEW handles \in Seq(Coroutines), NEW p \in Points \cup {NoOne}, Install(t, s, handles, p),
           NEW q \in Seq(Coroutines), queue' = [queue EXCEPT ![t] = q],
           points' \in [Points -> Seq(Coroutines)]
    PROVE  Sound'
<1> DEFINE f == InstallFrame(t, handles, p)
<1>1. f \in Frame /\ f.runs = NoOne /\ f.prev = active[t]
  BY InstallTypes DEF Sound, Shape
<1>2. /\ stack' = [stack EXCEPT ![t] = Append(s, f)]
      /\ active' = [active EXCEPT ![t] = TRUE]
  BY DEF Install
<1> HIDE DEF f
<1>3. active[t] \in BOOLEAN
  BY Here
<1>4. Served(TRUE, q, Append(s, f)) /\ Append(s, f) \in Seq(Frame)
  BY <1>1, <1>3, InstallOnTop, AppendProperties
<1> QED
  BY <1>2, <1>4, Local

\* Every step of a thread keeps it.
LEMMA SoundStep == Sound /\ [Next]_vars => Sound'
<1> SUFFICES ASSUME Sound, [Next]_vars PROVE Sound'
  OBVIOUS
<1>1. CASE UNCHANGED vars
  BY <1>1, PointsOnly DEF vars, Sound, Shape
<1>2. ASSUME NEW t \in Threads, NEW c \in Coroutines, NEW p \in Points, Detach(t, c, p) \/ Wake(t, c, p)
      PROVE  Sound'
  <2>1. Append(points[p], c) \in Seq(Coroutines)
    BY AppendProperties DEF Sound, Shape
  <2>2. points' \in [Points -> Seq(Coroutines)]
    BY <1>2, <2>1 DEF Detach, Wake, Sound, Shape
  <2>3. UNCHANGED <<queue, active, stack>>
    BY <1>2 DEF Detach, Wake
  <2> QED
    BY <2>2, <2>3, PointsOnly
<1>3. ASSUME NEW t \in Threads, NEW p \in Points, Self(t, p)
      PROVE  Sound'
  <2>1. me(t) \in Coroutines /\ points[p] \in Seq(Coroutines)
    BY <1>3, Here DEF Self, Sound, Shape
  <2>2. Append(points[p], me(t)) \in Seq(Coroutines)
    BY <2>1, AppendProperties
  <2>3. points' \in [Points -> Seq(Coroutines)] /\ UNCHANGED <<queue, active, stack>>
    BY <1>3, <2>2 DEF Self, Sound, Shape
  <2> QED
    BY <2>3, PointsOnly
<1>4. ASSUME NEW t \in Threads, NEW p \in Points, NEW r \in Points, Merge(t, p, r)
      PROVE  Sound'
  <2>1. points[p] \o points[r] \in Seq(Coroutines) /\ <<>> \in Seq(Coroutines)
    BY ConcatProperties, EmptySeq DEF Sound, Shape
  <2>2. points' \in [Points -> Seq(Coroutines)] /\ UNCHANGED <<queue, active, stack>>
    BY <1>4, <2>1 DEF Merge, Sound, Shape
  <2> QED
    BY <2>2, PointsOnly
<1>5. ASSUME NEW t \in Threads, NEW p \in Points, NEW r \in Points, CreatePoint(t, p, r)
      PROVE  Sound'
  <2>1. Reverse(points[p]) \in Seq(Coroutines) /\ <<>> \in Seq(Coroutines)
    BY Reversed, EmptySeq DEF Sound, Shape
  <2>2. points' \in [Points -> Seq(Coroutines)] /\ UNCHANGED <<queue, active, stack>>
    BY <1>5, <2>1 DEF CreatePoint, Sound, Shape
  <2> QED
    BY <2>2, PointsOnly
<1>6. ASSUME NEW t \in Threads, NEW p \in Points, Clear(t, p)
      PROVE  Sound'
  <2>1. /\ points' \in [Points -> Seq(Coroutines)] /\ points[p] \in Seq(Coroutines)
        /\ queue[t] \o points[p] \in Seq(Coroutines)
    BY <1>6, ConcatProperties, EmptySeq DEF Clear, Sound, Shape
  <2>2. /\ stack[t] \in Seq(Frame) /\ queue[t] \in Seq(Coroutines)
        /\ Served(active[t], queue[t], stack[t])
        /\ queue = [queue EXCEPT ![t] = queue[t]] /\ stack = [stack EXCEPT ![t] = stack[t]]
    BY Here
  <2>3. CASE /\ active[t] /\ UNCHANGED <<active, stack>>
             /\ queue' = [queue EXCEPT ![t] = queue[t] \o points[p]]
    <3>1. Served(TRUE, queue[t], stack[t]) /\ stack' = [stack EXCEPT ![t] = stack[t]] /\ UNCHANGED active
      BY <2>2, <2>3 DEF Served
    <3> QED
      BY <2>1, <2>2, <2>3, <3>1, Queueing
  <2>4. CASE ~active[t] /\ Install(t, stack[t], points[p], p) /\ UNCHANGED queue
    <3>1. queue' = [queue EXCEPT ![t] = queue[t]]
      BY <2>2, <2>4
    <3> QED
      BY <2>1, <2>2, <2>4, <3>1, Installed
  <2> QED
    BY <1>6, <2>3, <2>4 DEF Clear
<1>7. ASSUME NEW t \in Threads, NEW p \in Points, InstallAndResume(t, p)
      PROVE  Sound'
  <2>1. /\ points' \in [Points -> Seq(Coroutines)] /\ points[p] \in Seq(Coroutines)
        /\ Install(t, stack[t], points[p], p) /\ UNCHANGED queue
    BY <1>7, EmptySeq DEF InstallAndResume, Sound, Shape
  <2>2. /\ stack[t] \in Seq(Frame) /\ queue[t] \in Seq(Coroutines)
        /\ Served(active[t], queue[t], stack[t])
        /\ queue = [queue EXCEPT ![t] = queue[t]]
    BY Here
  <2> QED
    BY <2>1, <2>2, Installed
<1>8. ASSUME NEW t \in Threads, NEW p \in Points, Await(t, p)
      PROVE  Sound'
  <2> DEFINE c == me(t)
             out == Last(points[p])
             others == Front(points[p])
             queued == IF c \in Range(others) THEN others ELSE Append(others, c)
             o == queue[t] \o queued
  <2>1. /\ points' \in [Points -> Seq(Coroutines)] /\ points[p] \in Seq(Coroutines) /\ points[p] # <<>>
        /\ InCoroutine(t) /\ queue' = [queue EXCEPT ![t] = o]
    BY <1>8, EmptySeq DEF Await, Sound, Shape
  <2>2. /\ stack[t] \in Seq(Frame) /\ stack[t] # <<>> /\ Last(stack[t]).runs # NoOne
        /\ queue[t] \in Seq(Coroutines) /\ c \in Coroutines
        /\ active[t] \in BOOLEAN /\ Served(active[t], queue[t], stack[t])
    BY <2>1, Here
  <2>3. out \in Coroutines /\ others \in Seq(Coroutines) /\ Append(others, c) \in Seq(Coroutines)
    BY <2>1, <2>2, Shortened, AppendProperties
  <2>4. o \in Seq(Coroutines)
    BY <2>2, <2>3, ConcatProperties
  <2>5. CASE active[t] /\ Transfer(t, out) /\ UNCHANGED active
    <3>1. /\ stack' = [stack EXCEPT ![t] = Append(Front(stack[t]), CoroFrame(out))]
          /\ Append(Front(stack[t]), CoroFrame(out)) \in Seq(Frame)
          /\ Served(TRUE, queue[t], Append(Front(stack[t]), CoroFrame(out)))
      <4>1. /\ Append(Front(stack[t]), CoroFrame(out)) \in Seq(Frame)
            /\ Served(active[t], queue[t], Append(Front(stack[t]), CoroFrame(out)))
        BY <2>1, <2>3, Transferred
      <4> QED
        BY <2>5, <4>1 DEF Transfer, Served
    <3> HIDE DEF o, out
    <3> QED
      BY <2>1, <2>4, <2>5, <3>1, Queueing
  <2>6. CASE Install(t, Front(stack[t]), <<out>>, NoOne)
    <3>1. Front(stack[t]) \in Seq(Frame) /\ Served(active[t], queue[t], Front(stack[t]))
      BY <2>2, CoroutineAway, Popped
    <3>2. <<out>> \in Seq(Coroutines)
      BY <2>3
    <3> HIDE DEF o, out
    <3> QED
      BY <2>1, <2>4, <2>6, <3>1, <3>2, Installed
  <2> QED
    BY <1>8, <2>5, <2>6 DEF Await
<1>9. ASSUME NEW t \in Threads, NEW c \in Coroutines, Start(t, c)
      PROVE  Sound'
  <2>1. /\ stack[t] \in Seq(Frame) /\ queue[t] \in Seq(Coroutines) /\ active[t] \in BOOLEAN
        /\ Served(active[t], queue[t], stack[t])
        /\ queue = [queue EXCEPT ![t] = queue[t]] /\ active = [active EXCEPT ![t] = active[t]]
    BY Here
  <2>2. points' \in [Points -> Seq(Coroutines)] /\ queue' = [queue EXCEPT ![t] = queue[t]]
    BY <1>9, <2>1 DEF Start, Sound, Shape
  <2>3. CASE Push(t, CoroFrame(c)) /\ UNCHANGED active
    <3>1. /\ Append(stack[t], CoroFrame(c)) \in Seq(Frame)
          /\ Served(active[t], queue[t], Append(stack[t], CoroFrame(c)))
      BY <2>1, CoroutineOnTop, FrameTypes, AppendProperties
    <3>2. stack' = [stack EXCEPT ![t] = Append(stack[t], CoroFrame(c))] /\ active' = [active EXCEPT ![t] = active[t]]
      BY <2>1, <2>3 DEF Push
    <3> QED
      BY <2>1, <2>2, <3>1, <3>2, Local
  <2>4. CASE Install(t, stack[t], <<c>>, NoOne)
    <3>1. <<c>> \in Seq(Coroutines)
      OBVIOUS
    <3> QED
      BY <2>1, <2>2, <2>4, <3>1, Installed
  <2> QED
    BY <1>9, <2>3, <2>4 DEF Start
<1>10. ASSUME NEW t \in Threads, NEW c \in Coroutines, InCoroutine(t), Transfer(t, c),
              UNCHANGED <<points, active>>, NEW q \in Seq(Coroutines), queue' = [queue EXCEPT ![t] = q],
              active[t] \/ q = queue[t]
       PROVE  Sound'
  <2> DEFINE s == Append(Front(stack[t]), CoroFrame(c))
  <2>1. s \in Seq(Frame) /\ Served(active[t], queue[t], s) /\ stack' = [stack EXCEPT ![t] = s]
    BY <1>10, Transferred DEF Transfer
  <2>2. points' \in [Points -> Seq(Coroutines)]
    BY <1>10 DEF Sound, Shape
  <2> HIDE DEF s
  <2>3. active[t] \in BOOLEAN /\ active' = [active EXCEPT ![t] = active[t]]
    BY <1>10, Here
  <2>4. Served(active[t], q, s)
    BY <1>10, <2>1, <2>3 DEF Served
  <2> QED
    BY <1>10, <2>1, <2>2, <2>3, <2>4, Local
<1>11. ASSUME NEW t \in Threads, InCoroutine(t), Return(t), UNCHANGED <<points, queue, active>>
       PROVE  Sound'
  <2>1. /\ stack[t] \in Seq(Frame) /\ stack[t] # <<>> /\ Last(stack[t]).runs # NoOne
        /\ queue[t] \in Seq(Coroutines)
        /\ active[t] \in BOOLEAN /\ Served(active[t], queue[t], stack[t])
        /\ queue' = [queue EXCEPT ![t] = queue[t]] /\ active' = [active EXCEPT ![t] = active[t]]
    BY <1>11, Here
  <2>2. Front(stack[t]) \in Seq(Frame) /\ Served(active[t], queue[t], Front(stack[t]))
    BY <2>1, CoroutineAway, Popped
  <2>3. stack' = [stack EXCEPT ![t] = Front(stack[t])] /\ points' \in [Points -> Seq(Coroutines)]
    BY <1>11 DEF Return, Sound, Shape
  <2> QED
    BY <2>1, <2>2, <2>3, Local
<1>12. ASSUME NEW t \in Threads, NEW d \in Coroutines, AwaitCoroutine(t, d)
       PROVE  Sound'
  <2>1. InCoroutine(t) /\ Transfer(t, d) /\ UNCHANGED <<points, queue, active>>
    BY <1>12 DEF AwaitCoroutine
  <2>2. queue[t] \in Seq(Coroutines) /\ queue' = [queue EXCEPT ![t] = queue[t]]
    BY <2>1, Here
  <2> QED
    BY <1>10, <2>1, <2>2
<1>13. ASSUME NEW t \in Threads, Park(t) \/ \E d \in Coroutines \cup {Event} : AwaitOther(t, d)
       PROVE  Sound'
  BY <1>11, <1>13 DEF Park, AwaitOther
<1>14. ASSUME NEW t \in Threads, Pause(t)
       PROVE  Sound'
  <2> DEFINE rotated == Append(queue[t], me(t))
  <2>1. InCoroutine(t) /\ active[t] /\ Transfer(t, Head(rotated)) /\ UNCHANGED <<points, active>>
        /\ queue' = [queue EXCEPT ![t] = Tail(rotated)]
    BY <1>14 DEF Pause
  <2>2. rotated \in Seq(Coroutines) /\ rotated # <<>>
    BY <2>1, Here, AppendProperties
  <2> HIDE DEF rotated
  <2>3. Head(rotated) \in Coroutines /\ Tail(rotated) \in Seq(Coroutines)
    BY <2>2, Beheaded
  <2> QED
    BY <1>10, <2>1, <2>3
<1>15. ASSUME NEW t \in Threads, Finish(t)
       PROVE  Sound'
  <2> DEFINE c == me(t)
             ws == {w \in Coroutines : waits[w] = c}
  <2>1. InCoroutine(t) /\ UNCHANGED points
    BY <1>15 DEF Finish
  <2>2. CASE Return(t) /\ UNCHANGED <<queue, active>>
    BY <1>11, <2>1, <2>2
  <2>3. ASSUME NEW out \in ws, NEW rest \in SetToSeqs(ws \ {out}),
               \/ /\ active[t] \/ rest = <<>>
                  /\ queue' = [queue EXCEPT ![t] = queue[t] \o rest]
                  /\ Transfer(t, out)
                  /\ UNCHANGED active
               \/ /\ Install(t, Append(Front(stack[t]), CoroFrame(out)), rest, NoOne)
                  /\ UNCHANGED queue
        PROVE  Sound'
    <3>1. IsFiniteSet(ws \ {out}) /\ out \in Coroutines /\ ws \ {out} \subseteq Coroutines
      BY CoroutinesAssumption, FS_Subset
    <3>2. rest \in Seq(Coroutines)
      <4> HIDE DEF ws
      <4>1. rest \in Seq(ws \ {out})
        BY <3>1, Listed
      <4> QED
        BY ONLY <3>1, <4>1
    <3>3. /\ queue[t] \in Seq(Coroutines) /\ active[t] \in BOOLEAN
          /\ queue = [queue EXCEPT ![t] = queue[t]]
      BY Here
    <3> HIDE DEF ws
    <3>4. queue[t] \o rest \in Seq(Coroutines) /\ (rest = <<>> => queue[t] \o rest = queue[t])
      BY <3>2, <3>3, ConcatProperties, ConcatEmptySeq
    <3>5. CASE /\ active[t] \/ rest = <<>>
               /\ queue' = [queue EXCEPT ![t] = queue[t] \o rest]
               /\ Transfer(t, out)
               /\ UNCHANGED active
      <4>1. active[t] \/ queue[t] \o rest = queue[t]
        BY <3>4, <3>5
      <4> QED
        BY <1>10, <2>1, <3>1, <3>4, <3>5, <4>1
    <3>6. CASE /\ Install(t, Append(Front(stack[t]), CoroFrame(out)), rest, NoOne)
               /\ UNCHANGED queue
      <4> DEFINE s == Append(Front(stack[t]), CoroFrame(out))
      <4>1. s \in Seq(Frame) /\ Served(active[t], queue[t], s)
        BY <2>1, <3>1, Transferred
      <4>2. queue' = [queue EXCEPT ![t] = queue[t]] /\ points' \in [Points -> Seq(Coroutines)]
            /\ Install(t, s, rest, NoOne)
        BY <2>1, <3>3, <3>6 DEF Sound, Shape
      <4> HIDE DEF s
      <4> QED
        BY <3>2, <3>3, <4>1, <4>2, Installed
    <3> QED
      BY <2>3, <3>5, <3>6
  <2> QED
    BY <1>15, <2>2, <2>3 DEF Finish
<1>16. ASSUME NEW t \in Threads, NEW c \in Coroutines, Push(t, CoroFrame(c)),
              UNCHANGED <<points, active>>, NEW q \in Seq(Coroutines), queue' = [queue EXCEPT ![t] = q],
              active[t] \/ q = queue[t]
       PROVE  Sound'
  <2> DEFINE s == Append(stack[t], CoroFrame(c))
  <2>1. /\ stack[t] \in Seq(Frame) /\ active[t] \in BOOLEAN
        /\ Served(active[t], queue[t], stack[t])
        /\ active' = [active EXCEPT ![t] = active[t]]
    BY <1>16, Here
  <2>2. s \in Seq(Frame) /\ Served(active[t], queue[t], s) /\ stack' = [stack EXCEPT ![t] = s]
    BY <1>16, <2>1, CoroutineOnTop, FrameTypes, AppendProperties DEF Push
  <2> HIDE DEF s
  <2>3. Served(active[t], q, s) /\ points' \in [Points -> Seq(Coroutines)]
    BY <1>16, <2>1, <2>2 DEF Served, Sound, Shape
  <2> QED
    BY <1>16, <2>1, <2>2, <2>3, Local
<1>17. ASSUME NEW t \in Threads, NEW c \in Coroutines, Parallel(t, c)
       PROVE  Sound'
  <2>1. Push(t, CoroFrame(c)) /\ UNCHANGED <<points, queue, active>>
    BY <1>17 DEF Parallel
  <2>2. queue[t] \in Seq(Coroutines) /\ queue' = [queue EXCEPT ![t] = queue[t]]
    BY <2>1, Here
  <2> QED
    BY <1>16, <2>1, <2>2
<1>18. ASSUME NEW t \in Threads, Flush(t)
       PROVE  Sound'
  <2>1. /\ InInstaller(t) /\ queue[t] # <<>> /\ queue' = [queue EXCEPT ![t] = Tail(queue[t])]
        /\ Push(t, CoroFrame(Head(queue[t]))) /\ UNCHANGED <<points, active>>
    BY <1>18 DEF Flush
  <2>2. queue[t] \in Seq(Coroutines) /\ Served(active[t], queue[t], stack[t])
    BY Here
  <2>3. Head(queue[t]) \in Coroutines /\ Tail(queue[t]) \in Seq(Coroutines) /\ active[t]
    BY <2>1, <2>2, Beheaded DEF Served
  <2> QED
    BY <1>16, <2>1, <2>3
<1>19. ASSUME NEW t \in Threads, ResumeNext(t)
       PROVE  Sound'
  <2> DEFINE f == Installer(t)
             c == Head(f.rest)
             g == [f EXCEPT !.rest = Tail(f.rest)]
             s == Append(Front(stack[t]), g)
  <2>1. /\ InInstaller(t) /\ f.rest # <<>> /\ UNCHANGED <<points, queue, active>>
        /\ stack' = [stack EXCEPT ![t] = Front(stack[t]) \o <<g, CoroFrame(c)>>]
    BY <1>19 DEF ResumeNext
  <2>2. /\ stack[t] \in Seq(Frame) /\ stack[t] # <<>> /\ f \in Frame /\ f = Last(stack[t]) /\ f.runs = NoOne
        /\ queue[t] \in Seq(Coroutines) /\ queue' = [queue EXCEPT ![t] = queue[t]]
        /\ active[t] \in BOOLEAN /\ active' = [active EXCEPT ![t] = active[t]]
        /\ Served(active[t], queue[t], stack[t])
    BY <2>1, Here
  <2> HIDE DEF f
  <2>3. f.rest \in Seq(Coroutines)
    BY <2>2, FrameTypes
  <2>4. c \in Coroutines /\ Tail(f.rest) \in Seq(Coroutines)
    BY <2>1, <2>3, Beheaded
  <2>5. g \in Frame /\ g.runs = NoOne /\ g.prev = f.prev
    BY <2>1, <2>2, <2>4, CoroutinesAssumption DEF Frame
  <2>6. CoroFrame(c) \in Frame
    BY <2>4, FrameTypes
  <2> HIDE DEF g, c
  <2>7. s \in Seq(Frame) /\ Served(active[t], queue[t], s)
    <3>1. s \in Seq(Frame)
      BY <2>2, <2>5, Replaced
    <3>2. Served(active[t], queue[t], s)
      BY <2>2, <2>5, InstallStays
    <3> QED
      BY <3>1, <3>2
  <2>8. stack' = [stack EXCEPT ![t] = Append(s, CoroFrame(c))]
    <3>1. Front(stack[t]) \o <<g, CoroFrame(c)>> = Append(Append(Front(stack[t]), g), CoroFrame(c))
      BY ONLY <2>2, <2>5, <2>6, Resumed
    <3> QED
      BY <2>1, <3>1
  <2> HIDE DEF s
  <2>9. Append(s, CoroFrame(c)) \in Seq(Frame) /\ Served(active[t], queue[t], Append(s, CoroFrame(c)))
    BY <2>2, <2>4, <2>6, <2>7, CoroutineOnTop, AppendProperties
  <2>10. points' \in [Points -> Seq(Coroutines)]
    BY <2>1 DEF Sound, Shape
  <2> QED
    BY <2>2, <2>8, <2>9, <2>10, Local
<1>20. ASSUME NEW t \in Threads, Uninstall(t)
       PROVE  Sound'
  <2>1. /\ InInstaller(t) /\ queue[t] = <<>> /\ UNCHANGED <<points, queue>>
        /\ active' = [active EXCEPT ![t] = Installer(t).prev]
        /\ stack' = [stack EXCEPT ![t] = Front(stack[t])]
    BY <1>20 DEF Uninstall, Return
  <2>2. /\ stack[t] \in Seq(Frame) /\ stack[t] # <<>>
        /\ Installer(t) \in Frame /\ Installer(t) = Last(stack[t]) /\ Last(stack[t]).runs = NoOne
        /\ queue[t] \in Seq(Coroutines) /\ queue' = [queue EXCEPT ![t] = queue[t]]
        /\ active[t] \in BOOLEAN /\ Served(active[t], queue[t], stack[t])
    BY <2>1, Here
  <2>3. Installer(t).prev \in BOOLEAN /\ Front(stack[t]) \in Seq(Frame)
    BY <2>2, FrameTypes, Popped
  <2>4. Served(Installer(t).prev, queue[t], Front(stack[t]))
    BY <2>1, <2>2, InstallAway
  <2>5. points' \in [Points -> Seq(Coroutines)]
    BY <2>1 DEF Sound, Shape
  <2> DEFINE e == Installer(t).prev
             s == Front(stack[t])
  <2>6. /\ e \in BOOLEAN /\ s \in Seq(Frame) /\ Served(e, queue[t], s)
        /\ active' = [active EXCEPT ![t] = e] /\ stack' = [stack EXCEPT ![t] = s]
    BY <2>1, <2>3, <2>4
  <2> HIDE DEF e, s
  <2> QED
    BY ONLY Sound, <2>2, <2>5, <2>6, Local
<1>21. CASE Next
  <2>1. PICK t \in Threads : InstallerStep(t) \/ Leave(t) \/ Other(t)
    BY <1>21 DEF Next
  <2>2. CASE InstallerStep(t)
    BY <1>18, <1>19, <1>20, <2>2 DEF InstallerStep
  <2>3. CASE Leave(t)
    BY <1>13, <1>15, <2>3 DEF Leave
  <2>4. CASE Other(t)
    BY <1>2, <1>3, <1>4, <1>5, <1>6, <1>7, <1>8, <1>9, <1>12, <1>14, <1>17, <2>4 DEF Other
  <2> QED
    BY <2>1, <2>2, <2>3, <2>4
<1> QED
  BY <1>1, <1>21

LEMMA SoundInit == Init => Sound
<1> SUFFICES ASSUME Init PROVE Sound
  OBVIOUS
<1>1. Shape
  BY EmptySeq DEF Init, Shape
<1>2. \A t \in Threads : stack[t] = <<>> /\ queue[t] = <<>> /\ active[t] = FALSE
  BY DEF Init
<1>3. QueueIsServed
  BY <1>2 DEF QueueIsServed, Depth
<1> QED
  BY <1>1, <1>3 DEF Sound

\* Coroutines in the queue of a thread have an install_queue_and_call under them that
\* flushes it, and a thread has the queue exactly where there is one (coro_queue.h).
THEOREM QueuesAreServed == Spec => []QueueIsServed
<1>1. Sound => QueueIsServed
  BY DEF Sound
<1> QED
  BY <1>1, SoundInit, SoundStep, PTL DEF Spec

-----------------------------------------------------------------------------
(* Handles and frames of a state *)

HandlesOf(P, Q, S) ==
    [h \in Holders |-> IF h[1] = "point" THEN P[h[2]]
                       ELSE IF h[1] = "queue" THEN Q[h[2]] ELSE RestOf(S[h[2][1]], h[2][2])]

\* The handles in each holder.
Handles == HandlesOf(points, queue, stack)

LEMMA HolderTypes ==
    /\ \A p \in Points : InPoint(p) \in Holders /\ InPoint(p)[1] = "point" /\ InPoint(p)[2] = p
    /\ \A t \in Threads : InQueue(t) \in Holders /\ InQueue(t)[1] = "queue" /\ InQueue(t)[2] = t
    /\ \A t \in Threads, d \in Nat : InFrame(t, d) \in Holders /\ InFrame(t, d)[1] = "frame"
                                     /\ InFrame(t, d)[2] = <<t, d>>
                                     /\ InFrame(t, d)[2][1] = t /\ InFrame(t, d)[2][2] = d
<1>1. \A p \in Points : InPoint(p) \in Holders /\ InPoint(p)[1] = "point" /\ InPoint(p)[2] = p
  BY DEF Holders, InPoint
<1>2. \A t \in Threads : InQueue(t) \in Holders /\ InQueue(t)[1] = "queue" /\ InQueue(t)[2] = t
  BY DEF Holders, InQueue
<1>3. \A t \in Threads, d \in Nat : InFrame(t, d) \in Holders /\ InFrame(t, d)[1] = "frame"
                                     /\ InFrame(t, d)[2] = <<t, d>>
                                     /\ InFrame(t, d)[2][1] = t /\ InFrame(t, d)[2][2] = d
  BY DEF Holders, InFrame
<1> QED
  BY <1>1, <1>2, <1>3

\* What holds of the three kinds of holders holds of each of them.
LEMMA Kinds ==
    ASSUME NEW h \in Holders
    PROVE  \/ \E p \in Points : h = InPoint(p)
           \/ \E t \in Threads : h = InQueue(t)
           \/ \E t \in Threads, d \in Nat : h = InFrame(t, d)
BY DEF Holders

LEMMA Separate ==
    /\ \A p, r \in Points : InPoint(p) = InPoint(r) => p = r
    /\ \A t, u \in Threads : InQueue(t) = InQueue(u) => t = u
    /\ \A t, u \in Threads : \A d, e \in Nat : InFrame(t, d) = InFrame(u, e) => t = u /\ d = e
    /\ \A p \in Points, t \in Threads, u \in Threads, d \in Nat :
          InPoint(p) # InQueue(t) /\ InPoint(p) # InFrame(t, d) /\ InQueue(t) # InFrame(u, d)
<1>1. \A p, r \in Points : InPoint(p) = InPoint(r) => p = r
  BY HolderTypes
<1>2. \A t, u \in Threads : InQueue(t) = InQueue(u) => t = u
  BY HolderTypes
<1>3. \A t, u \in Threads : \A d, e \in Nat : InFrame(t, d) = InFrame(u, e) => t = u /\ d = e
  BY HolderTypes
<1>4. \A p \in Points, t \in Threads, u \in Threads, d \in Nat :
          InPoint(p) # InQueue(t) /\ InPoint(p) # InFrame(t, d) /\ InQueue(t) # InFrame(u, d)
  <2>1. "point" # "queue" /\ "point" # "frame" /\ "queue" # "frame"
    OBVIOUS
  <2> QED
    BY ONLY <2>1, HolderTypes
<1> QED
  BY <1>1, <1>2, <1>3, <1>4

LEMMA InHolders ==
    ASSUME NEW P, NEW Q, NEW S
    PROVE  /\ \A p \in Points : HandlesOf(P, Q, S)[InPoint(p)] = P[p]
           /\ \A t \in Threads : HandlesOf(P, Q, S)[InQueue(t)] = Q[t]
           /\ \A t \in Threads, d \in Nat : HandlesOf(P, Q, S)[InFrame(t, d)] = RestOf(S[t], d)
           /\ DOMAIN HandlesOf(P, Q, S) = Holders /\ HandlesOf(P, Q, S) = [h \in Holders |-> HandlesOf(P, Q, S)[h]]
<1>1. "point" # "queue" /\ "point" # "frame" /\ "queue" # "frame"
  OBVIOUS
<1>2. \A p \in Points : HandlesOf(P, Q, S)[InPoint(p)] = P[p]
  BY ONLY HolderTypes DEF HandlesOf
<1>3. \A t \in Threads : HandlesOf(P, Q, S)[InQueue(t)] = Q[t]
  BY ONLY <1>1, HolderTypes DEF HandlesOf
<1>4. \A t \in Threads, d \in Nat : HandlesOf(P, Q, S)[InFrame(t, d)] = RestOf(S[t], d)
  BY ONLY <1>1, HolderTypes DEF HandlesOf
<1>5. DOMAIN HandlesOf(P, Q, S) = Holders /\ HandlesOf(P, Q, S) = [h \in Holders |-> HandlesOf(P, Q, S)[h]]
  BY DEF HandlesOf
<1> QED
  BY ONLY <1>2, <1>3, <1>4, <1>5

\* Handles are where they are, and nowhere else.
LEMMA SameHandles ==
    ASSUME NEW L, NEW M, L = [h \in Holders |-> L[h]], M = [h \in Holders |-> M[h]],
           \A p \in Points : L[InPoint(p)] = M[InPoint(p)],
           \A t \in Threads : L[InQueue(t)] = M[InQueue(t)],
           \A t \in Threads, d \in Nat : L[InFrame(t, d)] = M[InFrame(t, d)]
    PROVE  L = M
<1>1. \A h \in Holders : L[h] = M[h]
  BY Kinds
<1>2. [h \in Holders |-> L[h]] = [h \in Holders |-> M[h]]
  BY ONLY <1>1
<1> QED
  BY ONLY <1>2, L = [h \in Holders |-> L[h]], M = [h \in Holders |-> M[h]]

\* G is F, but for the value of x.
Altered(F, x, v, G) == G = [F EXCEPT ![x] = v]

LEMMA PointChanges ==
    ASSUME NEW P, NEW Q, NEW S, DOMAIN P = Points, NEW p \in Points, NEW v,
           NEW P1, Altered(P, p, v, P1)
    PROVE  Altered(HandlesOf(P, Q, S), InPoint(p), v, HandlesOf(P1, Q, S))
<1> DEFINE A == HandlesOf(P, Q, S)
           L == HandlesOf(P1, Q, S)
           M == [A EXCEPT ![InPoint(p)] = v]
<1>0. P1[p] = v /\ \A r \in Points : r # p => P1[r] = P[r]
  BY DEF Altered
<1>1. /\ \A r \in Points : A[InPoint(r)] = P[r]
      /\ \A t \in Threads : A[InQueue(t)] = Q[t]
      /\ \A t \in Threads, d \in Nat : A[InFrame(t, d)] = RestOf(S[t], d)
      /\ DOMAIN A = Holders /\ A = [h \in Holders |-> A[h]]
  BY InHolders
<1>2. /\ \A r \in Points : L[InPoint(r)] = P1[r]
      /\ \A t \in Threads : L[InQueue(t)] = Q[t]
      /\ \A t \in Threads, d \in Nat : L[InFrame(t, d)] = RestOf(S[t], d)
      /\ L = [h \in Holders |-> L[h]]
  BY InHolders
<1> HIDE DEF A, L
<1>3. InPoint(p) \in Holders
  BY HolderTypes
<1>4. /\ M = [h \in Holders |-> M[h]] /\ M[InPoint(p)] = v
      /\ \A h \in Holders : h # InPoint(p) => M[h] = A[h]
  BY ONLY <1>1, <1>3
<1> HIDE DEF M
<1>5. \A r \in Points : L[InPoint(r)] = M[InPoint(r)]
  BY <1>0, <1>1, <1>2, <1>4, HolderTypes, Separate
<1>6. \A t \in Threads : L[InQueue(t)] = M[InQueue(t)]
  BY <1>1, <1>2, <1>4, HolderTypes, Separate
<1>7. ASSUME NEW t \in Threads, NEW d \in Nat PROVE L[InFrame(t, d)] = M[InFrame(t, d)]
  <2>1. InFrame(t, d) \in Holders /\ InFrame(t, d) # InPoint(p)
    BY HolderTypes, Separate
  <2> QED
    BY <1>1, <1>2, <1>4, <2>1
<1>8. L = M
  BY <1>2, <1>4, <1>5, <1>6, <1>7, SameHandles
<1> QED
  BY <1>8 DEF L, M, A, Altered

LEMMA QueueChanges ==
    ASSUME NEW P, NEW Q, NEW S, DOMAIN Q = Threads, NEW u \in Threads, NEW v,
           NEW Q1, Altered(Q, u, v, Q1)
    PROVE  Altered(HandlesOf(P, Q, S), InQueue(u), v, HandlesOf(P, Q1, S))
<1> DEFINE A == HandlesOf(P, Q, S)
           L == HandlesOf(P, Q1, S)
           M == [A EXCEPT ![InQueue(u)] = v]
<1>0. Q1[u] = v /\ \A t \in Threads : t # u => Q1[t] = Q[t]
  BY DEF Altered
<1>1. /\ \A r \in Points : A[InPoint(r)] = P[r]
      /\ \A t \in Threads : A[InQueue(t)] = Q[t]
      /\ \A t \in Threads, d \in Nat : A[InFrame(t, d)] = RestOf(S[t], d)
      /\ DOMAIN A = Holders /\ A = [h \in Holders |-> A[h]]
  BY InHolders
<1>2. /\ \A r \in Points : L[InPoint(r)] = P[r]
      /\ \A t \in Threads : L[InQueue(t)] = Q1[t]
      /\ \A t \in Threads, d \in Nat : L[InFrame(t, d)] = RestOf(S[t], d)
      /\ L = [h \in Holders |-> L[h]]
  BY InHolders
<1> HIDE DEF A, L
<1>3. InQueue(u) \in Holders
  BY HolderTypes
<1>4. /\ M = [h \in Holders |-> M[h]] /\ M[InQueue(u)] = v
      /\ \A h \in Holders : h # InQueue(u) => M[h] = A[h]
  BY ONLY <1>1, <1>3
<1> HIDE DEF M
<1>5. \A r \in Points : L[InPoint(r)] = M[InPoint(r)]
  BY <1>1, <1>2, <1>4, HolderTypes, Separate
<1>6. \A t \in Threads : L[InQueue(t)] = M[InQueue(t)]
  BY <1>0, <1>1, <1>2, <1>4, HolderTypes, Separate
<1>7. ASSUME NEW t \in Threads, NEW d \in Nat PROVE L[InFrame(t, d)] = M[InFrame(t, d)]
  <2>1. InFrame(t, d) \in Holders /\ InFrame(t, d) # InQueue(u)
    BY HolderTypes, Separate
  <2> QED
    BY <1>1, <1>2, <1>4, <2>1
<1>8. L = M
  BY <1>2, <1>4, <1>5, <1>6, <1>7, SameHandles
<1> QED
  BY <1>8 DEF L, M, A, Altered

\* The handles in frame k of s are v, the others as in r; and the coroutine that runs in it.
RestEdit(s, r, k, v) == \A d \in Nat : RestOf(s, d) = IF d = k THEN v ELSE RestOf(r, d)
RunEdit(s, r, k, v) == \A d \in Nat : RunOf(s, d) = IF d = k THEN v ELSE RunOf(r, d)
SameRest(s, r) == \A d \in Nat : RestOf(s, d) = RestOf(r, d)

\* Frame k of a thread has other handles now.
LEMMA FrameChanges ==
    ASSUME NEW P, NEW Q, NEW S, DOMAIN S = Threads, NEW u \in Threads, NEW s, NEW k \in Nat, NEW v,
           RestEdit(s, S[u], k, v), NEW S1, Altered(S, u, s, S1)
    PROVE  Altered(HandlesOf(P, Q, S), InFrame(u, k), v, HandlesOf(P, Q, S1))
<1> DEFINE A == HandlesOf(P, Q, S)
           L == HandlesOf(P, Q, S1)
           M == [A EXCEPT ![InFrame(u, k)] = v]
<1>0. S1[u] = s /\ \A t \in Threads : t # u => S1[t] = S[t]
  BY DEF Altered
<1>1. /\ \A r \in Points : A[InPoint(r)] = P[r]
      /\ \A t \in Threads : A[InQueue(t)] = Q[t]
      /\ \A t \in Threads, d \in Nat : A[InFrame(t, d)] = RestOf(S[t], d)
      /\ DOMAIN A = Holders /\ A = [h \in Holders |-> A[h]]
  BY ONLY InHolders
<1>2. /\ \A r \in Points : L[InPoint(r)] = P[r]
      /\ \A t \in Threads : L[InQueue(t)] = Q[t]
      /\ \A t \in Threads, d \in Nat : L[InFrame(t, d)] = RestOf(S1[t], d)
      /\ L = [h \in Holders |-> L[h]]
  BY ONLY InHolders
<1> HIDE DEF A, L
<1>3. InFrame(u, k) \in Holders
  BY HolderTypes
<1>4. /\ M = [h \in Holders |-> M[h]] /\ M[InFrame(u, k)] = v
      /\ \A h \in Holders : h # InFrame(u, k) => M[h] = A[h]
  BY ONLY <1>1, <1>3
<1> HIDE DEF M
<1>5. \A r \in Points : L[InPoint(r)] = M[InPoint(r)]
  <2> TAKE r \in Points
  <2>1. InPoint(r) \in Holders /\ InPoint(r) # InFrame(u, k)
    BY HolderTypes, Separate
  <2> QED
    BY ONLY <1>1, <1>2, <1>4, <2>1, r \in Points
<1>6. \A t \in Threads : L[InQueue(t)] = M[InQueue(t)]
  <2> TAKE t \in Threads
  <2>1. InQueue(t) \in Holders /\ InQueue(t) # InFrame(u, k)
    BY HolderTypes, Separate
  <2> QED
    BY ONLY <1>1, <1>2, <1>4, <2>1, t \in Threads
<1>7. ASSUME NEW t \in Threads, NEW d \in Nat PROVE L[InFrame(t, d)] = M[InFrame(t, d)]
  <2>1. InFrame(t, d) \in Holders /\ (InFrame(t, d) = InFrame(u, k) => t = u /\ d = k)
    BY HolderTypes, Separate
  <2>2. L[InFrame(t, d)] = RestOf(S1[t], d) /\ A[InFrame(t, d)] = RestOf(S[t], d)
    BY <1>1, <1>2
  <2>0. RestOf(s, d) = IF d = k THEN v ELSE RestOf(S[u], d)
    BY DEF RestEdit
  <2>3. CASE t = u /\ d = k
    BY ONLY <1>0, <1>4, <2>0, <2>1, <2>2, <2>3
  <2>4. CASE t = u /\ d # k
    BY ONLY <1>0, <1>4, <2>0, <2>1, <2>2, <2>4
  <2>5. CASE t # u
    BY <1>0, <1>4, <2>1, <2>2, <2>5
  <2> QED
    BY <2>3, <2>4, <2>5
<1>8. L = M
  BY ONLY <1>2, <1>4, <1>5, <1>6, <1>7, SameHandles
<1> QED
  BY <1>8 DEF L, M, A, Altered

\* A thread resumes or leaves coroutines only.
LEMMA FramesSame ==
    ASSUME NEW P, NEW Q, NEW S, DOMAIN S = Threads, NEW u \in Threads, NEW s, SameRest(s, S[u]),
           NEW S1, Altered(S, u, s, S1)
    PROVE  HandlesOf(P, Q, S1) = HandlesOf(P, Q, S)
<1> DEFINE A == HandlesOf(P, Q, S)
           L == HandlesOf(P, Q, S1)
<1>0. S1[u] = s /\ \A t \in Threads : t # u => S1[t] = S[t]
  BY DEF Altered
<1>1. /\ \A r \in Points : A[InPoint(r)] = P[r] /\ L[InPoint(r)] = P[r]
      /\ \A t \in Threads : A[InQueue(t)] = Q[t] /\ L[InQueue(t)] = Q[t]
      /\ \A t \in Threads, d \in Nat : A[InFrame(t, d)] = RestOf(S[t], d) /\ L[InFrame(t, d)] = RestOf(S1[t], d)
      /\ A = [h \in Holders |-> A[h]] /\ L = [h \in Holders |-> L[h]]
  BY ONLY InHolders
<1> HIDE DEF A, L
<1>2. \A t \in Threads, d \in Nat : L[InFrame(t, d)] = A[InFrame(t, d)]
  BY <1>0, <1>1 DEF SameRest
<1>3. L = A
  BY ONLY <1>1, <1>2, SameHandles
<1> QED
  BY <1>3 DEF L, A

-----------------------------------------------------------------------------
(* Who has a handle *)

\* No coroutine has two; one that is to be resumed has one, the others have none, but
\* one that runs may have left its own in a suspend_point.
Owed(s, L) ==
    /\ L \in Filled /\ Distinct(L)
    /\ \A c \in Coroutines : s[c] = "ready" => c \in Held(L)
    /\ \A c \in Held(L) : s[c] \in {"ready", "running"}
    /\ \A h \in Holders : h[1] # "point" => \A c \in Range(L[h]) : s[c] = "ready"

\* Those who are not in S do not change, or have no handle and need none, or have one and wait.
Steady(s, r, L, S) ==
    \A w \in Coroutines \ S : \/ r[w] = s[w]
                              \/ w \notin Held(L) /\ r[w] # "ready"
                              \/ w \in Held(L) /\ r[w] = "ready"

LEMMA HeldTypes ==
    ASSUME NEW L \in Filled
    PROVE  /\ \A c \in Held(L) : c \in Coroutines
           /\ \A h \in Holders : \A c \in Range(L[h]) : c \in Held(L) /\ c \in Coroutines
<1>1. \A h \in Holders : \A c \in Range(L[h]) : c \in Coroutines
  <2> TAKE h \in Holders
  <2>1. L[h] \in Seq(Coroutines)
    BY DEF Filled
  <2>2. Range(L[h]) \subseteq Coroutines
    <3>1. \A i \in DOMAIN L[h] : L[h][i] \in Coroutines
      BY <2>1
    <3> QED
      BY <3>1 DEF Range
  <2> QED
    BY <2>2
<1> QED
  BY <1>1 DEF Held

LEMMA OwedSame ==
    ASSUME NEW s, NEW r, NEW L, Owed(s, L), Steady(s, r, L, {})
    PROVE  Owed(r, L)
<1>1. \A c \in Held(L) : c \in Coroutines
  BY HeldTypes DEF Owed
<1>2. \A h \in Holders : \A c \in Range(L[h]) : c \in Held(L) /\ c \in Coroutines
  BY HeldTypes DEF Owed
<1>3. \A c \in Coroutines : r[c] = "ready" => c \in Held(L)
  BY DEF Owed, Steady
<1>4. \A c \in Held(L) : r[c] \in {"ready", "running"}
  BY <1>1 DEF Owed, Steady
<1>5. \A h \in Holders : h[1] # "point" => \A c \in Range(L[h]) : r[c] = "ready"
  BY <1>2 DEF Owed, Steady
<1> QED
  BY <1>3, <1>4, <1>5 DEF Owed

LEMMA OwedGains ==
    ASSUME NEW s, NEW r, NEW L, Owed(s, L), NEW h \in Holders, NEW S, S \subseteq Coroutines,
           NEW M, Gains(L, h, S, M), Steady(s, r, L, S),
           \A w \in S : r[w] = "ready" \/ (h[1] = "point" /\ r[w] = "running")
    PROVE  Owed(r, M)
<1>1. /\ \A c \in Held(L) : c \in Coroutines
      /\ \A g \in Holders : \A c \in Range(L[g]) : c \in Held(L) /\ c \in Coroutines
  BY HeldTypes DEF Owed
<1>2. \A c \in Coroutines : r[c] = "ready" => c \in Held(M)
  BY DEF Owed, Steady, Gains
<1>3. \A c \in Held(M) : r[c] \in {"ready", "running"}
  BY <1>1 DEF Owed, Steady, Gains
<1>4. ASSUME NEW g \in Holders, g[1] # "point", NEW c \in Range(M[g])
      PROVE  r[c] = "ready"
  <2>1. CASE c \in S
    <3>1. r[c] = "ready" \/ (h[1] = "point" /\ r[c] = "running")
      BY <2>1
    <3>2. CASE g = h
      BY <1>4, <3>1, <3>2
    <3>3. CASE g # h
      <4>1. c \in Range(L[g])
        BY <3>3 DEF Gains
      <4>2. s[c] = "ready" /\ c \in Held(L)
        BY <1>1, <1>4, <4>1 DEF Owed
      <4>3. c \in Range(M[h]) /\ c \in Range(M[g])
        BY <2>1, <4>1 DEF Gains
      <4> QED
        BY <3>3, <4>3 DEF Gains, Distinct
    <3> QED
      BY <3>2, <3>3
  <2>2. CASE c \notin S
    <3>1. c \in Range(L[g])
      BY <2>2 DEF Gains
    <3>2. s[c] = "ready" /\ c \in Held(L) /\ c \in Coroutines
      BY <1>1, <1>4, <3>1 DEF Owed
    <3> QED
      BY <2>2, <3>2 DEF Steady
  <2> QED
    BY <2>1, <2>2
<1>5. M \in Filled /\ Distinct(M)
  BY DEF Gains
<1> QED
  BY <1>2, <1>3, <1>4, <1>5 DEF Owed

LEMMA OwedTaken ==
    ASSUME NEW s, NEW r, NEW L, Owed(s, L), NEW h \in Holders, NEW c,
           NEW M, Taken(L, h, c, M), Steady(s, r, L, {c}), r[c] # "ready"
    PROVE  Owed(r, M)
<1>1. /\ \A w \in Held(L) : w \in Coroutines
      /\ \A g \in Holders : \A w \in Range(L[g]) : w \in Held(L) /\ w \in Coroutines
  BY HeldTypes DEF Owed
<1>2. \A w \in Coroutines : r[w] = "ready" => w \in Held(M)
  BY DEF Owed, Steady, Taken
<1>3. \A w \in Held(M) : r[w] \in {"ready", "running"}
  BY <1>1 DEF Owed, Steady, Taken
<1>4. ASSUME NEW g \in Holders, g[1] # "point", NEW w \in Range(M[g])
      PROVE  r[w] = "ready"
  <2>1. w \in Range(L[g]) /\ w # c
    BY DEF Taken
  <2>2. s[w] = "ready" /\ w \in Held(L) /\ w \in Coroutines
    BY <1>1, <1>4, <2>1 DEF Owed
  <2> QED
    BY <2>1, <2>2 DEF Steady
<1>5. M \in Filled /\ Distinct(M)
  BY DEF Taken
<1> QED
  BY <1>2, <1>3, <1>4, <1>5 DEF Owed

LEMMA OwedMoved ==
    ASSUME NEW s, NEW L, Owed(s, L), NEW a \in Holders, NEW b \in Holders,
           NEW M, Moved(L, a, b, M),
           b[1] = "point" \/ \A c \in Range(L[a]) : s[c] = "ready"
    PROVE  Owed(s, M)
<1>1. ASSUME NEW g \in Holders, g[1] # "point", NEW w \in Range(M[g])
      PROVE  s[w] = "ready"
  <2>1. CASE g = a
    BY <2>1 DEF Moved
  <2>2. CASE g # a /\ g = b
    BY <1>1, <2>2 DEF Moved, Owed
  <2>3. CASE g # a /\ g # b
    BY <1>1, <2>3 DEF Moved, Owed
  <2> QED
    BY <2>1, <2>2, <2>3
<1>2. M \in Filled /\ Distinct(M) /\ Held(M) = Held(L)
  BY DEF Moved
<1> QED
  BY <1>1, <1>2 DEF Owed

-----------------------------------------------------------------------------
(* Who runs *)

Spots == Threads \X Nat
RunsOf(S) == [x \in Spots |-> RunOf(S[x[1]], x[2])]
Runs == RunsOf(stack)

\* Each running coroutine is in one frame.
InFrames(s, R) ==
    /\ R \in [Spots -> Coroutines \cup {NoOne}]
    /\ \A x, y \in Spots : R[x] # NoOne /\ R[x] = R[y] => x = y
    /\ \A c \in Coroutines : s[c] = "running" <=> \E x \in Spots : R[x] = c

LEMMA Spot ==
    ASSUME NEW S, NEW t \in Threads, NEW d \in Nat
    PROVE  <<t, d>> \in Spots /\ RunsOf(S)[<<t, d>>] = RunOf(S[t], d)
BY DEF Spots, RunsOf

\* Frame k of a thread runs v now.
LEMMA RunChanges ==
    ASSUME NEW S, DOMAIN S = Threads, NEW u \in Threads, NEW s, NEW k \in Nat, NEW v,
           RunEdit(s, S[u], k, v), NEW S1, Altered(S, u, s, S1)
    PROVE  Altered(RunsOf(S), <<u, k>>, v, RunsOf(S1))
<1>0. S1[u] = s /\ \A t \in Threads : t # u => S1[t] = S[t]
  BY DEF Altered
<1>1. ASSUME NEW x \in Spots
      PROVE  RunOf(S1[x[1]], x[2]) = IF x = <<u, k>> THEN v ELSE RunOf(S[x[1]], x[2])
  <2>1. PICK t \in Threads, d \in Nat : x = <<t, d>>
    BY DEF Spots
  <2>2. x[1] = t /\ x[2] = d /\ (x = <<u, k>> <=> t = u /\ d = k)
    BY <2>1
  <2> QED
    BY <1>0, <2>2 DEF RunEdit
<1>2. RunsOf(S1) = [x \in Spots |-> IF x = <<u, k>> THEN v ELSE RunOf(S[x[1]], x[2])]
  BY <1>1 DEF RunsOf
<1>3. [RunsOf(S) EXCEPT ![<<u, k>>] = v] = [x \in Spots |-> IF x = <<u, k>> THEN v ELSE RunOf(S[x[1]], x[2])]
  BY DEF RunsOf
<1> QED
  BY <1>2, <1>3 DEF Altered

\* v runs where x was.
LEMMA Runner ==
    ASSUME NEW s, NEW R, InFrames(s, R), NEW x \in Spots, NEW v \in Coroutines \cup {NoOne},
           v = NoOne \/ s[v] # "running" \/ v = R[x],
           NEW M, Altered(R, x, v, M), NEW r,
           \A w \in Coroutines : r[w] = "running" <=> w = v \/ (s[w] = "running" /\ w # R[x])
    PROVE  InFrames(r, M)
<1>1. /\ M \in [Spots -> Coroutines \cup {NoOne}]
      /\ M[x] = v /\ \A y \in Spots : y # x => M[y] = R[y]
  BY DEF InFrames, Altered
<1>2. \A c \in Coroutines : s[c] = "running" <=> \E y \in Spots : R[y] = c
  BY DEF InFrames
<1>3. \A y, z \in Spots : R[y] # NoOne /\ R[y] = R[z] => y = z
  BY DEF InFrames
<1>4. \A y \in Spots : y # x /\ M[y] # NoOne => M[y] # v
  <2> SUFFICES ASSUME NEW y \in Spots, y # x, M[y] # NoOne, M[y] = v PROVE FALSE
    OBVIOUS
  <2>1. R[y] = v /\ v \in Coroutines
    BY <1>1
  <2>2. s[v] = "running"
    BY <1>2, <2>1
  <2>3. R[x] = v
    BY <2>1, <2>2, CoroutinesAssumption
  <2> QED
    BY <1>3, <2>1, <2>3
<1>5. \A y, z \in Spots : M[y] # NoOne /\ M[y] = M[z] => y = z
  <2> SUFFICES ASSUME NEW y \in Spots, NEW z \in Spots, M[y] # NoOne, M[y] = M[z], y # z PROVE FALSE
    OBVIOUS
  <2>1. CASE y = x
    BY <1>1, <1>4, <2>1
  <2>2. CASE z = x
    BY <1>1, <1>4, <2>2
  <2>3. CASE y # x /\ z # x
    BY <1>1, <1>3, <2>3
  <2> QED
    BY <2>1, <2>2, <2>3
<1>6. ASSUME NEW c \in Coroutines PROVE r[c] = "running" <=> \E y \in Spots : M[y] = c
  <2>1. CASE c = v
    BY <1>1, <2>1
  <2>2. CASE c # v /\ c = R[x]
    <3>1. r[c] # "running" /\ R[x] # NoOne
      BY <2>2, CoroutinesAssumption
    <3>2. \A y \in Spots : M[y] # c
      BY <1>1, <1>3, <2>2, <3>1
    <3> QED
      BY <3>1, <3>2
  <2>3. CASE c # v /\ c # R[x]
    <3>1. r[c] = "running" <=> \E y \in Spots : R[y] = c
      BY <1>2, <2>3
    <3>2. \A y \in Spots : R[y] = c <=> M[y] = c
      BY <1>1, <2>3
    <3> QED
      BY <3>1, <3>2
  <2> QED
    BY <2>1, <2>2, <2>3
<1> QED
  BY <1>1, <1>5, <1>6 DEF InFrames

LEMMA RunnersSame ==
    ASSUME NEW s, NEW R, InFrames(s, R), NEW r,
           \A w \in Coroutines : r[w] = "running" <=> s[w] = "running"
    PROVE  InFrames(r, R)
BY DEF InFrames

-----------------------------------------------------------------------------
(* Each coroutine has one place *)

Typed(s, w) ==
    /\ s \in [Coroutines -> States]
    /\ w \in [Coroutines -> Coroutines \cup {Event, NoOne}]
    /\ \A c \in Coroutines : s[c] = "waiting" <=> w[c] # NoOne

Once(s, w, L, R) == Typed(s, w) /\ Owed(s, L) /\ InFrames(s, R)

\* The same after a step.
OnceThen == Once(st', waits', HandlesOf(points', queue', stack'), RunsOf(stack'))

\* The invariant.
Single == Sound /\ Once(st, waits, Handles, Runs)

\* What is in each place.
LEMMA There ==
    ASSUME Single
    PROVE  /\ Typed(st, waits) /\ Owed(st, Handles) /\ InFrames(st, Runs) /\ Sound
           /\ DOMAIN points = Points /\ DOMAIN queue = Threads /\ DOMAIN stack = Threads
           /\ Handles \in Filled /\ Distinct(Handles)
           /\ \A p \in Points : Handles[InPoint(p)] = points[p] /\ points[p] \in Seq(Coroutines)
           /\ \A t \in Threads : Handles[InQueue(t)] = queue[t] /\ queue[t] \in Seq(Coroutines)
                                 /\ stack[t] \in Seq(Frame) /\ Len(stack[t]) \in Nat
           /\ \A t \in Threads, d \in Nat : Handles[InFrame(t, d)] = RestOf(stack[t], d)
                                            /\ <<t, d>> \in Spots /\ Runs[<<t, d>>] = RunOf(stack[t], d)
<1>1. /\ Typed(st, waits) /\ Owed(st, Handles) /\ InFrames(st, Runs) /\ Sound
      /\ DOMAIN points = Points /\ DOMAIN queue = Threads /\ DOMAIN stack = Threads
      /\ \A p \in Points : points[p] \in Seq(Coroutines)
      /\ \A t \in Threads : queue[t] \in Seq(Coroutines) /\ stack[t] \in Seq(Frame)
  BY DEF Single, Once, Sound, Shape
<1>2. Handles \in Filled /\ Distinct(Handles)
  BY <1>1 DEF Owed
<1>3. /\ \A p \in Points : Handles[InPoint(p)] = points[p]
      /\ \A t \in Threads : Handles[InQueue(t)] = queue[t]
      /\ \A t \in Threads, d \in Nat : Handles[InFrame(t, d)] = RestOf(stack[t], d)
  BY InHolders DEF Handles
<1>4. \A t \in Threads, d \in Nat : <<t, d>> \in Spots /\ Runs[<<t, d>>] = RunOf(stack[t], d)
  BY Spot DEF Runs
<1>5. \A t \in Threads : Len(stack[t]) \in Nat
  BY <1>1, LenProperties
<1> QED
  BY <1>1, <1>2, <1>3, <1>4, <1>5

\* The coroutine of the frame at the top.
LEMMA Mine ==
    ASSUME Single, NEW t \in Threads, InCoroutine(t)
    PROVE  /\ me(t) \in Coroutines /\ st[me(t)] = "running" /\ stack[t] \in Seq(Frame) /\ stack[t] # <<>>
           /\ Len(stack[t]) \in Nat /\ <<t, Len(stack[t])>> \in Spots
           /\ Runs[<<t, Len(stack[t])>>] = me(t) /\ RunOf(stack[t], Len(stack[t])) = me(t)
           /\ RestOf(stack[t], Len(stack[t])) = <<>>
           /\ Handles[InFrame(t, Len(stack[t]))] = <<>>
<1>1. stack[t] # <<>> /\ me(t) \in Coroutines /\ Last(stack[t]).runs # NoOne /\ stack[t] \in Seq(Frame)
  BY There, Here
<1>2. /\ RunOf(stack[t], Len(stack[t])) = Last(stack[t]).runs /\ Last(stack[t]) \in Frame
      /\ RestOf(stack[t], Len(stack[t])) = Last(stack[t]).rest
  BY <1>1, Popped
<1>3. Last(stack[t]).rest = <<>> /\ Last(stack[t]).runs = me(t)
  BY <1>1, <1>2, FrameTypes DEF me
<1>4. /\ Len(stack[t]) \in Nat /\ <<t, Len(stack[t])>> \in Spots
      /\ Runs[<<t, Len(stack[t])>>] = RunOf(stack[t], Len(stack[t]))
      /\ Handles[InFrame(t, Len(stack[t]))] = RestOf(stack[t], Len(stack[t]))
  BY There
<1>5. st[me(t)] = "running"
  BY <1>1, <1>2, <1>3, <1>4, There DEF InFrames
<1> QED
  BY <1>1, <1>2, <1>3, <1>4, <1>5

\* What is above a stack.
LEMMA Above ==
    ASSUME NEW s \in Seq(Frame)
    PROVE  Len(s) + 1 \in Nat /\ RunOf(s, Len(s) + 1) = NoOne /\ RestOf(s, Len(s) + 1) = <<>>
<1>1. Len(s) \in Nat
  BY LenProperties
<1>2. Len(s) + 1 \notin 1 .. Len(s) /\ Len(s) + 1 \in Nat
  BY ONLY <1>1
<1> QED
  BY ONLY <1>2 DEF RunOf, RestOf

\* The frame at the top is away.
LEMMA FrontStack ==
    ASSUME Single, NEW t \in Threads, InCoroutine(t), NEW P, NEW Q,
           NEW S, Altered(stack, t, Front(stack[t]), S)
    PROVE  /\ HandlesOf(P, Q, S) = HandlesOf(P, Q, stack)
           /\ Altered(Runs, <<t, Len(stack[t])>>, NoOne, RunsOf(S))
           /\ Front(stack[t]) \in Seq(Frame) /\ Len(Front(stack[t])) + 1 = Len(stack[t])
           /\ DOMAIN S = Threads /\ S[t] = Front(stack[t])
<1>1. /\ stack[t] \in Seq(Frame) /\ stack[t] # <<>> /\ Len(stack[t]) \in Nat
      /\ RestOf(stack[t], Len(stack[t])) = <<>> /\ DOMAIN stack = Threads
  BY Mine, There
<1>2. /\ Front(stack[t]) \in Seq(Frame) /\ Len(Front(stack[t])) + 1 = Len(stack[t])
      /\ \A d \in Nat : /\ RunOf(Front(stack[t]), d) = IF d = Len(stack[t]) THEN NoOne ELSE RunOf(stack[t], d)
                        /\ RestOf(Front(stack[t]), d) = IF d = Len(stack[t]) THEN <<>> ELSE RestOf(stack[t], d)
  BY <1>1, Popped
<1>3. /\ SameRest(Front(stack[t]), stack[t])
      /\ RunEdit(Front(stack[t]), stack[t], Len(stack[t]), NoOne)
  BY <1>1, <1>2 DEF SameRest, RunEdit
<1>4. HandlesOf(P, Q, S) = HandlesOf(P, Q, stack)
  BY <1>1, <1>3, FramesSame
<1>5. Altered(RunsOf(stack), <<t, Len(stack[t])>>, NoOne, RunsOf(S))
  BY <1>1, <1>3, RunChanges
<1> QED
  BY <1>1, <1>2, <1>4, <1>5 DEF Runs, Altered

\* c runs in the frame at the top.
LEMMA TransferStack ==
    ASSUME Single, NEW t \in Threads, InCoroutine(t), NEW P, NEW Q, NEW c \in Coroutines,
           NEW S, Altered(stack, t, Append(Front(stack[t]), CoroFrame(c)), S)
    PROVE  /\ HandlesOf(P, Q, S) = HandlesOf(P, Q, stack)
           /\ Altered(Runs, <<t, Len(stack[t])>>, c, RunsOf(S))
           /\ Append(Front(stack[t]), CoroFrame(c)) \in Seq(Frame)
           /\ Len(Append(Front(stack[t]), CoroFrame(c))) = Len(stack[t])
           /\ DOMAIN S = Threads /\ S[t] = Append(Front(stack[t]), CoroFrame(c))
<1> DEFINE s == Append(Front(stack[t]), CoroFrame(c))
<1>1. /\ stack[t] \in Seq(Frame) /\ stack[t] # <<>> /\ Len(stack[t]) \in Nat
      /\ RestOf(stack[t], Len(stack[t])) = <<>> /\ DOMAIN stack = Threads
  BY Mine, There
<1>2. CoroFrame(c) \in Frame /\ CoroFrame(c).runs = c /\ CoroFrame(c).rest = <<>>
  BY FrameTypes
<1>3. /\ s \in Seq(Frame) /\ Len(s) = Len(stack[t])
      /\ \A d \in Nat : /\ RunOf(s, d) = IF d = Len(stack[t]) THEN c ELSE RunOf(stack[t], d)
                        /\ RestOf(s, d) = IF d = Len(stack[t]) THEN <<>> ELSE RestOf(stack[t], d)
  BY <1>1, <1>2, Replaced
<1>4. Altered(stack, t, s, S) /\ S[t] = s /\ DOMAIN S = Threads
  BY <1>1 DEF Altered
<1> HIDE DEF s
<1>5. SameRest(s, stack[t]) /\ RunEdit(s, stack[t], Len(stack[t]), c)
  BY <1>1, <1>3 DEF SameRest, RunEdit
<1>6. HandlesOf(P, Q, S) = HandlesOf(P, Q, stack)
  BY <1>1, <1>4, <1>5, FramesSame
<1>7. Altered(RunsOf(stack), <<t, Len(stack[t])>>, c, RunsOf(S))
  BY <1>1, <1>4, <1>5, RunChanges
<1> QED
  BY <1>3, <1>4, <1>6, <1>7 DEF Runs, s

\* A frame is put on the stack of t in T.
LEMMA PushHandles ==
    ASSUME NEW T, DOMAIN T = Threads, NEW t \in Threads, T[t] \in Seq(Frame), NEW f \in Frame,
           NEW S, Altered(T, t, Append(T[t], f), S), NEW P, NEW Q
    PROVE  /\ Altered(HandlesOf(P, Q, T), InFrame(t, Len(T[t]) + 1), f.rest, HandlesOf(P, Q, S))
           /\ f.rest = <<>> => HandlesOf(P, Q, S) = HandlesOf(P, Q, T)
<1> DEFINE r == Append(T[t], f)
           k == Len(T[t]) + 1
<1>1. RestEdit(r, T[t], k, f.rest)
  BY Pushed DEF RestEdit
<1>2. k \in Nat /\ RestOf(T[t], k) = <<>>
  BY Above
<1>3. Altered(T, t, r, S)
  OBVIOUS
<1> HIDE DEF r, k
<1>4. Altered(HandlesOf(P, Q, T), InFrame(t, k), f.rest, HandlesOf(P, Q, S))
  BY <1>1, <1>2, <1>3, FrameChanges
<1>5. f.rest = <<>> => HandlesOf(P, Q, S) = HandlesOf(P, Q, T)
  <2> SUFFICES ASSUME f.rest = <<>> PROVE HandlesOf(P, Q, S) = HandlesOf(P, Q, T)
    OBVIOUS
  <2>1. SameRest(r, T[t])
    BY <1>1, <1>2 DEF RestEdit, SameRest
  <2> QED
    BY <1>3, <2>1, FramesSame
<1> QED
  BY <1>4, <1>5 DEF k

LEMMA PushRuns ==
    ASSUME NEW T, DOMAIN T = Threads, NEW t \in Threads, T[t] \in Seq(Frame), NEW f \in Frame,
           NEW S, Altered(T, t, Append(T[t], f), S)
    PROVE  /\ Altered(RunsOf(T), <<t, Len(T[t]) + 1>>, f.runs, RunsOf(S))
           /\ <<t, Len(T[t]) + 1>> \in Spots /\ RunsOf(T)[<<t, Len(T[t]) + 1>>] = NoOne
<1> DEFINE r == Append(T[t], f)
           k == Len(T[t]) + 1
<1>1. RunEdit(r, T[t], k, f.runs)
  BY Pushed DEF RunEdit
<1>2. k \in Nat /\ RunOf(T[t], k) = NoOne
  BY Above
<1>3. Altered(T, t, r, S)
  OBVIOUS
<1> HIDE DEF r, k
<1>4. Altered(RunsOf(T), <<t, k>>, f.runs, RunsOf(S))
  BY <1>1, <1>2, <1>3, RunChanges
<1>5. <<t, k>> \in Spots /\ RunsOf(T)[<<t, k>>] = NoOne
  BY <1>2, Spot
<1> QED
  BY <1>4, <1>5 DEF k

\* It is not of a coroutine.
LEMMA PushNobody ==
    ASSUME NEW T, DOMAIN T = Threads, NEW t \in Threads, T[t] \in Seq(Frame), NEW f \in Frame,
           f.runs = NoOne, NEW S, Altered(T, t, Append(T[t], f), S)
    PROVE  RunsOf(S) = RunsOf(T)
<1> DEFINE x == <<t, Len(T[t]) + 1>>
<1>1. Altered(RunsOf(T), x, NoOne, RunsOf(S)) /\ x \in Spots /\ RunsOf(T)[x] = NoOne
  BY PushRuns
<1> HIDE DEF x
<1>2. RunsOf(T) = [y \in Spots |-> RunsOf(T)[y]]
  BY DEF RunsOf
<1> QED
  BY ONLY <1>1, <1>2 DEF Altered

\* Above the stack of a thread there are no handles.
LEMMA AboveHandles ==
    ASSUME NEW P, NEW Q, NEW T, NEW t \in Threads, T[t] \in Seq(Frame)
    PROVE  /\ InFrame(t, Len(T[t]) + 1) \in Holders
           /\ HandlesOf(P, Q, T)[InFrame(t, Len(T[t]) + 1)] = <<>>
           /\ \A p \in Points : InPoint(p) # InFrame(t, Len(T[t]) + 1)
<1> DEFINE k == Len(T[t]) + 1
<1>1. k \in Nat /\ RestOf(T[t], k) = <<>>
  BY Above
<1> HIDE DEF k
<1>2. InFrame(t, k) \in Holders /\ \A p \in Points : InPoint(p) # InFrame(t, k)
  BY <1>1, HolderTypes, Separate
<1>3. HandlesOf(P, Q, T)[InFrame(t, k)] = <<>>
  BY <1>1, InHolders
<1> QED
  BY <1>2, <1>3 DEF k

\* The places of a coroutine are those of its handles.
LEMMA Placed ==
    ASSUME Single, NEW c
    PROVE  /\ \A x \in Places(c) : \E h \in Holders : \E i \in DOMAIN Handles[h] :
                 Handles[h][i] = c /\ x = <<h[2], i>>
           /\ \A h \in Holders : \A i \in DOMAIN Handles[h] : Handles[h][i] = c => <<h[2], i>> \in Places(c)
<1>1. ASSUME NEW l \in Lists PROVE \E h \in Holders : l[1] = h[2] /\ l[2] = Handles[h]
  <2>1. CASE \E p \in Points : l = <<p, points[p]>>
    <3>1. PICK p \in Points : l = <<p, points[p]>>
      BY <2>1
    <3>2. InPoint(p) \in Holders /\ l[1] = InPoint(p)[2] /\ l[2] = Handles[InPoint(p)]
      BY <3>1, There, HolderTypes
    <3> QED
      BY <3>2
  <2>2. CASE \E t \in Threads : l = <<t, queue[t]>>
    <3>1. PICK t \in Threads : l = <<t, queue[t]>>
      BY <2>2
    <3>2. InQueue(t) \in Holders /\ l[1] = InQueue(t)[2]
      BY <3>1, HolderTypes
    <3>3. l[2] = Handles[InQueue(t)]
      BY <3>1, There
    <3> QED
      BY <3>2, <3>3
  <2>3. CASE \E t \in Threads : \E d \in 1 .. Depth(t) : l = <<<<t, d>>, stack[t][d].rest>>
    <3>0. PICK t \in Threads : \E d \in 1 .. Depth(t) : l = <<<<t, d>>, stack[t][d].rest>>
      BY <2>3
    <3>1. PICK d \in 1 .. Depth(t) : l = <<<<t, d>>, stack[t][d].rest>>
      BY <3>0
    <3>2. d \in Nat /\ RestOf(stack[t], d) = stack[t][d].rest
      BY There DEF Depth, RestOf
    <3>3. InFrame(t, d) \in Holders /\ l[1] = InFrame(t, d)[2] /\ l[2] = Handles[InFrame(t, d)]
      <4>1. InFrame(t, d) \in Holders /\ l[1] = InFrame(t, d)[2]
        BY <3>1, <3>2, HolderTypes
      <4>2. l[2] = Handles[InFrame(t, d)]
        BY <3>1, <3>2, There
      <4> QED
        BY <4>1, <4>2
    <3> QED
      BY <3>3
  <2> QED
    BY <2>1, <2>2, <2>3 DEF Lists
<1>2. ASSUME NEW h \in Holders, Handles[h] # <<>> PROVE <<h[2], Handles[h]>> \in Lists
  <2>1. CASE \E p \in Points : h = InPoint(p)
    <3>1. PICK p \in Points : h = InPoint(p)
      BY <2>1
    <3>2. h[2] = p /\ Handles[h] = points[p]
      BY <3>1, There, HolderTypes
    <3> QED
      BY <3>2 DEF Lists
  <2>2. CASE \E t \in Threads : h = InQueue(t)
    <3>1. PICK t \in Threads : h = InQueue(t)
      BY <2>2
    <3>2. h[2] = t
      BY <3>1, HolderTypes
    <3>3. Handles[h] = queue[t]
      BY <3>1, There
    <3> QED
      BY <3>2, <3>3 DEF Lists
  <2>3. CASE \E t \in Threads, d \in Nat : h = InFrame(t, d)
    <3>1. PICK t \in Threads, d \in Nat : h = InFrame(t, d)
      BY <2>3
    <3>2. h[2] = <<t, d>> /\ Handles[h] = RestOf(stack[t], d)
      <4>1. h[2] = <<t, d>>
        BY <3>1, HolderTypes
      <4>2. Handles[h] = RestOf(stack[t], d)
        BY <3>1, There
      <4> QED
        BY <4>1, <4>2
    <3>3. d \in 1 .. Depth(t) /\ Handles[h] = stack[t][d].rest
      BY <1>2, <3>2 DEF RestOf, Depth
    <3>4. <<h[2], Handles[h]>> \in {<<<<t, e>>, stack[t][e].rest>> : e \in 1 .. Depth(t)}
      BY <3>2, <3>3
    <3> QED
      BY <3>4 DEF Lists
  <2> QED
    BY <2>1, <2>2, <2>3, Kinds
<1>3. ASSUME NEW x \in Places(c)
      PROVE  \E h \in Holders : \E i \in DOMAIN Handles[h] : Handles[h][i] = c /\ x = <<h[2], i>>
  <2>1. PICK l \in Lists : \E i \in DOMAIN l[2] : l[2][i] = c /\ x = <<l[1], i>>
    BY DEF Places
  <2>2. PICK h \in Holders : l[1] = h[2] /\ l[2] = Handles[h]
    BY <1>1
  <2> QED
    BY <2>1, <2>2
<1>4. ASSUME NEW h \in Holders, NEW i \in DOMAIN Handles[h], Handles[h][i] = c
      PROVE  <<h[2], i>> \in Places(c)
  <2>1. Handles[h] # <<>>
    OBVIOUS
  <2>2. <<h[2], Handles[h]>> \in Lists
    BY <1>2, <2>1
  <2> DEFINE l == <<h[2], Handles[h]>>
  <2>3. l \in Lists /\ l[1] = h[2] /\ l[2] = Handles[h]
    BY <2>2
  <2> HIDE DEF l
  <2>4. <<h[2], i>> \in {<<l[1], j>> : j \in {j \in DOMAIN l[2] : l[2][j] = c}}
    BY <1>4, <2>3
  <2> QED
    BY <2>3, <2>4 DEF Places
<1> QED
  BY <1>3, <1>4

LEMMA NoPlace ==
    ASSUME Single, NEW c
    PROVE  Places(c) = {} <=> c \notin Held(Handles)
<1>1. c \in Held(Handles) <=> \E h \in Holders : \E i \in DOMAIN Handles[h] : Handles[h][i] = c
  BY DEF Held, Range
<1>2. Places(c) = {} <=> ~ \E h \in Holders : \E i \in DOMAIN Handles[h] : Handles[h][i] = c
  <2>1. ASSUME NEW x \in Places(c) PROVE \E h \in Holders : \E i \in DOMAIN Handles[h] : Handles[h][i] = c
    BY Placed
  <2>2. ASSUME NEW h \in Holders, NEW i \in DOMAIN Handles[h], Handles[h][i] = c PROVE Places(c) # {}
    <3>1. <<h[2], i>> \in Places(c)
      BY <2>2, Placed
    <3> QED
      BY <3>1
  <2> QED
    BY <2>1, <2>2
<1> QED
  BY <1>1, <1>2

-----------------------------------------------------------------------------
(* Handles that are put, moved and taken, and what their coroutines do then *)

LEMMA PutOne ==
    ASSUME NEW s, NEW r, NEW L, Owed(s, L), NEW h \in Holders, NEW c \in Coroutines, c \notin Held(L),
           NEW M, Altered(L, h, Append(L[h], c), M), Steady(s, r, L, {c}),
           r[c] = "ready" \/ (h[1] = "point" /\ r[c] = "running")
    PROVE  Owed(r, M) /\ Held(M) = Held(L) \cup {c}
<1>1. L \in Filled /\ Distinct(L)
  BY DEF Owed
<1>2. M = [L EXCEPT ![h] = Append(@, c)]
  BY DEF Altered
<1>3. Gains(L, h, {c}, M)
  BY ONLY <1>1, <1>2, h \in Holders, c \in Coroutines, c \notin Held(L), Put
<1>4. Owed(r, M)
  BY <1>3, OwedGains
<1> QED
  BY <1>3, <1>4 DEF Gains

LEMMA PutSeveral ==
    ASSUME NEW s, NEW r, NEW L, Owed(s, L), NEW h \in Holders, NEW q \in Seq(Coroutines),
           IsInjective(q), Range(q) \cap Held(L) = {}, Range(q) \subseteq Coroutines,
           NEW M, Altered(L, h, L[h] \o q, M), Steady(s, r, L, Range(q)),
           \A c \in Range(q) : r[c] = "ready"
    PROVE  Owed(r, M)
<1>1. L \in Filled /\ Distinct(L)
  BY DEF Owed
<1>2. M = [L EXCEPT ![h] = @ \o q]
  BY DEF Altered
<1>3. Gains(L, h, Range(q), M)
  BY ONLY <1>1, <1>2, h \in Holders, q \in Seq(Coroutines), IsInjective(q),
     Range(q) \cap Held(L) = {}, PutAll
<1> QED
  BY <1>3, OwedGains

LEMMA MoveThem ==
    ASSUME NEW s, NEW L, Owed(s, L), NEW a \in Holders, NEW b \in Holders, a # b,
           NEW A, Altered(L, a, <<>>, A), NEW M, Altered(A, b, L[b] \o L[a], M),
           b[1] = "point" \/ \A c \in Range(L[a]) : s[c] = "ready"
    PROVE  Owed(s, M) /\ Held(M) = Held(L)
<1>1. L \in Filled /\ Distinct(L)
  BY DEF Owed
<1>2. M = [L EXCEPT ![a] = <<>>, ![b] = L[b] \o L[a]]
  BY DEF Altered
<1>3. Moved(L, a, b, M)
  BY ONLY <1>1, <1>2, a \in Holders, b \in Holders, a # b, MoveAll
<1>4. Owed(s, M)
  BY <1>3, OwedMoved
<1> QED
  BY <1>3, <1>4 DEF Moved

LEMMA TurnThem ==
    ASSUME NEW s, NEW L, Owed(s, L), NEW a \in Holders, NEW b \in Holders, a # b, L[b] = <<>>,
           NEW A, Altered(L, a, <<>>, A), NEW M, Altered(A, b, Reverse(L[a]), M),
           b[1] = "point"
    PROVE  Owed(s, M)
<1>1. L \in Filled /\ Distinct(L)
  BY DEF Owed
<1>2. M = [L EXCEPT ![a] = <<>>, ![b] = Reverse(L[a])]
  BY DEF Altered
<1>3. Moved(L, a, b, M)
  BY ONLY <1>1, <1>2, a \in Holders, b \in Holders, a # b, L[b] = <<>>, TurnOver
<1> QED
  BY <1>3, OwedMoved

LEMMA ResumeFirst ==
    ASSUME NEW s, NEW r, NEW L, Owed(s, L), NEW h \in Holders, L[h] # <<>>,
           NEW M, Altered(L, h, Tail(L[h]), M), Steady(s, r, L, {Head(L[h])}), r[Head(L[h])] # "ready"
    PROVE  Owed(r, M)
<1>1. L \in Filled /\ Distinct(L)
  BY DEF Owed
<1>2. M = [L EXCEPT ![h] = Tail(L[h])]
  BY DEF Altered
<1>3. Taken(L, h, Head(L[h]), M)
  BY ONLY <1>1, <1>2, h \in Holders, L[h] # <<>>, TakeFirst
<1> QED
  BY <1>3, OwedTaken

LEMMA ResumeLast ==
    ASSUME NEW s, NEW r, NEW L, Owed(s, L), NEW h \in Holders, L[h] # <<>>,
           NEW M, Altered(L, h, Front(L[h]), M), Steady(s, r, L, {Last(L[h])}), r[Last(L[h])] # "ready"
    PROVE  Owed(r, M) /\ Held(M) = Held(L) \ {Last(L[h])}
<1>1. L \in Filled /\ Distinct(L)
  BY DEF Owed
<1>2. M = [L EXCEPT ![h] = Front(L[h])]
  BY DEF Altered
<1>3. Taken(L, h, Last(L[h]), M)
  BY ONLY <1>1, <1>2, h \in Holders, L[h] # <<>>, TakeLast
<1>4. Owed(r, M)
  BY <1>3, OwedTaken
<1> QED
  BY <1>3, <1>4 DEF Taken

\* A coroutine that is neither to be resumed nor running has no handle.
LEMMA NoHandle ==
    ASSUME Single, NEW c, st[c] \notin {"ready", "running"}
    PROVE  c \notin Held(Handles)
BY There DEF Owed

\* The first of a list.
LEMMA HeadHeld ==
    ASSUME NEW L \in Filled, NEW h \in Holders, L[h] # <<>>
    PROVE  /\ Head(L[h]) \in Range(L[h]) /\ Head(L[h]) \in Coroutines
           /\ Last(L[h]) \in Range(L[h]) /\ Last(L[h]) \in Coroutines /\ Last(L[h]) \in Held(L)
           /\ Range(Front(L[h])) \subseteq Range(L[h])
<1>1. L[h] \in Seq(Coroutines)
  BY DEF Filled
<1>2. /\ Head(L[h]) \in Range(L[h]) /\ Head(L[h]) \in Coroutines
      /\ Last(L[h]) \in Range(L[h]) /\ Last(L[h]) \in Coroutines
      /\ Range(Front(L[h])) \subseteq Range(L[h])
  BY <1>1, Beheaded, Shortened
<1> QED
  BY <1>2 DEF Held

\* A step keeps it: the handles of the coroutines that a step resumes are taken, and one
\* that suspends has a handle or is waiting.
LEMMA OnceStep == ~SelfLast /\ Single /\ [Next]_vars => OnceThen
<1> SUFFICES ASSUME ~SelfLast, Single, [Next]_vars PROVE OnceThen
  OBVIOUS
<1> DEFINE Handles1 == HandlesOf(points', queue', stack')
           Runs1 == RunsOf(stack')
<1>1. CASE UNCHANGED vars
  BY <1>1 DEF vars, Single, OnceThen, Once, Handles, Runs
<1>2. ASSUME NEW t \in Threads, NEW c \in Coroutines, NEW p \in Points, c \notin Held(Handles),
             Altered(points, p, Append(points[p], c), points'), UNCHANGED <<queue, stack>>,
             \A w \in Coroutines \ {c} : st'[w] = st[w], st'[c] \in {"ready", "running"}
      PROVE  Owed(st', Handles1)
  <2>1. /\ DOMAIN points = Points /\ Owed(st, Handles)
        /\ Handles[InPoint(p)] = points[p] /\ InPoint(p) \in Holders /\ InPoint(p)[1] = "point"
    BY There, HolderTypes
  <2>2. Altered(HandlesOf(points, queue, stack), InPoint(p), Append(points[p], c), HandlesOf(points', queue, stack))
    BY <1>2, <2>1, PointChanges
  <2>3. Handles1 = HandlesOf(points', queue, stack)
    BY <1>2
  <2>4. Altered(Handles, InPoint(p), Append(Handles[InPoint(p)], c), Handles1)
    BY <2>1, <2>2, <2>3 DEF Handles
  <2>5. Steady(st, st', Handles, {c})
    BY <1>2 DEF Steady
  <2> HIDE DEF Handles1
  <2> QED
    BY <1>2, <2>1, <2>4, <2>5, PutOne
<1>3. ASSUME NEW t \in Threads, NEW c \in Coroutines, NEW p \in Points, Detach(t, c, p) \/ Wake(t, c, p)
      PROVE  OnceThen
  <2>1. /\ st[c] \in {"fresh", "waiting"} /\ st' = [st EXCEPT ![c] = "ready"]
        /\ points' = [points EXCEPT ![p] = Append(points[p], c)] /\ UNCHANGED <<queue, stack>>
        /\ waits' = IF st[c] = "waiting" THEN [waits EXCEPT ![c] = NoOne] ELSE waits
    BY <1>3 DEF Detach, Wake, Become, start_coro
  <2>2. Typed(st, waits) /\ InFrames(st, Runs)
    BY There
  <2>3. Typed(st', waits')
    BY <2>1, <2>2 DEF Typed, States
  <2>4. c \notin Held(Handles)
    BY <2>1, NoHandle
  <2>5. /\ \A w \in Coroutines \ {c} : st'[w] = st[w]
        /\ st'[c] = "ready"
    BY <2>1, <2>2 DEF Typed
  <2>6. Owed(st', Handles1)
    BY <1>2, <2>1, <2>4, <2>5 DEF Altered
  <2>7. \A w \in Coroutines : st'[w] = "running" <=> st[w] = "running"
    BY <2>1, <2>5
  <2>8. InFrames(st', Runs1)
    BY <2>1, <2>2, <2>7, RunnersSame DEF Runs
  <2> QED
    BY <2>3, <2>6, <2>8 DEF OnceThen, Once
<1>4. ASSUME NEW t \in Threads, NEW p \in Points, Self(t, p)
      PROVE  OnceThen
  <2>1. /\ InCoroutine(t) /\ Places(me(t)) = {} /\ UNCHANGED <<st, waits, queue, stack>>
        /\ points' = [points EXCEPT ![p] = Append(points[p], me(t))]
    BY <1>4 DEF Self
  <2>2. me(t) \in Coroutines /\ st[me(t)] = "running" /\ me(t) \notin Held(Handles)
    BY <2>1, Mine, NoPlace
  <2>3. Typed(st, waits) /\ InFrames(st, Runs)
    BY There
  <2>4. Owed(st', Handles1)
    BY <1>2, <2>1, <2>2 DEF Altered
  <2> QED
    BY <2>1, <2>3, <2>4 DEF OnceThen, Once, Runs
<1>5. ASSUME NEW t \in Threads, NEW p \in Points, NEW r \in Points, Merge(t, p, r)
      PROVE  OnceThen
  <2>1. /\ UNCHANGED <<st, waits, queue, stack>> /\ p # r
        /\ points' = [points EXCEPT ![p] = points[p] \o points[r], ![r] = <<>>]
    BY <1>5 DEF Merge
  <2>2. /\ Typed(st, waits) /\ InFrames(st, Runs) /\ Owed(st, Handles) /\ DOMAIN points = Points
        /\ Handles[InPoint(p)] = points[p] /\ Handles[InPoint(r)] = points[r]
    BY There
  <2> DEFINE P1 == [points EXCEPT ![r] = <<>>]
             A == HandlesOf(P1, queue, stack)
  <2>3. Altered(points, r, <<>>, P1) /\ Altered(P1, p, points[p] \o points[r], points') /\ DOMAIN P1 = Points
    BY <2>1, <2>2 DEF Altered
  <2>4. /\ InPoint(p) \in Holders /\ InPoint(r) \in Holders /\ InPoint(p)[1] = "point" /\ InPoint(p) # InPoint(r)
    BY <2>1, HolderTypes, Separate
  <2> HIDE DEF P1
  <2>5. Altered(Handles, InPoint(r), <<>>, A)
    BY <2>2, <2>3, PointChanges DEF Handles
  <2>6. Altered(A, InPoint(p), Handles[InPoint(p)] \o Handles[InPoint(r)], Handles1)
    <3>1. Altered(A, InPoint(p), points[p] \o points[r], HandlesOf(points', queue, stack))
      BY <2>3, PointChanges
    <3> QED
      BY <2>1, <2>2, <3>1
  <2> HIDE DEF A, Handles1
  <2>7. Owed(st, Handles1)
    BY ONLY <2>2, <2>4, <2>5, <2>6, MoveThem
  <2> QED
    BY <2>1, <2>2, <2>7 DEF OnceThen, Once, Runs, Handles1
<1>6. ASSUME NEW t \in Threads, NEW p \in Points, NEW r \in Points, CreatePoint(t, p, r)
      PROVE  OnceThen
  <2>1. /\ UNCHANGED <<st, waits, queue, stack>> /\ p # r /\ points[r] = <<>>
        /\ points' = [points EXCEPT ![p] = <<>>, ![r] = Reverse(points[p])]
    BY <1>6 DEF CreatePoint
  <2>2. /\ Typed(st, waits) /\ InFrames(st, Runs) /\ Owed(st, Handles) /\ DOMAIN points = Points
        /\ Handles[InPoint(p)] = points[p] /\ Handles[InPoint(r)] = points[r]
    BY There
  <2> DEFINE P1 == [points EXCEPT ![p] = <<>>]
             A == HandlesOf(P1, queue, stack)
  <2>3. Altered(points, p, <<>>, P1) /\ Altered(P1, r, Reverse(points[p]), points') /\ DOMAIN P1 = Points
    BY <2>1, <2>2 DEF Altered
  <2>4. /\ InPoint(p) \in Holders /\ InPoint(r) \in Holders /\ InPoint(r)[1] = "point" /\ InPoint(p) # InPoint(r)
    BY <2>1, HolderTypes, Separate
  <2> HIDE DEF P1
  <2>5. Altered(Handles, InPoint(p), <<>>, A)
    BY <2>2, <2>3, PointChanges DEF Handles
  <2>6. Altered(A, InPoint(r), Reverse(Handles[InPoint(p)]), Handles1) /\ Handles[InPoint(r)] = <<>>
    <3>1. Altered(A, InPoint(r), Reverse(points[p]), HandlesOf(points', queue, stack))
      BY <2>3, PointChanges
    <3> QED
      BY <2>1, <2>2, <3>1
  <2> HIDE DEF A, Handles1
  <2>7. Owed(st, Handles1)
    BY ONLY <2>2, <2>4, <2>5, <2>6, TurnThem
  <2> QED
    BY <2>1, <2>2, <2>7 DEF OnceThen, Once, Runs, Handles1
<1>7. ASSUME NEW t \in Threads, NEW p \in Points, AllReady(points[p]),
             points' = [points EXCEPT ![p] = <<>>], Install(t, stack[t], points[p], p),
             UNCHANGED <<st, waits, queue>>
      PROVE  OnceThen
  <2>1. /\ Typed(st, waits) /\ InFrames(st, Runs) /\ Owed(st, Handles) /\ Sound
        /\ DOMAIN points = Points /\ DOMAIN stack = Threads
        /\ Handles[InPoint(p)] = points[p] /\ points[p] \in Seq(Coroutines) /\ stack[t] \in Seq(Frame)
    BY There
  <2> DEFINE f == InstallFrame(t, points[p], p)
             k == Len(stack[t]) + 1
             A == HandlesOf(points', queue, stack)
  <2>2. f \in Frame /\ f.runs = NoOne /\ f.rest = points[p]
    BY <2>1, InstallTypes DEF Sound, Shape
  <2>3. Altered(stack, t, Append(stack[t], f), stack') /\ Altered(points, p, <<>>, points')
    BY <1>7 DEF Install, Altered
  <2> HIDE DEF f
  <2>4. Altered(Handles, InPoint(p), <<>>, A)
    BY <2>1, <2>3, PointChanges DEF Handles
  <2>5. Altered(A, InFrame(t, k), points[p], HandlesOf(points', queue, stack'))
    BY <2>1, <2>2, <2>3, PushHandles
  <2>6. /\ Runs1 = Runs /\ InFrame(t, k) \in Holders /\ Handles[InFrame(t, k)] = <<>>
        /\ InPoint(p) # InFrame(t, k)
    <3>1. Runs1 = Runs
      <4>1. RunsOf(stack') = RunsOf(stack)
        BY ONLY <2>1, <2>2, <2>3, t \in Threads, PushNobody
      <4> QED
        BY <4>1 DEF Runs
    <3>2. InFrame(t, k) \in Holders /\ Handles[InFrame(t, k)] = <<>> /\ InPoint(p) # InFrame(t, k)
      BY <2>1, AboveHandles DEF Handles
    <3> QED
      BY <3>1, <3>2
  <2>7. Altered(A, InFrame(t, k), Handles[InFrame(t, k)] \o Handles[InPoint(p)], Handles1)
    <3>1. Handles[InFrame(t, k)] \o Handles[InPoint(p)] = points[p]
      BY <2>1, <2>6, ConcatEmptySeq
    <3> QED
      BY <1>7, <2>5, <3>1
  <2>8. InPoint(p) \in Holders /\ InPoint(p) # InFrame(t, k)
    BY <2>6, HolderTypes
  <2>9. \A c \in Range(Handles[InPoint(p)]) : st[c] = "ready"
    BY <1>7, <2>1 DEF AllReady
  <2> HIDE DEF A, Handles1, k
  <2>10. Owed(st, Handles1)
    BY ONLY <2>1, <2>4, <2>6, <2>7, <2>8, <2>9, MoveThem
  <2> QED
    BY <1>7, <2>1, <2>6, <2>10 DEF OnceThen, Once, Handles1
<1>8. ASSUME NEW t \in Threads, NEW p \in Points, InstallAndResume(t, p)
      PROVE  OnceThen
  BY <1>7, <1>8 DEF InstallAndResume
<1>9. ASSUME NEW t \in Threads, NEW p \in Points, Clear(t, p)
      PROVE  OnceThen
  <2>1. CASE ~active[t] /\ Install(t, stack[t], points[p], p) /\ UNCHANGED queue
    BY <1>7, <1>9, <2>1 DEF Clear
  <2>2. CASE queue' = [queue EXCEPT ![t] = queue[t] \o points[p]] /\ UNCHANGED stack
    <3>1. /\ Typed(st, waits) /\ InFrames(st, Runs) /\ Owed(st, Handles)
          /\ DOMAIN points = Points /\ DOMAIN queue = Threads
          /\ Handles[InPoint(p)] = points[p] /\ Handles[InQueue(t)] = queue[t]
      BY There
    <3> DEFINE A == HandlesOf(points', queue, stack)
    <3>2. Altered(points, p, <<>>, points') /\ Altered(queue, t, queue[t] \o points[p], queue')
      BY <1>9, <2>2 DEF Clear, Altered
    <3>3. Altered(Handles, InPoint(p), <<>>, A)
      BY <3>1, <3>2, PointChanges DEF Handles
    <3>4. Altered(A, InQueue(t), Handles[InQueue(t)] \o Handles[InPoint(p)], Handles1)
      <4>1. Altered(A, InQueue(t), queue[t] \o points[p], HandlesOf(points', queue', stack))
        BY <3>1, <3>2, QueueChanges
      <4> QED
        BY <2>2, <3>1, <4>1
    <3>5. InPoint(p) \in Holders /\ InQueue(t) \in Holders /\ InPoint(p) # InQueue(t)
      BY HolderTypes, Separate
    <3>6. \A c \in Range(Handles[InPoint(p)]) : st[c] = "ready"
      BY <1>9, <3>1 DEF Clear, AllReady
    <3> HIDE DEF A, Handles1
    <3>7. Owed(st, Handles1)
      BY ONLY <3>1, <3>3, <3>4, <3>5, <3>6, MoveThem
    <3>8. UNCHANGED <<st, waits, stack>>
      BY <1>9, <2>2 DEF Clear
    <3> QED
      BY <3>1, <3>7, <3>8 DEF OnceThen, Once, Runs, Handles1
  <2> QED
    BY <1>9, <2>1, <2>2 DEF Clear
\* A coroutine is resumed on top of the stack, or in the place of the one that suspends;
\* and a coroutine leaves.
<1>10. ASSUME NEW t \in Threads, NEW c \in Coroutines, Push(t, CoroFrame(c)), st[c] # "running",
              \A w \in Coroutines : st'[w] = "running" <=> w = c \/ st[w] = "running"
       PROVE  Handles1 = HandlesOf(points', queue', stack) /\ InFrames(st', Runs1)
  <2>1. InFrames(st, Runs) /\ DOMAIN stack = Threads /\ stack[t] \in Seq(Frame)
    BY There
  <2>2. CoroFrame(c) \in Frame /\ CoroFrame(c).runs = c /\ CoroFrame(c).rest = <<>> /\ c # NoOne
    BY FrameTypes
  <2>3. Altered(stack, t, Append(stack[t], CoroFrame(c)), stack')
    BY <1>10 DEF Push, Altered
  <2> DEFINE x == <<t, Len(stack[t]) + 1>>
  <2>4. Handles1 = HandlesOf(points', queue', stack)
    BY <2>1, <2>2, <2>3, PushHandles
  <2>5. Altered(Runs, x, c, Runs1) /\ x \in Spots /\ Runs[x] = NoOne
    BY <2>1, <2>2, <2>3, PushRuns DEF Runs
  <2> HIDE DEF x, Runs1
  <2>6. \A w \in Coroutines : st'[w] = "running" <=> w = c \/ (st[w] = "running" /\ w # Runs[x])
    BY <1>10, <2>5, CoroutinesAssumption
  <2>7. InFrames(st', Runs1)
    BY <1>10, <2>1, <2>5, <2>6, Runner
  <2> QED
    BY <2>4, <2>7
<1>11. ASSUME NEW t \in Threads, InCoroutine(t), NEW c \in Coroutines, Transfer(t, c),
              c = me(t) \/ st[c] # "running",
              \A w \in Coroutines : st'[w] = "running" <=> w = c \/ (st[w] = "running" /\ w # me(t))
       PROVE  Handles1 = HandlesOf(points', queue', stack) /\ InFrames(st', Runs1)
  <2> DEFINE x == <<t, Len(stack[t])>>
  <2>1. InFrames(st, Runs) /\ x \in Spots /\ Runs[x] = me(t)
    BY <1>11, There, Mine
  <2>2. Altered(stack, t, Append(Front(stack[t]), CoroFrame(c)), stack')
    BY <1>11 DEF Transfer, Altered
  <2>3. Handles1 = HandlesOf(points', queue', stack) /\ Altered(Runs, x, c, Runs1)
    BY <1>11, <2>2, TransferStack
  <2> HIDE DEF x, Runs1
  <2>4. InFrames(st', Runs1)
    BY <1>11, <2>1, <2>3, Runner
  <2> QED
    BY <2>3, <2>4
<1>12. ASSUME NEW t \in Threads, InCoroutine(t), Return(t),
              \A w \in Coroutines : st'[w] = "running" <=> st[w] = "running" /\ w # me(t)
       PROVE  Handles1 = HandlesOf(points', queue', stack) /\ InFrames(st', Runs1)
  <2> DEFINE x == <<t, Len(stack[t])>>
  <2>1. InFrames(st, Runs) /\ x \in Spots /\ Runs[x] = me(t)
    BY <1>12, There, Mine
  <2>2. Altered(stack, t, Front(stack[t]), stack')
    BY <1>12 DEF Return, Altered
  <2>3. Handles1 = HandlesOf(points', queue', stack) /\ Altered(Runs, x, NoOne, Runs1)
    BY <1>12, <2>2, FrontStack
  <2> HIDE DEF x, Runs1
  <2>4. \A w \in Coroutines : st'[w] = "running" <=> w = NoOne \/ (st[w] = "running" /\ w # Runs[x])
    BY <1>12, <2>1, CoroutinesAssumption
  <2>5. InFrames(st', Runs1)
    BY <2>1, <2>3, <2>4, Runner
  <2> QED
    BY <2>3, <2>5
<1>13. ASSUME NEW t \in Threads, NEW c \in Coroutines, Start(t, c)
       PROVE  OnceThen
  <2>1. /\ Typed(st, waits) /\ InFrames(st, Runs) /\ Owed(st, Handles) /\ Sound
        /\ DOMAIN stack = Threads /\ stack[t] \in Seq(Frame)
    BY There
  <2>2. st[c] = "fresh" /\ c \notin Held(Handles) /\ UNCHANGED <<waits, points, queue>>
    BY <1>13, NoHandle DEF Start, start_coro
  <2>3. CASE st' = [st EXCEPT ![c] = "running"] /\ Push(t, CoroFrame(c))
    <3>1. \A w \in Coroutines : st'[w] = IF w = c THEN "running" ELSE st[w]
      BY <2>1, <2>3 DEF Typed
    <3>2. Handles1 = Handles /\ InFrames(st', Runs1)
      BY <1>10, <2>2, <2>3, <3>1 DEF Handles
    <3>3. Steady(st, st', Handles, {})
      BY <2>2, <3>1 DEF Steady
    <3>4. Owed(st', Handles1)
      BY <2>1, <3>2, <3>3, OwedSame
    <3>5. Typed(st', waits')
      BY <2>1, <2>2, <2>3 DEF Typed, States
    <3> QED
      BY <3>2, <3>4, <3>5 DEF OnceThen, Once
  <2>4. CASE st' = [st EXCEPT ![c] = "ready"] /\ Install(t, stack[t], <<c>>, NoOne)
    <3> DEFINE f == InstallFrame(t, <<c>>, NoOne)
               k == Len(stack[t]) + 1
    <3>1. f \in Frame /\ f.runs = NoOne /\ f.rest = <<c>>
      <4> DEFINE q == <<c>>
      <4>1. q \in Seq(Coroutines) /\ active \in [Threads -> BOOLEAN]
        BY <2>1 DEF Sound, Shape
      <4> HIDE DEF q
      <4>2. /\ InstallFrame(t, q, NoOne) \in Frame /\ InstallFrame(t, q, NoOne).runs = NoOne
            /\ InstallFrame(t, q, NoOne).rest = q
        BY ONLY <4>1, t \in Threads, InstallTypes
      <4> QED
        BY <4>2 DEF q
    <3>2. Altered(stack, t, Append(stack[t], f), stack')
      BY <2>4 DEF Install, Altered
    <3> HIDE DEF f
    <3>3. /\ Altered(Handles, InFrame(t, k), <<c>>, HandlesOf(points, queue, stack'))
          /\ Handles[InFrame(t, k)] = <<>> /\ Runs1 = Runs /\ InFrame(t, k) \in Holders
      <4>1. Altered(Handles, InFrame(t, k), f.rest, HandlesOf(points, queue, stack'))
        BY <2>1, <3>1, <3>2, PushHandles DEF Handles
      <4>2. Runs1 = Runs
        <5>1. RunsOf(stack') = RunsOf(stack)
          BY ONLY <2>1, <3>1, <3>2, t \in Threads, PushNobody
        <5> QED
          BY <5>1 DEF Runs
      <4>3. InFrame(t, k) \in Holders /\ Handles[InFrame(t, k)] = <<>>
        BY <2>1, AboveHandles DEF Handles
      <4> QED
        BY <3>1, <4>1, <4>2, <4>3
    <3>4. Altered(Handles, InFrame(t, k), Append(Handles[InFrame(t, k)], c), Handles1)
      <4>1. Append(Handles[InFrame(t, k)], c) = <<c>>
        BY <3>3
      <4> QED
        BY <2>2, <3>3, <4>1
    <3>5. \A w \in Coroutines : st'[w] = IF w = c THEN "ready" ELSE st[w]
      BY <2>1, <2>4 DEF Typed
    <3>6. Steady(st, st', Handles, {c}) /\ st'[c] = "ready"
      BY <3>5 DEF Steady
    <3> HIDE DEF Handles1, k, Runs1
    <3>7. Owed(st', Handles1)
      BY <2>1, <2>2, <3>3, <3>4, <3>6, PutOne
    <3>8. \A w \in Coroutines : st'[w] = "running" <=> st[w] = "running"
      BY <2>2, <3>5
    <3>9. InFrames(st', Runs1)
      BY <2>1, <3>3, <3>8, RunnersSame
    <3>10. Typed(st', waits')
      BY <2>1, <2>2, <2>4 DEF Typed, States
    <3> QED
      BY <3>7, <3>9, <3>10 DEF OnceThen, Once, Runs1, Handles1
  <2> QED
    BY <1>13, <2>3, <2>4 DEF Start, Become
<1>14. ASSUME NEW t \in Threads, NEW c \in Coroutines, Parallel(t, c)
       PROVE  OnceThen
  <2>1. /\ Typed(st, waits) /\ Owed(st, Handles)
        /\ st[c] = "waiting" /\ c \notin Held(Handles) /\ UNCHANGED <<points, queue>>
        /\ st' = [st EXCEPT ![c] = "running"] /\ waits' = [waits EXCEPT ![c] = NoOne]
        /\ Push(t, CoroFrame(c))
    BY <1>14, NoHandle, There DEF Parallel, Become
  <2>2. \A w \in Coroutines : st'[w] = IF w = c THEN "running" ELSE st[w]
    BY <2>1 DEF Typed
  <2>3. Handles1 = Handles /\ InFrames(st', Runs1)
    BY <1>10, <2>1, <2>2 DEF Handles
  <2>4. Steady(st, st', Handles, {})
    BY <2>1, <2>2 DEF Steady
  <2>5. Owed(st', Handles1)
    BY <2>1, <2>3, <2>4, OwedSame
  <2>6. Typed(st', waits')
    BY <2>1 DEF Typed, States
  <2> QED
    BY <2>3, <2>5, <2>6 DEF OnceThen, Once
<1>15. ASSUME NEW t \in Threads, NEW d \in Coroutines, AwaitCoroutine(t, d)
       PROVE  OnceThen
  <2> DEFINE c == me(t)
  <2>1. /\ InCoroutine(t) /\ Places(c) = {} /\ st[d] = "fresh"
        /\ st' = [st EXCEPT ![c] = "waiting", ![d] = "running"]
        /\ waits' = [waits EXCEPT ![c] = d]
        /\ Transfer(t, d) /\ UNCHANGED <<points, queue>>
    BY <1>15 DEF AwaitCoroutine, start_coro
  <2>2. c \in Coroutines /\ st[c] = "running" /\ c \notin Held(Handles) /\ d \notin Held(Handles)
    BY <2>1, Mine, NoPlace, NoHandle
  <2>3. Typed(st, waits) /\ Owed(st, Handles)
    BY There
  <2> HIDE DEF c
  <2>4. \A w \in Coroutines : st'[w] = IF w = d THEN "running" ELSE IF w = c THEN "waiting" ELSE st[w]
    BY <2>1, <2>2, <2>3 DEF Typed
  <2>5. Handles1 = Handles /\ InFrames(st', Runs1)
    <3>1. \A w \in Coroutines : st'[w] = "running" <=> w = d \/ (st[w] = "running" /\ w # me(t))
      BY <2>2, <2>4 DEF c
    <3>2. Handles1 = HandlesOf(points', queue', stack) /\ InFrames(st', Runs1)
      BY <1>11, <2>1, <2>2, <3>1
    <3> QED
      BY <2>1, <3>2 DEF Handles
  <2>6. Steady(st, st', Handles, {})
    BY <2>2, <2>4 DEF Steady
  <2>7. Owed(st', Handles1)
    BY <2>3, <2>5, <2>6, OwedSame
  <2>8. Typed(st', waits')
    BY <2>1, <2>2, <2>3, CoroutinesAssumption DEF Typed, States
  <2> QED
    BY <2>5, <2>7, <2>8 DEF OnceThen, Once
<1>16. ASSUME NEW t \in Threads, NEW d \in Coroutines \cup {Event}, AwaitOther(t, d)
       PROVE  OnceThen
  <2> DEFINE c == me(t)
  <2>1. /\ InCoroutine(t) /\ Places(c) = {}
        /\ st' = [st EXCEPT ![c] = "waiting"]
        /\ waits' = [waits EXCEPT ![c] = d]
        /\ Return(t) /\ UNCHANGED <<points, queue>>
    BY <1>16 DEF AwaitOther, Become
  <2>2. c \in Coroutines /\ st[c] = "running" /\ c \notin Held(Handles)
    BY <2>1, Mine, NoPlace
  <2>3. Typed(st, waits) /\ Owed(st, Handles)
    BY There
  <2> HIDE DEF c
  <2>4. \A w \in Coroutines : st'[w] = IF w = c THEN "waiting" ELSE st[w]
    BY <2>1, <2>2, <2>3 DEF Typed
  <2>5. Handles1 = Handles /\ InFrames(st', Runs1)
    <3>1. \A w \in Coroutines : st'[w] = "running" <=> st[w] = "running" /\ w # me(t)
      BY <2>2, <2>4 DEF c
    <3>2. Handles1 = HandlesOf(points', queue', stack) /\ InFrames(st', Runs1)
      BY <1>12, <2>1, <2>2, <3>1
    <3> QED
      BY <2>1, <3>2 DEF Handles
  <2>6. Steady(st, st', Handles, {})
    BY <2>2, <2>4 DEF Steady
  <2>7. Owed(st', Handles1)
    BY <2>3, <2>5, <2>6, OwedSame
  <2>8. Typed(st', waits')
    <3>1. d # NoOne /\ d \in Coroutines \cup {Event, NoOne}
      BY CoroutinesAssumption DEF Event, NoOne
    <3> QED
      BY <2>1, <2>2, <2>3, <3>1 DEF Typed, States
  <2> QED
    BY <2>5, <2>7, <2>8 DEF OnceThen, Once
<1>17. ASSUME NEW t \in Threads, Park(t)
       PROVE  OnceThen
  <2> DEFINE c == me(t)
  <2>1. /\ InCoroutine(t) /\ Places(c) # {}
        /\ st' = [st EXCEPT ![c] = "ready"]
        /\ Return(t) /\ UNCHANGED <<waits, points, queue>>
    BY <1>17 DEF Park, Become
  <2>2. c \in Coroutines /\ st[c] = "running" /\ c \in Held(Handles)
    BY <2>1, Mine, NoPlace
  <2>3. Typed(st, waits) /\ Owed(st, Handles)
    BY There
  <2> HIDE DEF c
  <2>4. \A w \in Coroutines : st'[w] = IF w = c THEN "ready" ELSE st[w]
    BY <2>1, <2>2, <2>3 DEF Typed
  <2>5. Handles1 = Handles /\ InFrames(st', Runs1)
    <3>1. \A w \in Coroutines : st'[w] = "running" <=> st[w] = "running" /\ w # me(t)
      BY <2>2, <2>4 DEF c
    <3>2. Handles1 = HandlesOf(points', queue', stack) /\ InFrames(st', Runs1)
      BY <1>12, <2>1, <2>2, <3>1
    <3> QED
      BY <2>1, <3>2 DEF Handles
  <2>6. Steady(st, st', Handles, {})
    BY <2>2, <2>4 DEF Steady
  <2>7. Owed(st', Handles1)
    BY <2>3, <2>5, <2>6, OwedSame
  <2>8. Typed(st', waits')
    BY <2>1, <2>2, <2>3 DEF Typed, States
  <2> QED
    BY <2>5, <2>7, <2>8 DEF OnceThen, Once
<1>18. ASSUME NEW t \in Threads, Flush(t)
       PROVE  OnceThen
  <2> DEFINE c == Head(queue[t])
  <2>1. /\ queue[t] # <<>> /\ queue' = [queue EXCEPT ![t] = Tail(queue[t])]
        /\ st' = [st EXCEPT ![c] = "running"]
        /\ Push(t, CoroFrame(c)) /\ UNCHANGED <<waits, points>>
    BY <1>18 DEF Flush, Become
  <2>2. /\ Typed(st, waits) /\ Owed(st, Handles) /\ Handles \in Filled /\ DOMAIN queue = Threads
        /\ Handles[InQueue(t)] = queue[t] /\ InQueue(t) \in Holders /\ InQueue(t)[1] # "point"
    BY There, HolderTypes
  <2>3. c = Head(Handles[InQueue(t)]) /\ c \in Coroutines /\ c \in Range(Handles[InQueue(t)])
    BY <2>1, <2>2, HeadHeld
  <2>4. st[c] = "ready"
    BY <2>2, <2>3 DEF Owed
  <2> HIDE DEF c
  <2>5. \A w \in Coroutines : st'[w] = IF w = c THEN "running" ELSE st[w]
    BY <2>1, <2>2, <2>3 DEF Typed
  <2>6. Handles1 = HandlesOf(points', queue', stack) /\ InFrames(st', Runs1)
    <3>1. st[c] # "running" /\ \A w \in Coroutines : st'[w] = "running" <=> w = c \/ st[w] = "running"
      BY <2>4, <2>5
    <3> QED
      BY <1>10, <2>1, <2>3, <3>1
  <2>7. Altered(Handles, InQueue(t), Tail(Handles[InQueue(t)]), Handles1)
    <3>1. Altered(queue, t, Tail(queue[t]), queue')
      BY <2>1 DEF Altered
    <3>2. Altered(Handles, InQueue(t), Tail(queue[t]), HandlesOf(points, queue', stack))
      BY <2>2, <3>1, QueueChanges DEF Handles
    <3> QED
      BY <2>1, <2>2, <2>6, <3>2
  <2>8. Steady(st, st', Handles, {c}) /\ st'[c] # "ready"
    BY <2>3, <2>5 DEF Steady
  <2> HIDE DEF Handles1
  <2>9. Owed(st', Handles1)
    BY <2>1, <2>2, <2>3, <2>7, <2>8, ResumeFirst
  <2>10. Typed(st', waits')
    BY <2>1, <2>2, <2>3, <2>4 DEF Typed, States
  <2> QED
    BY <2>6, <2>9, <2>10 DEF OnceThen, Once, Handles1
<1>19. ASSUME NEW t \in Threads, InInstaller(t)
       PROVE  LET k == Len(stack[t])
                  f == Installer(t)
              IN  /\ stack[t] \in Seq(Frame) /\ stack[t] # <<>> /\ k \in Nat /\ <<t, k>> \in Spots
                  /\ f \in Frame /\ f.runs = NoOne /\ f = Last(stack[t]) /\ f.rest \in Seq(Coroutines)
                  /\ RunOf(stack[t], k) = NoOne /\ RestOf(stack[t], k) = f.rest
                  /\ InFrame(t, k) \in Holders /\ InFrame(t, k)[1] # "point"
                  /\ Handles[InFrame(t, k)] = f.rest
  <2>1. /\ stack[t] \in Seq(Frame) /\ stack[t] # <<>> /\ Installer(t) \in Frame
        /\ Installer(t) = Last(stack[t]) /\ Installer(t).runs = NoOne
    BY <1>19, There, Here
  <2>2. RunOf(stack[t], Len(stack[t])) = NoOne /\ RestOf(stack[t], Len(stack[t])) = Installer(t).rest
    BY <2>1, Popped
  <2>3. /\ Len(stack[t]) \in Nat /\ <<t, Len(stack[t])>> \in Spots
        /\ Handles[InFrame(t, Len(stack[t]))] = RestOf(stack[t], Len(stack[t]))
    BY There
  <2>4. InFrame(t, Len(stack[t])) \in Holders /\ InFrame(t, Len(stack[t]))[1] # "point"
    BY <2>3, HolderTypes
  <2>5. Installer(t).rest \in Seq(Coroutines)
    BY <2>1, FrameTypes
  <2> QED
    BY <2>1, <2>2, <2>3, <2>4, <2>5
<1>20. ASSUME NEW t \in Threads, Uninstall(t)
       PROVE  OnceThen
  <2> DEFINE s == Front(stack[t])
             k == Len(stack[t])
  <2>1. /\ InInstaller(t) /\ Installer(t).rest = <<>> /\ UNCHANGED <<st, waits, points, queue>>
        /\ Altered(stack, t, s, stack')
    BY <1>20 DEF Uninstall, Return, Altered
  <2>2. /\ stack[t] \in Seq(Frame) /\ stack[t] # <<>> /\ k \in Nat
        /\ RunOf(stack[t], k) = NoOne /\ RestOf(stack[t], k) = <<>>
    BY <1>19, <2>1
  <2>3. \A d \in Nat : /\ RunOf(s, d) = IF d = k THEN NoOne ELSE RunOf(stack[t], d)
                       /\ RestOf(s, d) = IF d = k THEN <<>> ELSE RestOf(stack[t], d)
    BY <2>2, Popped
  <2> HIDE DEF s, k
  <2>4. SameRest(s, stack[t]) /\ RunEdit(s, stack[t], k, NoOne)
    BY <2>2, <2>3 DEF SameRest, RunEdit
  <2>5. DOMAIN stack = Threads /\ InFrames(st, Runs) /\ Typed(st, waits) /\ Owed(st, Handles)
    BY There
  <2>6. Handles1 = Handles
    BY <2>1, <2>4, <2>5, FramesSame DEF Handles
  <2>7. Altered(Runs, <<t, k>>, NoOne, Runs1)
    BY <2>1, <2>2, <2>4, <2>5, RunChanges DEF Runs
  <2>8. Runs1 = Runs
    <3>1. Runs[<<t, k>>] = NoOne
      BY <2>2, Spot DEF Runs
    <3>2. Runs = [x \in Spots |-> Runs[x]]
      BY DEF Runs, RunsOf
    <3> QED
      BY ONLY <2>7, <3>1, <3>2 DEF Altered
  <2> QED
    BY <2>1, <2>5, <2>6, <2>8 DEF OnceThen, Once
<1>21. ASSUME NEW t \in Threads, ResumeNext(t)
       PROVE  OnceThen
  <2> DEFINE f == Installer(t)
             c == Head(f.rest)
             g == [f EXCEPT !.rest = Tail(f.rest)]
             k == Len(stack[t])
             s == Append(Front(stack[t]), g)
             T == [stack EXCEPT ![t] = s]
  <2>1. /\ InInstaller(t) /\ f.rest # <<>> /\ UNCHANGED <<waits, points, queue>>
        /\ st' = [st EXCEPT ![c] = "running"]
        /\ stack' = [stack EXCEPT ![t] = Front(stack[t]) \o <<g, CoroFrame(c)>>]
    BY <1>21 DEF ResumeNext, Become
  <2>2. /\ stack[t] \in Seq(Frame) /\ stack[t] # <<>> /\ k \in Nat /\ <<t, k>> \in Spots
        /\ f \in Frame /\ f.runs = NoOne /\ f.rest \in Seq(Coroutines)
        /\ RunOf(stack[t], k) = NoOne /\ RestOf(stack[t], k) = f.rest
        /\ InFrame(t, k) \in Holders /\ InFrame(t, k)[1] # "point"
        /\ Handles[InFrame(t, k)] = f.rest
    BY <1>19, <2>1
  <2>3. DOMAIN stack = Threads /\ InFrames(st, Runs) /\ Typed(st, waits) /\ Owed(st, Handles) /\ Handles \in Filled
    BY There
  <2> HIDE DEF f
  <2>4. c \in Coroutines /\ c = Head(Handles[InFrame(t, k)]) /\ c \in Range(Handles[InFrame(t, k)])
        /\ Tail(f.rest) \in Seq(Coroutines)
    BY <2>1, <2>2, <2>3, HeadHeld, Beheaded
  <2>5. st[c] = "ready"
    BY <2>2, <2>3, <2>4 DEF Owed
  <2>6. g \in Frame /\ g.runs = NoOne /\ g.rest = Tail(f.rest)
    BY <2>2, <2>4, CoroutinesAssumption DEF Frame
  <2>7. CoroFrame(c) \in Frame /\ CoroFrame(c).runs = c /\ CoroFrame(c).rest = <<>> /\ c # NoOne
    BY <2>4, FrameTypes
  <2> HIDE DEF c, g
  <2>8. /\ s \in Seq(Frame)
        /\ \A d \in Nat : /\ RunOf(s, d) = IF d = k THEN NoOne ELSE RunOf(stack[t], d)
                          /\ RestOf(s, d) = IF d = k THEN Tail(f.rest) ELSE RestOf(stack[t], d)
    BY <2>2, <2>6, Replaced
  <2>9. stack' = [stack EXCEPT ![t] = Append(s, CoroFrame(c))]
    <3>1. Front(stack[t]) \o <<g, CoroFrame(c)>> = Append(Append(Front(stack[t]), g), CoroFrame(c))
      BY ONLY <2>2, <2>6, <2>7, Resumed
    <3> QED
      BY <2>1, <3>1
  <2> HIDE DEF s
  <2>10. /\ Altered(stack, t, s, T) /\ DOMAIN T = Threads /\ T[t] = s
         /\ Altered(T, t, Append(T[t], CoroFrame(c)), stack')
    BY <2>3, <2>9 DEF Altered
  <2> HIDE DEF T, k
  <2>11. RestEdit(s, stack[t], k, Tail(f.rest)) /\ RunEdit(s, stack[t], k, NoOne)
    BY <2>8 DEF RestEdit, RunEdit
  <2>12. Altered(Handles, InFrame(t, k), Tail(f.rest), HandlesOf(points, queue, T))
    BY <2>2, <2>3, <2>10, <2>11, FrameChanges DEF Handles
  <2>13. HandlesOf(points, queue, stack') = HandlesOf(points, queue, T)
    BY <2>7, <2>8, <2>10, PushHandles
  <2>14. Altered(Handles, InFrame(t, k), Tail(Handles[InFrame(t, k)]), Handles1)
    BY <2>1, <2>2, <2>12, <2>13
  <2>15. RunsOf(T) = Runs
    <3>1. Altered(Runs, <<t, k>>, NoOne, RunsOf(T))
      BY <2>2, <2>3, <2>10, <2>11, RunChanges DEF Runs
    <3>2. Runs[<<t, k>>] = NoOne
      BY <2>2, Spot DEF Runs
    <3>3. Runs = [x \in Spots |-> Runs[x]]
      BY DEF Runs, RunsOf
    <3> QED
      BY ONLY <3>1, <3>2, <3>3 DEF Altered
  <2> DEFINE x == <<t, Len(T[t]) + 1>>
  <2>16. Altered(Runs, x, c, Runs1) /\ x \in Spots /\ Runs[x] = NoOne
    BY <2>7, <2>8, <2>10, <2>15, PushRuns
  <2> HIDE DEF x, Handles1, Runs1
  <2>17. \A w \in Coroutines : st'[w] = IF w = c THEN "running" ELSE st[w]
    BY <2>1, <2>3, <2>4 DEF Typed
  <2>18. \A w \in Coroutines : st'[w] = "running" <=> w = c \/ (st[w] = "running" /\ w # Runs[x])
    BY <2>16, <2>17, CoroutinesAssumption
  <2>19. InFrames(st', Runs1)
    BY <2>3, <2>4, <2>5, <2>16, <2>18, Runner
  <2>20. Steady(st, st', Handles, {c}) /\ st'[c] # "ready"
    BY <2>4, <2>17 DEF Steady
  <2>21. Owed(st', Handles1)
    BY <2>1, <2>2, <2>3, <2>4, <2>14, <2>20, ResumeFirst
  <2>22. Typed(st', waits')
    BY <2>1, <2>3, <2>4, <2>5 DEF Typed, States
  <2> QED
    BY <2>19, <2>21, <2>22 DEF OnceThen, Once, Handles1, Runs1
<1>22. ASSUME NEW t \in Threads, Pause(t)
       PROVE  OnceThen
  <2> DEFINE c == me(t)
             rotated == Append(queue[t], c)
             o == Head(rotated)
             Q1 == [queue EXCEPT ![t] = rotated]
             A == HandlesOf(points, Q1, stack)
             s == [st EXCEPT ![c] = "ready"]
  <2>1. /\ InCoroutine(t) /\ Places(c) = {}
        /\ queue' = [queue EXCEPT ![t] = Tail(rotated)]
        /\ st' = [st EXCEPT ![c] = "ready", ![o] = "running"]
        /\ Transfer(t, o) /\ UNCHANGED <<waits, points>>
    BY <1>22 DEF Pause
  <2>2. c \in Coroutines /\ st[c] = "running" /\ c \notin Held(Handles)
    BY <2>1, Mine, NoPlace
  <2>3. /\ Typed(st, waits) /\ Owed(st, Handles) /\ DOMAIN queue = Threads
        /\ Handles[InQueue(t)] = queue[t] /\ queue[t] \in Seq(Coroutines)
        /\ InQueue(t) \in Holders /\ InQueue(t)[1] # "point"
    BY There, HolderTypes
  <2>4. rotated \in Seq(Coroutines) /\ rotated # <<>>
    BY <2>2, <2>3, AppendProperties
  <2> HIDE DEF c
  <2>5. Altered(queue, t, rotated, Q1) /\ Altered(Q1, t, Tail(rotated), queue') /\ DOMAIN Q1 = Threads /\ Q1[t] = rotated
    BY <2>1, <2>3 DEF Altered
  <2> HIDE DEF rotated, Q1
  <2>6. Altered(Handles, InQueue(t), rotated, A) /\ A[InQueue(t)] = rotated
    <3>1. Altered(HandlesOf(points, queue, stack), InQueue(t), rotated, HandlesOf(points, Q1, stack))
      BY <2>3, <2>5, QueueChanges
    <3>2. HandlesOf(points, Q1, stack)[InQueue(t)] = Q1[t]
      BY InHolders
    <3> QED
      BY <2>5, <3>1, <3>2 DEF Handles
  <2>7. Altered(A, InQueue(t), Tail(A[InQueue(t)]), HandlesOf(points, queue', stack))
    <3>1. Altered(HandlesOf(points, Q1, stack), InQueue(t), Tail(rotated), HandlesOf(points, queue', stack))
      BY <2>5, QueueChanges
    <3> QED
      BY <2>6, <3>1
  <2> HIDE DEF A
  <2>8. Altered(Handles, InQueue(t), Append(Handles[InQueue(t)], c), A)
    BY <2>3, <2>6 DEF rotated
  <2>9. \A w \in Coroutines : s[w] = IF w = c THEN "ready" ELSE st[w]
    BY <2>2, <2>3 DEF Typed
  <2> HIDE DEF s
  <2>10. Steady(st, s, Handles, {c}) /\ s[c] = "ready"
    BY <2>2, <2>9 DEF Steady
  <2>11. Owed(s, A)
    BY <2>2, <2>3, <2>8, <2>10, PutOne
  <2>12. o \in Coroutines /\ o \in Range(A[InQueue(t)]) /\ o = Head(A[InQueue(t)]) /\ A[InQueue(t)] # <<>>
    BY <2>4, <2>6, Beheaded
  <2>13. s[o] = "ready"
    BY <2>3, <2>11, <2>12 DEF Owed
  <2> HIDE DEF o
  <2>14. \A w \in Coroutines : st'[w] = IF w = o THEN "running" ELSE s[w]
    BY <2>1, <2>2, <2>3, <2>9, <2>12 DEF Typed
  <2>15. Handles1 = HandlesOf(points', queue', stack) /\ InFrames(st', Runs1)
    <3>1. o = me(t) \/ st[o] # "running"
      BY <2>9, <2>12, <2>13 DEF c
    <3>2. \A w \in Coroutines : st'[w] = "running" <=> w = o \/ (st[w] = "running" /\ w # me(t))
      BY <2>9, <2>14 DEF c
    <3> QED
      BY <1>11, <2>1, <2>12, <3>1, <3>2
  <2>16. Altered(A, InQueue(t), Tail(A[InQueue(t)]), Handles1)
    BY <2>1, <2>7, <2>15
  <2>17. Steady(s, st', A, {o}) /\ st'[o] # "ready"
    BY <2>12, <2>14 DEF Steady
  <2> HIDE DEF Handles1
  <2>18. Owed(st', Handles1)
    BY <2>3, <2>11, <2>12, <2>16, <2>17, ResumeFirst
  <2>19. Typed(st', waits')
    <3>1. \A w \in Coroutines : st[w] = "waiting" <=> st'[w] = "waiting"
      BY <2>2, <2>9, <2>13, <2>14
    <3> QED
      BY <2>1, <2>2, <2>3, <2>12, <3>1 DEF Typed, States
  <2> QED
    BY <2>15, <2>18, <2>19 DEF OnceThen, Once, Handles1
<1>23. ASSUME NEW t \in Threads, Finish(t)
       PROVE  OnceThen
  <2> DEFINE c == me(t)
             ws == {w \in Coroutines : waits[w] = c}
  <2>1. /\ InCoroutine(t) /\ Places(c) = {} /\ UNCHANGED points
        /\ waits' = [w \in Coroutines |-> IF w \in ws THEN NoOne ELSE waits[w]]
    BY <1>23 DEF Finish
  <2>2. c \in Coroutines /\ c # NoOne /\ st[c] = "running" /\ c \notin Held(Handles)
    BY <2>1, Mine, NoPlace, CoroutinesAssumption
  <2>3. /\ Typed(st, waits) /\ Owed(st, Handles) /\ Sound
        /\ DOMAIN queue = Threads /\ DOMAIN stack = Threads
        /\ Handles[InQueue(t)] = queue[t] /\ queue[t] \in Seq(Coroutines) /\ InQueue(t) \in Holders
    BY There, HolderTypes
  <2>4. \A w \in ws : w \in Coroutines /\ w # c /\ st[w] = "waiting" /\ w \notin Held(Handles)
    <3>1. \A w \in ws : w \in Coroutines /\ st[w] = "waiting"
      BY <2>2, <2>3 DEF Typed
    <3> QED
      BY <2>2, <3>1, NoHandle
  <2>5. CASE ws = {} /\ st' = [st EXCEPT ![c] = "done"] /\ Return(t) /\ UNCHANGED queue
    <3> HIDE DEF c
    <3>1. \A w \in Coroutines : st'[w] = IF w = c THEN "done" ELSE st[w]
      BY <2>2, <2>3, <2>5 DEF Typed
    <3>2. Handles1 = Handles /\ InFrames(st', Runs1)
      <4>1. \A w \in Coroutines : st'[w] = "running" <=> st[w] = "running" /\ w # me(t)
        BY <2>2, <3>1 DEF c
      <4>2. Handles1 = HandlesOf(points', queue', stack) /\ InFrames(st', Runs1)
        BY <1>12, <2>1, <2>5, <4>1
      <4> QED
        BY <2>1, <2>5, <4>2 DEF Handles
    <3>3. Steady(st, st', Handles, {})
      BY <2>2, <3>1 DEF Steady
    <3>4. Owed(st', Handles1)
      BY <2>3, <3>2, <3>3, OwedSame
    <3>5. Typed(st', waits')
      <4>1. waits' = waits
        BY <2>1, <2>3, <2>5 DEF Typed
      <4> QED
        BY <2>2, <2>3, <2>5, <3>1, <4>1 DEF Typed, States
    <3> QED
      BY <3>2, <3>4, <3>5 DEF OnceThen, Once
  <2>6. ASSUME NEW out \in ws, NEW rest \in SetToSeqs(ws \ {out}),
               st' = [w \in Coroutines |-> IF w = c THEN "done" ELSE IF w = out THEN "running"
                                           ELSE IF w \in ws THEN "ready" ELSE st[w]],
               \/ /\ queue' = [queue EXCEPT ![t] = queue[t] \o rest]
                  /\ Transfer(t, out)
               \/ /\ Install(t, Append(Front(stack[t]), CoroFrame(out)), rest, NoOne)
                  /\ UNCHANGED queue
        PROVE  OnceThen
    <3>1. out \in Coroutines /\ st[out] = "waiting" /\ out # c /\ out \notin Held(Handles)
      BY <2>4
    <3>2. rest \in Seq(Coroutines) /\ IsInjective(rest) /\ Range(rest) = ws \ {out}
      <4>1. IsFiniteSet(ws \ {out})
        BY CoroutinesAssumption, FS_Subset
      <4> HIDE DEF ws
      <4>2. rest \in Seq(ws \ {out}) /\ IsInjective(rest) /\ Range(rest) = ws \ {out}
        BY <4>1, Listed
      <4>3. ws \ {out} \subseteq Coroutines
        BY <2>4
      <4>4. rest \in Seq(Coroutines)
        BY ONLY <4>2, <4>3
      <4> QED
        BY <4>2, <4>4
    <3>3. Typed(st', waits')
      <4>1. waits[c] = NoOne /\ c \notin ws
        BY <2>2, <2>3, <2>4 DEF Typed
      <4> HIDE DEF ws, c
      <4>2. ASSUME NEW w \in Coroutines
            PROVE  /\ st'[w] \in States /\ waits'[w] \in Coroutines \cup {Event, NoOne}
                   /\ st'[w] = "waiting" <=> waits'[w] # NoOne
        <5>1. /\ st[w] \in States /\ waits[w] \in Coroutines \cup {Event, NoOne}
              /\ st[w] = "waiting" <=> waits[w] # NoOne
          BY <2>3 DEF Typed
        <5>2. /\ st'[w] = IF w = c THEN "done" ELSE IF w = out THEN "running" ELSE IF w \in ws THEN "ready" ELSE st[w]
              /\ waits'[w] = IF w \in ws THEN NoOne ELSE waits[w]
          BY <2>1, <2>6
        <5> QED
          BY <2>6, <4>1, <5>1, <5>2 DEF States
      <4>3. st' = [w \in Coroutines |-> st'[w]] /\ waits' = [w \in Coroutines |-> waits'[w]]
        BY <2>1, <2>6
      <4> QED
        BY <4>2, <4>3 DEF Typed
    <3>4. \A w \in Coroutines : st'[w] = "running" <=> w = out \/ (st[w] = "running" /\ w # me(t))
      BY <2>4, <2>6, <3>1
    <3>5. Range(rest) \cap Held(Handles) = {} /\ Range(rest) \subseteq Coroutines
          /\ \A w \in Range(rest) : st'[w] = "ready"
      BY <2>4, <2>6, <3>2
    <3>6. Steady(st, st', Handles, Range(rest))
      BY <2>2, <2>6, <3>1, <3>2 DEF Steady
    <3> HIDE DEF c, ws
    <3>7. CASE queue' = [queue EXCEPT ![t] = queue[t] \o rest] /\ Transfer(t, out)
      <4>1. Handles1 = HandlesOf(points', queue', stack) /\ InFrames(st', Runs1)
        BY <1>11, <2>1, <3>1, <3>4, <3>7
      <4>2. Altered(Handles, InQueue(t), Handles[InQueue(t)] \o rest, Handles1)
        <5>1. Altered(queue, t, queue[t] \o rest, queue')
          BY <3>7 DEF Altered
        <5>2. Altered(Handles, InQueue(t), queue[t] \o rest, HandlesOf(points, queue', stack))
          BY <2>3, <5>1, QueueChanges DEF Handles
        <5> QED
          BY <2>1, <2>3, <4>1, <5>2
      <4> HIDE DEF Handles1
      <4>3. Owed(st', Handles1)
        BY ONLY <2>3, <3>2, <3>5, <3>6, <4>2, PutSeveral
      <4> QED
        BY <3>3, <4>1, <4>3 DEF OnceThen, Once, Handles1
    <3>8. CASE Install(t, Append(Front(stack[t]), CoroFrame(out)), rest, NoOne) /\ UNCHANGED queue
      <4> DEFINE s == Append(Front(stack[t]), CoroFrame(out))
                 T == [stack EXCEPT ![t] = s]
                 f == InstallFrame(t, rest, NoOne)
                 k == Len(T[t]) + 1
                 x == <<t, Len(stack[t])>>
      <4>1. Altered(stack, t, s, T) /\ DOMAIN T = Threads /\ T[t] = s
        BY <2>3 DEF Altered
      <4>2. stack' = [stack EXCEPT ![t] = Append(s, f)]
        BY <3>8 DEF Install
      <4>3. Altered(T, t, Append(T[t], f), stack')
        BY <2>3, <4>1, <4>2 DEF Altered
      <4> HIDE DEF T
      <4>4. /\ HandlesOf(points, queue, T) = Handles /\ Altered(Runs, x, out, RunsOf(T))
            /\ T[t] \in Seq(Frame)
        BY <2>1, <3>1, <4>1, TransferStack DEF Handles
      <4>5. f \in Frame /\ f.runs = NoOne /\ f.rest = rest
        BY <2>3, <3>2, InstallTypes DEF Sound, Shape
      <4> HIDE DEF s, f
      <4>6. Altered(Handles, InFrame(t, k), rest, HandlesOf(points, queue, stack'))
        <5>1. Altered(HandlesOf(points, queue, T), InFrame(t, k), f.rest, HandlesOf(points, queue, stack'))
          BY <4>1, <4>3, <4>4, <4>5, PushHandles
        <5> QED
          BY <4>4, <4>5, <5>1
      <4>7. InFrame(t, k) \in Holders /\ Handles[InFrame(t, k)] = <<>>
        <5>1. InFrame(t, k) \in Holders /\ HandlesOf(points, queue, T)[InFrame(t, k)] = <<>>
          BY <4>4, AboveHandles
        <5> QED
          BY <4>4, <5>1
      <4>8. Altered(Handles, InFrame(t, k), Handles[InFrame(t, k)] \o rest, Handles1)
        <5>1. Handles[InFrame(t, k)] \o rest = rest
          BY <3>2, <4>7, ConcatEmptySeq
        <5> QED
          BY <2>1, <3>8, <4>6, <5>1
      <4> HIDE DEF Handles1, k
      <4>9. Owed(st', Handles1)
        BY ONLY <2>3, <3>2, <3>5, <3>6, <4>7, <4>8, PutSeveral
      <4>10. Runs1 = RunsOf(T)
        BY <4>1, <4>3, <4>4, <4>5, PushNobody
      <4>11. InFrames(st', Runs1)
        <5>1. InFrames(st, Runs) /\ x \in Spots /\ Runs[x] = me(t)
          BY <2>1, There, Mine
        <5>2. Altered(Runs, x, out, Runs1)
          BY <4>4, <4>10
        <5> HIDE DEF x, Runs1
        <5> QED
          BY <3>1, <3>4, <5>1, <5>2, Runner
      <4> QED
        BY <3>3, <4>9, <4>11 DEF OnceThen, Once, Handles1
    <3> QED
      BY <2>6, <3>7, <3>8
  <2> QED
    BY <1>23, <2>5, <2>6 DEF Finish, Become
<1>24. ASSUME NEW t \in Threads, NEW p \in Points, Await(t, p)
       PROVE  OnceThen
  <2> DEFINE c == me(t)
             out == Last(points[p])
             others == Front(points[p])
             queued == IF c \in Range(others) THEN others ELSE Append(others, c)
             P1 == [points EXCEPT ![p] = others]
             Q1 == [queue EXCEPT ![t] = queue[t] \o others]
             A == HandlesOf(P1, queue, stack)
             B == HandlesOf(points', queue, stack)
             C == HandlesOf(points', Q1, stack)
             D == HandlesOf(points', queue', stack)
             s == [st EXCEPT ![out] = "running"]
             r == [st EXCEPT ![c] = "ready", ![out] = "running"]
  <2>1. /\ InCoroutine(t) /\ points[p] # <<>> /\ UNCHANGED waits
        /\ \A d \in Range(points[p]) : st[d] = "ready" \/ d = c
        /\ Places(c) = {} \/ c \in Range(others)
        /\ points' = [points EXCEPT ![p] = <<>>]
        /\ queue' = [queue EXCEPT ![t] = queue[t] \o queued]
    BY <1>24 DEF Await
  <2>2. c \in Coroutines /\ st[c] = "running" /\ (c \in Range(others) \/ c \notin Held(Handles))
    BY <2>1, Mine, NoPlace
  <2>3. /\ Typed(st, waits) /\ Owed(st, Handles) /\ Handles \in Filled /\ Distinct(Handles) /\ Sound
        /\ DOMAIN points = Points /\ DOMAIN queue = Threads /\ DOMAIN stack = Threads
        /\ Handles[InPoint(p)] = points[p] /\ Handles[InQueue(t)] = queue[t]
        /\ points[p] \in Seq(Coroutines) /\ queue[t] \in Seq(Coroutines)
        /\ InPoint(p) \in Holders /\ InQueue(t) \in Holders /\ InPoint(p) # InQueue(t)
    BY There, HolderTypes, Separate
  <2>4. /\ out \in Coroutines /\ out \in Held(Handles) /\ out \in Range(points[p])
        /\ others \in Seq(Coroutines) /\ Range(others) \subseteq Range(points[p])
        /\ Range(others) = Range(points[p]) \ {out}
    <3>1. IsInjective(points[p])
      BY <2>3 DEF Distinct
    <3>2. out \in Range(points[p]) /\ out \in Coroutines /\ others \in Seq(Coroutines)
          /\ Range(others) = Range(points[p]) \ {out}
      BY <2>1, <2>3, <3>1, Shortened
    <3>3. out \in Held(Handles)
      BY <2>3, <3>2 DEF Held
    <3> QED
      BY <3>2, <3>3
  <2>5. out # c /\ st[out] = "ready"
    <3>1. out # c
      BY <2>2, <2>4
    <3> QED
      BY <2>1, <2>4, <3>1
  <2>6. /\ Altered(points, p, others, P1) /\ Altered(P1, p, <<>>, points') /\ DOMAIN P1 = Points /\ P1[p] = others
        /\ DOMAIN points' = Points /\ Altered(queue, t, queue[t] \o others, Q1) /\ DOMAIN Q1 = Threads
        /\ Q1[t] = queue[t] \o others /\ Altered(Q1, t, queue[t] \o queued, queue')
    BY <2>1, <2>3 DEF Altered
  <2> HIDE DEF c, out, others, queued, P1, Q1
  <2>7. /\ Altered(Handles, InPoint(p), Front(Handles[InPoint(p)]), A)
        /\ A[InPoint(p)] = others /\ A[InQueue(t)] = queue[t]
    <3>1. Altered(Handles, InPoint(p), others, A)
      BY <2>3, <2>6, PointChanges DEF Handles
    <3>2. A[InPoint(p)] = P1[p] /\ A[InQueue(t)] = queue[t]
      BY InHolders
    <3> QED
      BY <2>3, <2>6, <3>1, <3>2 DEF others
  <2>8. Altered(A, InPoint(p), <<>>, B)
    BY <2>3, <2>6, PointChanges
  <2>9. Altered(B, InQueue(t), queue[t] \o others, C) /\ C[InQueue(t)] = queue[t] \o others
    <3>1. Altered(B, InQueue(t), queue[t] \o others, C)
      BY <2>3, <2>6, QueueChanges
    <3>2. C[InQueue(t)] = Q1[t]
      BY InHolders
    <3> QED
      BY <2>6, <3>1, <3>2
  <2>10. Altered(C, InQueue(t), queue[t] \o queued, D)
    BY <2>6, QueueChanges
  <2> HIDE DEF A, B, C
  <2>11. /\ \A w \in Coroutines : s[w] = IF w = out THEN "running" ELSE st[w]
         /\ \A w \in Coroutines : r[w] = IF w = out THEN "running" ELSE IF w = c THEN "ready" ELSE st[w]
    BY <2>2, <2>3, <2>4, <2>5 DEF Typed
  <2> HIDE DEF s, r
  \* The last handle is taken.
  <2>12. Owed(s, A) /\ Held(A) = Held(Handles) \ {out}
    <3>1. Handles[InPoint(p)] # <<>> /\ out = Last(Handles[InPoint(p)])
      BY <2>1, <2>3 DEF out
    <3>2. Steady(st, s, Handles, {out}) /\ s[out] # "ready"
      BY <2>4, <2>11 DEF Steady
    <3> QED
      BY ONLY <2>3, <2>7, <3>1, <3>2, ResumeLast
  \* The others are queued, and with them the coroutine itself, or it is at the end.
  <2>13. Owed(r, D) /\ out \notin Held(D)
    <3>1. CASE c \in Range(others)
      <4>1. c \in Held(A) /\ c \in Held(Handles)
        <5>1. c \in Held(Handles)
          BY <2>3, <2>4, <3>1 DEF Held
        <5> QED
          BY <2>5, <2>12, <5>1
      <4>2. Steady(s, r, A, {})
        BY <2>5, <2>11, <4>1 DEF Steady
      <4>3. Owed(r, A)
        BY <2>12, <4>2, OwedSame
      <4>4. \A d \in Range(A[InPoint(p)]) : r[d] = "ready"
        <5>1. \A d \in Range(others) : d \in Coroutines /\ d # out /\ (st[d] = "ready" \/ d = c)
          <6>1. \A d \in Range(points[p]) : d \in Coroutines
            BY <2>3, HeldTypes
          <6> QED
            BY <2>1, <2>4, <6>1
        <5> QED
          BY <2>7, <2>11, <5>1
      <4>5. Altered(B, InQueue(t), A[InQueue(t)] \o A[InPoint(p)], C)
        BY <2>7, <2>9
      <4>6. Owed(r, C) /\ Held(C) = Held(A)
        BY ONLY <2>3, <2>8, <4>3, <4>4, <4>5, MoveThem
      <4>7. D = C
        <5>1. queued = others
          BY <3>1 DEF queued
        <5>2. queue' = Q1
          BY <2>3, <2>6, <5>1 DEF Altered
        <5> QED
          BY <5>2 DEF C
      <4> QED
        BY <2>12, <4>6, <4>7
    <3>2. CASE c \notin Range(others)
      <4>1. c \notin Held(Handles)
        BY <2>2, <3>2
      <4>2. \A d \in Range(A[InPoint(p)]) : s[d] = "ready"
        <5>1. \A d \in Range(others) : d \in Coroutines /\ d # out /\ d # c /\ st[d] = "ready"
          <6>1. \A d \in Range(points[p]) : d \in Coroutines
            BY <2>3, HeldTypes
          <6> QED
            BY <2>1, <2>4, <3>2, <6>1
        <5> QED
          BY <2>7, <2>11, <5>1
      <4>3. Altered(B, InQueue(t), A[InQueue(t)] \o A[InPoint(p)], C)
        BY <2>7, <2>9
      <4>4. Owed(s, C) /\ Held(C) = Held(A)
        BY ONLY <2>3, <2>8, <2>12, <4>2, <4>3, MoveThem
      <4>5. Altered(C, InQueue(t), Append(C[InQueue(t)], c), D)
        <5>1. queued = Append(others, c)
          BY <3>2 DEF queued
        <5>2. queue[t] \o Append(others, c) = Append(queue[t] \o others, c)
          <6> DEFINE e == <<c>>
          <6>1. /\ queue[t] \in Seq(Coroutines) /\ others \in Seq(Coroutines) /\ e \in Seq(Coroutines)
                /\ queue[t] \o others \in Seq(Coroutines)
            BY <2>2, <2>3, <2>4, ConcatProperties
          <6>2. Append(others, c) = others \o e
            BY <2>2, <6>1, AppendIsConcat
          <6>3. Append(queue[t] \o others, c) = (queue[t] \o others) \o e
            BY <2>2, <6>1, AppendIsConcat
          <6> HIDE DEF e
          <6>4. (queue[t] \o others) \o e = queue[t] \o (others \o e)
            <7> DEFINE a == queue[t]
            <7>1. a \in Seq(Coroutines) /\ others \in Seq(Coroutines) /\ e \in Seq(Coroutines)
              BY <6>1
            <7> HIDE DEF a
            <7>2. (a \o others) \o e = a \o (others \o e)
              BY ONLY <7>1, ConcatAssociative
            <7> QED
              BY <7>2 DEF a
          <6> QED
            BY <6>2, <6>3, <6>4
        <5> QED
          BY <2>9, <2>10, <5>1, <5>2
      <4>6. c \notin Held(C)
        BY <2>12, <4>1, <4>4
      <4>7. Steady(s, r, C, {c}) /\ r[c] = "ready"
        BY <2>2, <2>5, <2>11 DEF Steady
      <4> HIDE DEF D
      <4>8. Owed(r, D) /\ Held(D) = Held(C) \cup {c}
        BY ONLY <2>2, <2>3, <4>4, <4>5, <4>6, <4>7, PutOne
      <4> QED
        BY <2>5, <2>12, <4>4, <4>8
    <3> QED
      BY <3>1, <3>2
  <2>14. CASE st' = [st EXCEPT ![c] = "ready", ![out] = "running"] /\ Transfer(t, out)
    <3>1. st' = r
      BY <2>14 DEF r
    <3>2. Handles1 = D /\ InFrames(st', Runs1)
      <4>1. \A w \in Coroutines : st'[w] = "running" <=> w = out \/ (st[w] = "running" /\ w # me(t))
        BY <2>5, <2>11, <3>1 DEF c
      <4> QED
        BY <1>11, <2>1, <2>4, <2>5, <2>14, <4>1
    <3>3. Typed(st', waits')
      BY <2>1, <2>2, <2>3, <2>4, <2>5, <2>14 DEF Typed, States
    <3> QED
      BY <2>13, <3>1, <3>2, <3>3 DEF OnceThen, Once
  <2>15. CASE st' = [st EXCEPT ![c] = "ready"] /\ Install(t, Front(stack[t]), <<out>>, NoOne)
    <3> DEFINE q == <<out>>
               T == [stack EXCEPT ![t] = Front(stack[t])]
               f == InstallFrame(t, q, NoOne)
               k == Len(T[t]) + 1
               x == <<t, Len(stack[t])>>
    <3>1. Altered(stack, t, Front(stack[t]), T) /\ DOMAIN T = Threads /\ T[t] = Front(stack[t])
      BY <2>3 DEF Altered
    <3>2. stack' = [stack EXCEPT ![t] = Append(Front(stack[t]), f)]
      BY <2>15 DEF Install
    <3>3. Altered(T, t, Append(T[t], f), stack')
      BY <2>3, <3>1, <3>2 DEF Altered
    <3> HIDE DEF T
    <3>4. HandlesOf(points', queue', T) = D /\ Altered(Runs, x, NoOne, RunsOf(T)) /\ T[t] \in Seq(Frame)
      BY <2>1, <3>1, FrontStack
    <3>5. q \in Seq(Coroutines) /\ Append(<<>>, out) = q
      BY <2>4
    <3> HIDE DEF q
    <3>6. f \in Frame /\ f.runs = NoOne /\ f.rest = q
      BY <2>3, <3>5, InstallTypes DEF Sound, Shape
    <3> HIDE DEF f, D
    <3>7. Altered(D, InFrame(t, k), q, Handles1)
      <4>1. Altered(HandlesOf(points', queue', T), InFrame(t, k), f.rest, HandlesOf(points', queue', stack'))
        BY <3>1, <3>3, <3>4, <3>6, PushHandles
      <4> QED
        BY <3>4, <3>6, <4>1
    <3>8. InFrame(t, k) \in Holders /\ D[InFrame(t, k)] = <<>>
      <4>1. InFrame(t, k) \in Holders /\ HandlesOf(points', queue', T)[InFrame(t, k)] = <<>>
        BY <3>4, AboveHandles
      <4> QED
        BY <3>4, <4>1
    <3>9. Altered(D, InFrame(t, k), Append(D[InFrame(t, k)], out), Handles1)
      BY <3>5, <3>7, <3>8
    <3>10. \A w \in Coroutines : st'[w] = IF w = c THEN "ready" ELSE st[w]
      BY <2>2, <2>3, <2>15 DEF Typed
    <3>11. Steady(r, st', D, {out}) /\ st'[out] = "ready"
      BY <2>4, <2>5, <2>11, <3>10 DEF Steady
    <3> HIDE DEF Handles1, k
    <3>12. Owed(st', Handles1)
      BY ONLY <2>4, <2>13, <3>8, <3>9, <3>11, PutOne
    <3>13. Runs1 = RunsOf(T)
      BY <3>1, <3>3, <3>4, <3>6, PushNobody
    <3>14. InFrames(st', Runs1)
      <4>1. InFrames(st, Runs) /\ x \in Spots /\ Runs[x] = me(t)
        BY <2>1, There, Mine
      <4>2. Altered(Runs, x, NoOne, Runs1)
        BY <3>4, <3>13
      <4> HIDE DEF x, Runs1
      <4>3. \A w \in Coroutines : st'[w] = "running" <=> w = NoOne \/ (st[w] = "running" /\ w # Runs[x])
        BY <2>2, <3>10, <4>1, CoroutinesAssumption DEF c
      <4> QED
        BY <4>1, <4>2, <4>3, Runner
    <3>15. Typed(st', waits')
      BY <2>1, <2>2, <2>3, <2>15 DEF Typed, States
    <3> QED
      BY <3>12, <3>14, <3>15 DEF OnceThen, Once, Handles1
  <2> QED
    BY <1>24, <2>14, <2>15 DEF Await, Become, c, out
<1>25. CASE Next
  <2>1. PICK t \in Threads : InstallerStep(t) \/ Leave(t) \/ Other(t)
    BY <1>25 DEF Next
  <2>2. CASE InstallerStep(t)
    BY <1>18, <1>20, <1>21, <2>2 DEF InstallerStep
  <2>3. CASE Leave(t)
    BY <1>16, <1>17, <1>23, <2>3 DEF Leave
  <2>4. CASE Other(t)
    BY <1>3, <1>4, <1>5, <1>6, <1>8, <1>9, <1>13, <1>14, <1>15, <1>22, <1>24, <2>4 DEF Other
  <2> QED
    BY <2>1, <2>2, <2>3, <2>4
<1> QED
  BY <1>1, <1>25

LEMMA SingleStep == ~SelfLast /\ Single /\ [Next]_vars => Single'
<1> SUFFICES ASSUME ~SelfLast, Single, [Next]_vars PROVE Single'
  OBVIOUS
<1>1. OnceThen
  BY OnceStep
<1>2. Sound'
  BY SoundStep DEF Single
<1>3. Once(st, waits, Handles, Runs)'
  BY <1>1 DEF OnceThen, Once, Typed, Owed, InFrames, Handles, Runs
<1> QED
  BY <1>2, <1>3 DEF Single

LEMMA SingleInit == Init => Single
<1> SUFFICES ASSUME Init PROVE Single
  OBVIOUS
<1>1. Sound
  BY SoundInit
<1>2. Typed(st, waits) /\ \A c \in Coroutines : st[c] = "fresh"
  BY CoroutinesAssumption DEF Init, Typed, States
<1>3. \A h \in Holders : Handles[h] = <<>>
  <2>1. /\ \A p \in Points : points[p] = <<>>
        /\ \A t \in Threads : queue[t] = <<>>
        /\ \A t \in Threads, d \in Nat : RestOf(stack[t], d) = <<>>
    BY DEF Init, RestOf
  <2>2. /\ \A p \in Points : Handles[InPoint(p)] = points[p]
        /\ \A t \in Threads : Handles[InQueue(t)] = queue[t]
        /\ \A t \in Threads, d \in Nat : Handles[InFrame(t, d)] = RestOf(stack[t], d)
    BY InHolders DEF Handles
  <2> QED
    BY <2>1, <2>2, Kinds
<1>4. Owed(st, Handles)
  <2>1. <<>> \in Seq(Coroutines) /\ IsInjective(<<>>) /\ Range(<<>>) = {}
    BY EmptySeq DEF IsInjective, Range
  <2>2. Handles = [h \in Holders |-> Handles[h]]
    BY InHolders DEF Handles
  <2>3. Handles \in Filled
    BY ONLY <1>3, <2>1, <2>2 DEF Filled
  <2>4. Distinct(Handles)
    BY ONLY <1>3, <2>1 DEF Distinct
  <2>5. Held(Handles) = {} /\ \A h \in Holders : Range(Handles[h]) = {}
    BY ONLY <1>3, <2>1 DEF Held
  <2> QED
    BY <1>2, <2>3, <2>4, <2>5 DEF Owed
<1>5. InFrames(st, Runs)
  <2>1. \A x \in Spots : Runs[x] = NoOne
    BY DEF Init, Runs, RunsOf, RunOf, Spots
  <2>2. Runs = [x \in Spots |-> Runs[x]]
    BY DEF Runs, RunsOf
  <2>3. Runs \in [Spots -> Coroutines \cup {NoOne}]
    BY ONLY <2>1, <2>2
  <2> QED
    BY <1>2, <2>1, <2>3, CoroutinesAssumption DEF InFrames
<1> QED
  BY <1>1, <1>2, <1>4, <1>5 DEF Single, Once

\* A coroutine that has a handle has one place.
LEMMA OnePlace ==
    ASSUME Single, NEW c
    PROVE  /\ c \notin Held(Handles) => Places(c) = {}
           /\ c \in Held(Handles) => Cardinality(Places(c)) = 1
<1>1. c \notin Held(Handles) => Places(c) = {}
  BY NoPlace
<1>2. ASSUME c \in Held(Handles) PROVE Cardinality(Places(c)) = 1
  <2>1. PICK h \in Holders : c \in Range(Handles[h])
    BY <1>2 DEF Held
  <2>2. PICK i \in DOMAIN Handles[h] : Handles[h][i] = c
    BY <2>1 DEF Range
  <2>3. <<h[2], i>> \in Places(c)
    BY <2>2, Placed
  <2>4. ASSUME NEW x \in Places(c) PROVE x = <<h[2], i>>
    <3>1. PICK g \in Holders : \E j \in DOMAIN Handles[g] : Handles[g][j] = c /\ x = <<g[2], j>>
      BY Placed
    <3>2. PICK j \in DOMAIN Handles[g] : Handles[g][j] = c /\ x = <<g[2], j>>
      BY <3>1
    <3>3. c \in Range(Handles[g]) /\ Distinct(Handles)
      BY <3>2, There DEF Range
    <3>4. g = h
      BY <2>1, <3>3 DEF Distinct
    <3>5. IsInjective(Handles[h])
      BY <3>3 DEF Distinct
    <3>6. i = j
      BY <2>2, <3>2, <3>4, <3>5 DEF IsInjective
    <3> QED
      BY <3>2, <3>4, <3>6
  <2>5. Places(c) = {<<h[2], i>>}
    BY <2>3, <2>4
  <2> QED
    BY <2>5, FS_Singleton
<1> QED
  BY <1>1, <1>2

\* One that runs is in one frame, and nobody else is in any.
LEMMA OneFrame ==
    ASSUME Single, NEW c \in Coroutines
    PROVE  Cardinality(Frames(c)) = IF st[c] = "running" THEN 1 ELSE 0
<1>1. ASSUME NEW x PROVE x \in Frames(c) <=> x \in Spots /\ Runs[x] = c
  <2>1. ASSUME x \in Frames(c) PROVE x \in Spots /\ Runs[x] = c
    <3>1. PICK t \in Threads : x \in {<<t, d>> : d \in {d \in 1 .. Depth(t) : stack[t][d].runs = c}}
      BY <2>1 DEF Frames
    <3>2. PICK d \in 1 .. Depth(t) : stack[t][d].runs = c /\ x = <<t, d>>
      BY <3>1
    <3>3. d \in Nat /\ RunOf(stack[t], d) = c
      BY <3>2, There DEF Depth, RunOf
    <3> QED
      BY <3>2, <3>3, There
  <2>2. ASSUME x \in Spots, Runs[x] = c PROVE x \in Frames(c)
    <3>1. PICK t \in Threads, d \in Nat : x = <<t, d>>
      BY <2>2 DEF Spots
    <3>2. RunOf(stack[t], d) = c /\ c # NoOne
      BY <2>2, <3>1, There, CoroutinesAssumption
    <3>3. d \in 1 .. Depth(t) /\ stack[t][d].runs = c
      BY <3>2 DEF RunOf, Depth
    <3>4. x \in {<<t, e>> : e \in {e \in 1 .. Depth(t) : stack[t][e].runs = c}}
      BY <3>1, <3>3
    <3> QED
      BY <3>4 DEF Frames
  <2> QED
    BY <2>1, <2>2
<1>2. InFrames(st, Runs) /\ c # NoOne
  BY There, CoroutinesAssumption
<1>3. CASE st[c] = "running"
  <2>1. PICK x \in Spots : Runs[x] = c
    BY <1>2, <1>3 DEF InFrames
  <2>2. Frames(c) = {x}
    <3>1. \A y \in Frames(c) : y = x
      BY <1>1, <1>2, <2>1 DEF InFrames
    <3>2. x \in Frames(c)
      BY <1>1, <2>1
    <3> QED
      BY ONLY <3>1, <3>2
  <2> QED
    BY <1>3, <2>2, FS_Singleton
<1>4. CASE st[c] # "running"
  <2>1. Frames(c) = {}
    BY <1>1, <1>2, <1>4 DEF InFrames
  <2> QED
    BY <1>4, <2>1, FS_EmptySet
<1> QED
  BY <1>3, <1>4

LEMMA SingleMeans == Single => TypeOK /\ OneHandle
<1> SUFFICES ASSUME Single PROVE TypeOK /\ OneHandle
  OBVIOUS
<1>1. TypeOK
  BY There DEF TypeOK, Typed, Sound, Shape
<1>2. ASSUME NEW c \in Coroutines
      PROVE  /\ st[c] = "ready" => Cardinality(Places(c)) = 1
             /\ st[c] = "running" => Cardinality(Places(c)) <= 1
             /\ st[c] \notin {"ready", "running"} => Places(c) = {}
  <2>1. /\ c \notin Held(Handles) => Places(c) = {}
        /\ c \in Held(Handles) => Cardinality(Places(c)) = 1
    BY OnePlace
  <2>2. /\ st[c] = "ready" => c \in Held(Handles)
        /\ st[c] \notin {"ready", "running"} => c \notin Held(Handles)
    BY There, NoHandle DEF Owed
  <2>3. Cardinality(Places(c)) = 0 \/ Cardinality(Places(c)) = 1
    BY <2>1, FS_EmptySet
  <2> QED
    BY <2>1, <2>2, <2>3
<1>3. OneHandle
  BY <1>2, OneFrame DEF OneHandle
<1> QED
  BY <1>1, <1>3

\* Where no coroutine awaits a suspend_point at the end of which is its own handle:
\* whoever is to be resumed has one handle, in one suspend_point, queue or call, and is
\* not running; nobody is resumed twice, while it runs or after it has returned
\* (suspend_point.h, coro_queue.h).
THEOREM ResumedOnce == ~SelfLast => (Spec => []OneHandle)
<1> SUFFICES ASSUME ~SelfLast PROVE Spec => []OneHandle
  OBVIOUS
<1>1. Init => Single
  BY SingleInit
<1>2. Single /\ [Next]_vars => Single'
  BY SingleStep
<1>3. Single => OneHandle
  BY SingleMeans
<1> QED
  BY <1>1, <1>2, <1>3, PTL DEF Spec

\* The states and what each coroutine waits for have their types, and exactly those wait
\* that wait for something.
THEOREM TypeCorrect == ~SelfLast => (Spec => []TypeOK)
<1> SUFFICES ASSUME ~SelfLast PROVE Spec => []TypeOK
  OBVIOUS
<1>1. Init => Single
  BY SingleInit
<1>2. Single /\ [Next]_vars => Single'
  BY SingleStep
<1>3. Single => TypeOK
  BY SingleMeans
<1> QED
  BY <1>1, <1>2, <1>3, PTL DEF Spec

=============================================================================
