--------------------------- MODULE PublisherProofs ---------------------------
(***************************************************************************)
(* What publishers keep and tell their subscribers, for any number of      *)
(* subscribers, threads and items.                                         *)
(*                                                                         *)
(* The invariant has the slots with their owners and the free list, the    *)
(* queue as the end of what was published, for each one suspended the one  *)
(* place that will wake it, and for each subscriber how its position is    *)
(* related to what it has read: next() moves the position under one lock   *)
(* and reads under another, and publish() and close() may come between.    *)
(***************************************************************************)
EXTENDS Publisher, SequenceTheorems, FiniteSetTheorems, WellFoundedInduction, TLAPS

(* Numbers *)

\* A set of numbers has a smallest one.
LEMMA Smallest ==
    ASSUME NEW S \in SUBSET Nat, S # {}
    PROVE  \E x \in S : \A y \in S : x <= y
<1> DEFINE Upto == {1 .. n : n \in S}
<1>1. Upto \subseteq FiniteSubsetsOf(Nat) /\ Upto # {}
  <2>1. \A n \in S : IsFiniteSet(1 .. n) /\ 1 .. n \in SUBSET Nat
    BY FS_Interval
  <2> QED
    BY <2>1 DEF FiniteSubsetsOf
<1>2. \E b \in Upto : \A d \in Upto : <<d, b>> \notin StrictSubsetOrdering(Nat)
  <2> HIDE DEF Upto
  <2> QED
    BY <1>1, FS_StrictSubsetOrderingWellFounded, WFMin
<1>3. PICK x \in S : \A y \in S : <<1 .. y, 1 .. x>> \notin StrictSubsetOrdering(Nat)
  BY <1>2
<1>4. ASSUME NEW y \in S, y < x
      PROVE  FALSE
  <2>1. 1 .. y \subseteq 1 .. x /\ x \in 1 .. x /\ x \notin 1 .. y
    BY <1>4
  <2> HIDE <1>3
  <2>2. <<1 .. y, 1 .. x>> \in StrictSubsetOrdering(Nat)
    BY <2>1 DEF StrictSubsetOrdering
  <2> QED
    BY <1>3, <2>2
<1> QED
  BY <1>4

\* What holds of 0 and of the successor of each number that it holds of, holds of all.
LEMMA AllNumbers ==
    ASSUME NEW S, 0 \in S, \A n \in Nat : n \in S => n + 1 \in S
    PROVE  \A n \in Nat : n \in S
<1> SUFFICES ASSUME NEW n \in Nat, n \notin S
             PROVE  FALSE
  OBVIOUS
<1> DEFINE Out == Nat \ S
<1>1. PICK m \in Out : \A k \in Out : m <= k
  <2>1. Out \in SUBSET Nat /\ Out # {}
    OBVIOUS
  <2> HIDE DEF Out
  <2> QED
    BY <2>1, Smallest
<1>2. m - 1 \in Nat /\ m - 1 \in S /\ (m - 1) + 1 = m
  BY <1>1
<1> QED
  BY <1>2

\* A set of numbers has a minimum.
LEMMA MinOfSome ==
    ASSUME NEW S \in SUBSET Nat, S # {}
    PROVE  Min(S) \in S /\ \A y \in S : Min(S) <= y
BY Smallest DEF Min

\* One with a bound has a maximum.
LEMMA MaxOfBounded ==
    ASSUME NEW S \in SUBSET Nat, S # {}, NEW b \in Nat, \A x \in S : x <= b
    PROVE  Max(S) \in S /\ \A y \in S : Max(S) >= y
<1> DEFINE R == {b - x : x \in S}
<1>1. R \in SUBSET Nat /\ R # {}
  <2>1. \A x \in S : b - x \in Nat
    OBVIOUS
  <2> QED
    BY <2>1
<1>2. PICK r \in R : \A y \in R : r <= y
  <2> HIDE DEF R
  <2> QED
    BY <1>1, Smallest
<1>3. PICK x \in S : r = b - x
  BY <1>2
<1>4. \A y \in S : x >= y
  <2> SUFFICES ASSUME NEW y \in S PROVE x >= y
    OBVIOUS
  <2>1. b - x <= b - y
    BY <1>2, <1>3
  <2>2. x \in Nat /\ y \in Nat
    OBVIOUS
  <2> QED
    BY <2>1, <2>2
<1> QED
  BY <1>4 DEF Max

-----------------------------------------------------------------------------
(* The loop over the slots *)

Slot == [pos : Nat, sub : Subscribers, awt : Subscribers \cup {NoOne},
         used : BOOLEAN, kicked : BOOLEAN]

\* One round.
Round(b, h) == IF Awaited(h) THEN Append(b, regs[h].awt) ELSE b

\* What the rounds 1 to n make of the buffer.
Rounds(b, n) == /\ b[0] = <<>>
                /\ \A h \in 1 .. n : b[h] = Round(b[h - 1], h)

\* The buffer as it is after each round.
LEMMA Buffer ==
    ASSUME Len(regs) \in Nat
    PROVE  \E b : Rounds(b, Len(regs)) /\ Waiting = b[Len(regs)]
<1> DEFINE N == Len(regs)
           Def(b) == b = [h \in 0 .. N |-> IF h = 0 THEN <<>>
                                           ELSE IF Awaited(h) THEN Append(b[h - 1], regs[h].awt)
                                                ELSE b[h - 1]]
           Possible == {n \in Nat : \E b : Rounds(b, n)}
<1>1. \A n \in Nat : n \in Possible
  <2>1. 0 \in Possible
    <3>1. Rounds([h \in {0} |-> <<>>], 0)
      BY DEF Rounds
    <3> QED
      BY <3>1
  <2>2. ASSUME NEW n \in Nat, n \in Possible
        PROVE  n + 1 \in Possible
    <3>1. PICK b : Rounds(b, n)
      BY <2>2
    <3> DEFINE c == [h \in 0 .. n + 1 |-> IF h = n + 1 THEN Round(b[n], n + 1) ELSE b[h]]
    <3>2. c[0] = <<>>
      BY <3>1 DEF Rounds
    <3>3. ASSUME NEW h \in 1 .. n + 1
          PROVE  c[h] = Round(c[h - 1], h)
      <4>1. CASE h = n + 1
        BY <4>1
      <4>2. CASE h \in 1 .. n
        <5>1. h \in 0 .. n + 1 /\ h - 1 \in 0 .. n + 1 /\ h # n + 1 /\ h - 1 # n + 1
          BY <4>2
        <5>2. c[h] = b[h] /\ c[h - 1] = b[h - 1]
          BY <5>1
        <5> QED
          BY <5>2, <4>2, <3>1 DEF Rounds
      <4> QED
        BY <4>1, <4>2
    <3> HIDE DEF c
    <3>4. Rounds(c, n + 1)
      BY <3>2, <3>3 DEF Rounds
    <3> QED
      BY <3>4
  <2> HIDE DEF Possible
  <2> QED
    BY <2>1, <2>2, AllNumbers
<1>2. \E b : Def(b)
  <2>1. PICK b : Rounds(b, N)
    BY <1>1
  <2> DEFINE c == [h \in 0 .. N |-> b[h]]
  <2>2. ASSUME NEW h \in 0 .. N
        PROVE  c[h] = IF h = 0 THEN <<>>
                      ELSE IF Awaited(h) THEN Append(c[h - 1], regs[h].awt) ELSE c[h - 1]
    <3>1. h # 0 => h - 1 \in 0 .. N /\ h \in 1 .. N
      OBVIOUS
    <3> QED
      BY <2>1, <3>1 DEF Rounds, Round
  <2>3. Def(c)
    BY <2>2
  <2> QED
    BY <2>3
<1> DEFINE w == CHOOSE b : Def(b)
<1>3. Def(w)
  BY <1>2
<1>4. Waiting = w[N]
  BY DEF Waiting
<1> HIDE DEF w
<1>5. Rounds(w, N)
  <2>1. w[0] = <<>>
    BY <1>3
  <2>2. ASSUME NEW h \in 1 .. N
        PROVE  w[h] = Round(w[h - 1], h)
    <3>1. h \in 0 .. N /\ h # 0
      OBVIOUS
    <3> QED
      BY <1>3, <3>1 DEF Round
  <2> QED
    BY <2>1, <2>2 DEF Rounds
<1> QED
  BY <1>4, <1>5

\* What the buffer holds: the awaiters of the slots seen, each once if they are different.
Holds(b, n) ==
    /\ b \in Seq(Subscribers)
    /\ \A i \in 1 .. Len(b) : \E h \in 1 .. n : Awaited(h) /\ regs[h].awt = b[i]
    /\ \A h \in 1 .. n : Awaited(h) => \E i \in 1 .. Len(b) : b[i] = regs[h].awt
    /\ \A i, j \in 1 .. Len(b) : b[i] = b[j] => i = j

\* A round of the loop adds the awaiter of its slot.
LEMMA RoundHolds ==
    ASSUME NEW n \in Nat, n + 1 \in Slots, NEW b, Holds(b, n),
           regs \in Seq(Slot),
           \A g, h \in Slots : Awaited(g) /\ Awaited(h) /\ regs[g].awt = regs[h].awt => g = h
    PROVE  Holds(Round(b, n + 1), n + 1)
<1> DEFINE h == n + 1
<1>1. /\ 1 .. h = (1 .. n) \cup {h} /\ h \notin 1 .. n
      /\ Slots = 1 .. Len(regs) /\ 1 .. h \subseteq Slots
  BY DEF Slots
<1>2. CASE ~Awaited(h)
  BY <1>1, <1>2 DEF Round, Holds
<1>3. CASE Awaited(h)
  <2> DEFINE a == regs[h].awt
             c == Append(b, a)
  <2>1. Round(b, h) = c
    BY <1>3 DEF Round
  <2>2. a \in Subscribers
    <3>1. regs[h] \in Slot
      BY <1>1
    <3> QED
      BY <1>3, <3>1 DEF Awaited, Slot
  <2>3. /\ c \in Seq(Subscribers) /\ Len(c) = Len(b) + 1 /\ Len(b) \in Nat
        /\ \A i \in 1 .. Len(b) : c[i] = b[i]
        /\ c[Len(b) + 1] = a
    BY <2>2, AppendProperties DEF Holds
  <2> HIDE DEF c
  <2>4. ASSUME NEW i \in 1 .. Len(c)
        PROVE  \E g \in 1 .. h : Awaited(g) /\ regs[g].awt = c[i]
    <3>1. CASE i = Len(b) + 1
      BY <1>1, <1>3, <2>3, <3>1
    <3>2. CASE i \in 1 .. Len(b)
      BY <1>1, <2>3, <3>2 DEF Holds
    <3> QED
      BY <2>3, <3>1, <3>2
  <2>5. ASSUME NEW g \in 1 .. h, Awaited(g)
        PROVE  \E i \in 1 .. Len(c) : c[i] = regs[g].awt
    <3>1. CASE g = h
      BY <2>3, <3>1
    <3>2. CASE g \in 1 .. n
      <4>1. PICK i \in 1 .. Len(b) : b[i] = regs[g].awt
        BY <2>5, <3>2 DEF Holds
      <4> QED
        BY <4>1, <2>3
    <3> QED
      BY <1>1, <3>1, <3>2
  <2>6. \A i \in 1 .. Len(b) : b[i] # a
    BY <1>1, <1>3 DEF Holds
  <2>7. ASSUME NEW i \in 1 .. Len(c), NEW j \in 1 .. Len(c), c[i] = c[j]
        PROVE  i = j
    <3>1. CASE i \in 1 .. Len(b) /\ j \in 1 .. Len(b)
      BY <2>3, <2>7, <3>1 DEF Holds
    <3>2. CASE i = Len(b) + 1 /\ j = Len(b) + 1
      BY <3>2
    <3> QED
      BY <2>3, <2>6, <2>7, <3>1, <3>2
  <2>8. Holds(c, h)
    BY ONLY <2>3, <2>4, <2>5, <2>7 DEF Holds
  <2> QED
    BY <2>1, <2>8
<1> QED
  BY <1>2, <1>3

\* Waiting is the awaiters of all slots.
LEMMA AllAwaiters ==
    ASSUME regs \in Seq(Slot),
           \A g, h \in Slots : Awaited(g) /\ Awaited(h) /\ regs[g].awt = regs[h].awt => g = h
    PROVE  Holds(Waiting, Len(regs))
<1>1. Len(regs) \in Nat
  OBVIOUS
<1>2. PICK b : Rounds(b, Len(regs)) /\ Waiting = b[Len(regs)]
  BY <1>1, Buffer
<1> DEFINE Right == {n \in Nat : n <= Len(regs) => Holds(b[n], n)}
<1>3. 0 \in Right
  <2>1. b[0] = <<>> /\ <<>> \in Seq(Subscribers) /\ Len(<<>>) = 0 /\ 1 .. 0 = {}
    BY <1>2 DEF Rounds
  <2> QED
    BY <2>1 DEF Holds
<1>4. ASSUME NEW n \in Nat, n \in Right
      PROVE  n + 1 \in Right
  <2> SUFFICES ASSUME n + 1 <= Len(regs)
               PROVE  Holds(b[n + 1], n + 1)
    OBVIOUS
  <2>1. Holds(b[n], n) /\ n + 1 \in Slots /\ n + 1 \in 1 .. Len(regs)
    BY <1>1, <1>4 DEF Slots
  <2>2. b[n + 1] = Round(b[n], n + 1)
    BY <1>2, <2>1 DEF Rounds
  <2> QED
    BY <2>1, <2>2, RoundHolds
<1>5. Len(regs) \in Right
  <2> HIDE DEF Right
  <2> QED
    BY <1>1, <1>3, <1>4, AllNumbers
<1> QED
  BY <1>1, <1>2, <1>5

-----------------------------------------------------------------------------
(* The invariant *)

\* Positions stay below the bound of the model.
Positions ==
    /\ \A h \in Used : regs[h].pos <= MaxPos
    /\ \A s \in Subscribers : use[s] = "checked" => reg(s).pos < MaxPos

\* Subscribers and used slots belong to each other.
Registered ==
    /\ \A s \in Subscribers : Alive(s) => handle[s] \in Used /\ reg(s).sub = s
    /\ \A h \in Used : Alive(regs[h].sub) /\ handle[regs[h].sub] = h

\* The rest of the slots is in the free list.
AllListed(n, list) == FreeList(n, list) /\ \A h \in Slots \ Used : \E i \in 1 .. n : list[i] = h
Free == \E n \in 0 .. Len(regs) : \E list \in [1 .. n + 1 -> 1 .. Len(regs) + 1] : AllListed(n, list)

\* The position counts what was published, and the queue has the last of it.
Newest ==
    /\ pos = published + 1
    /\ Len(q) <= published
    /\ KeepsNewest

\* An awaiter that is registered waits for the next item, nobody else waits for it, and
\* one that was taken out is with one thread.
Sleepers ==
    /\ \A h \in Slots : Awaited(h) =>
        /\ regs[h].awt = regs[h].sub /\ use[regs[h].sub] = "suspended"
        /\ regs[h].pos = pos /\ ~regs[h].kicked /\ ~closed
    /\ \A s \in Subscribers : use[s] = "suspended" /\ reg(s).awt = NoOne =>
        \E t \in Callers : \E i \in 1 .. Len(wake[t]) : wake[t][i] = s
    /\ \A t \in Callers : \A i \in 1 .. Len(wake[t]) :
        /\ use[wake[t][i]] = "suspended" /\ reg(wake[t][i]).awt = NoOne
        /\ \A u \in Callers : \A j \in 1 .. Len(wake[u]) : wake[u][j] = wake[t][i] => u = t /\ j = i

\* How far a subscriber is, compared with what it has read last, until the end.
Oldest == pos - Len(q)

Progress(s) ==
    LET p == reg(s).pos
    IN  /\ seen[s] < pos /\ p <= pos
        /\ use[s] \in {"idle", "checked", "late"} => p <= seen[s]
        /\ use[s] \in {"suspended", "reading"} => p > 0 \/ reg(s).kicked
        /\ use[s] \in {"suspended", "reading"} /\ p = pos /\ ~reg(s).kicked =>
            seen[s] + 1 = pos /\ (reg(s).awt = NoOne => closed)

\* What the types of subscriptions say of it.
Pace(s) ==
    LET p == reg(s).pos
    IN  /\ mode[s] = "all_values" =>
            /\ use[s] \in {"idle", "checked", "late"} => seen[s] = p
            /\ use[s] = "suspended" => seen[s] + 1 = p
            /\ use[s] = "reading" => seen[s] + 1 = p \/ reg(s).kicked
        /\ mode[s] = "skip_if_behind" =>
            /\ seen[s] <= p \/ seen[s] <= Oldest
            /\ p <= seen[s] + 1 \/ p <= Oldest

Reading == \A s \in Subscribers : Alive(s) /\ ~ended[s] => Progress(s) /\ Pace(s)

IInv == /\ PublisherTypeOK /\ Positions /\ Registered /\ Free
        /\ Newest /\ Sleepers /\ Reading

-----------------------------------------------------------------------------
(* What the operations do to the slots *)

\* The slots have their type.
LEMMA SlotTypes ==
    ASSUME PublisherTypeOK
    PROVE  /\ Len(regs) \in Nat /\ Slots = 1 .. Len(regs) /\ Used \subseteq Slots
           /\ regs \in Seq(Slot)
           /\ \A h \in Slots : /\ regs[h] \in Slot
                               /\ regs[h].pos \in Nat /\ regs[h].sub \in Subscribers
                               /\ regs[h].awt \in Subscribers \cup {NoOne}
                               /\ regs[h].used \in BOOLEAN /\ regs[h].kicked \in BOOLEAN
<1>1. regs \in Seq(Slot)
  BY DEF PublisherTypeOK, Slot
<1>2. Len(regs) \in Nat /\ Slots = 1 .. Len(regs)
  BY <1>1 DEF Slots
<1>3. \A h \in Slots : regs[h] \in Slot
  BY <1>1, <1>2
<1> QED
  BY <1>1, <1>2, <1>3 DEF Slot, Used

\* One slot has changed.
OneSlot(h, slot) ==
    /\ Len(regs') = Len(regs) /\ regs' \in Seq(Slot) /\ Slots' = Slots
    /\ \A g \in Slots : regs'[g] = IF g = h THEN slot ELSE regs[g]

\* An assignment to a slot changes no other.
LEMMA SlotChanges ==
    ASSUME PublisherTypeOK, NEW h \in Slots, NEW slot \in Slot, regs' = [regs EXCEPT ![h] = slot]
    PROVE  OneSlot(h, slot)
<1>1. regs \in Seq(Slot) /\ Slots = 1 .. Len(regs) /\ Len(regs) \in Nat
  BY SlotTypes
<1>2. regs' \in Seq(Slot) /\ Len(regs') = Len(regs)
  BY <1>1, ExceptSeq
<1> QED
  BY <1>1, <1>2 DEF OneSlot, Slots

\* The loop of push_lk takes all awaiters out.
LEMMA PushSlots ==
    ASSUME IInv, NEW t \in Callers, NEW items, NEW count, push_lk(t, items, count)
    PROVE  /\ Len(regs') = Len(regs) /\ regs' \in Seq(Slot) /\ Slots' = Slots /\ Used' = Used
           /\ \A h \in Slots :
                /\ regs'[h].pos = regs[h].pos /\ regs'[h].sub = regs[h].sub
                /\ regs'[h].used = regs[h].used /\ regs'[h].kicked = regs[h].kicked
                /\ regs'[h].awt = IF regs[h].used THEN NoOne ELSE regs[h].awt
           /\ \A s \in Subscribers : Alive(s) => reg(s)'.awt = NoOne \/ handle'[s] # handle[s]
           /\ \A u \in Callers : wake'[u] = IF u = t THEN Waiting ELSE wake[u]
           /\ Holds(Waiting, Len(regs))
<1>1. /\ Len(regs) \in Nat /\ Slots = 1 .. Len(regs) /\ regs \in Seq(Slot)
      /\ \A h \in Slots : regs[h] \in Slot
  BY SlotTypes DEF IInv
<1>2. \A h \in Slots : regs'[h] = IF regs[h].used THEN [regs[h] EXCEPT !.awt = NoOne] ELSE regs[h]
  BY DEF push_lk
<1>3. \A h \in Slots : regs'[h] \in Slot
  BY <1>1, <1>2 DEF Slot
<1>4. Len(regs') = Len(regs) /\ regs' \in Seq(Slot) /\ Slots' = Slots
  <2>1. regs' = [h \in 1 .. Len(regs) |-> IF regs[h].used THEN [regs[h] EXCEPT !.awt = NoOne] ELSE regs[h]]
    BY <1>1 DEF push_lk
  <2>2. \A h \in 1 .. Len(regs) : regs'[h] \in Slot
    BY <1>1, <1>3
  <2> QED
    BY <1>1, <2>1, <2>2, IsASeq DEF Slots
<1>5. \A h \in Slots :
        /\ regs'[h].pos = regs[h].pos /\ regs'[h].sub = regs[h].sub
        /\ regs'[h].used = regs[h].used /\ regs'[h].kicked = regs[h].kicked
        /\ regs'[h].awt = IF regs[h].used THEN NoOne ELSE regs[h].awt
  BY <1>1, <1>2 DEF Slot
<1>6. Used' = Used
  BY <1>4, <1>5 DEF Used
<1>7. \A s \in Subscribers : Alive(s) => reg(s)'.awt = NoOne \/ handle'[s] # handle[s]
  BY <1>5 DEF IInv, Registered, Used, reg
<1>8. \A u \in Callers : wake'[u] = IF u = t THEN Waiting ELSE wake[u]
  BY DEF push_lk, IInv, PublisherTypeOK
<1>9. \A g, h \in Slots : Awaited(g) /\ Awaited(h) /\ regs[g].awt = regs[h].awt => g = h
  BY DEF IInv, Sleepers, Registered, Awaited, Used
<1>10. Holds(Waiting, Len(regs))
  BY <1>1, <1>9, AllAwaiters
<1> QED
  BY <1>4, <1>5, <1>6, <1>7, <1>8, <1>10

\* The new subscriber's slot, and the others as they were.
LEMMA SubscribeSlots ==
    ASSUME IInv, NEW s \in Subscribers, NEW p \in Nat, subscribe_lk(s, p)
    PROVE  /\ nextFree \in Slots' /\ nextFree \notin Used
           /\ handle' = [handle EXCEPT ![s] = nextFree]
           /\ regs' \in Seq(Slot) /\ Len(regs') \in Nat
           /\ Len(regs') = IF nextFree > Len(regs) THEN Len(regs) + 1 ELSE Len(regs)
           /\ Slots \subseteq Slots' /\ Slots' \subseteq Slots \cup {nextFree}
           /\ regs'[nextFree] = [pos |-> p, sub |-> s, awt |-> NoOne, used |-> TRUE, kicked |-> FALSE]
           /\ \A h \in Slots : h # nextFree => regs'[h] = regs[h]
           /\ Used' = Used \cup {nextFree}
<1> DEFINE slot == [pos |-> p, sub |-> s, awt |-> NoOne, used |-> TRUE, kicked |-> FALSE]
<1>1. /\ Len(regs) \in Nat /\ Slots = 1 .. Len(regs) /\ regs \in Seq(Slot)
      /\ nextFree \in 1 .. Len(regs) + 1 /\ Used \subseteq Slots
  BY SlotTypes DEF IInv, PublisherTypeOK
<1>2. slot \in Slot
  BY DEF Slot
<1>3. nextFree \notin Used
  <2>0. PICK n \in 0 .. Len(regs) :
             \E list \in [1 .. n + 1 -> 1 .. Len(regs) + 1] : AllListed(n, list)
    BY DEF IInv, Free
  <2>1. PICK list \in [1 .. n + 1 -> 1 .. Len(regs) + 1] : AllListed(n, list)
    BY <2>0
  <2>2. CASE n = 0
    BY <1>1, <2>1, <2>2 DEF AllListed, FreeList
  <2>3. CASE n # 0
    BY <1>1, <2>1, <2>3 DEF AllListed, FreeList
  <2> QED
    BY <2>2, <2>3
<1>4. CASE nextFree > Len(regs)
  <2>1. nextFree = Len(regs) + 1 /\ regs' = Append(regs, slot)
    BY <1>1, <1>4 DEF subscribe_lk
  <2>2. /\ regs' \in Seq(Slot) /\ Len(regs') = Len(regs) + 1
        /\ \A h \in 1 .. Len(regs) : regs'[h] = regs[h]
        /\ regs'[Len(regs) + 1] = slot
    BY <1>1, <1>2, <2>1, AppendProperties
  <2>3. Slots' = Slots \cup {nextFree}
    BY <1>1, <2>1, <2>2 DEF Slots
  <2>4. Used' = Used \cup {nextFree}
    BY <1>1, <2>1, <2>2, <2>3 DEF Used
  <2> QED
    BY <1>1, <1>3, <2>1, <2>2, <2>3, <2>4 DEF subscribe_lk
<1>5. CASE nextFree \in Slots
  <2>1. regs' = [regs EXCEPT ![nextFree] = slot]
    BY <1>1, <1>5 DEF subscribe_lk
  <2>2. OneSlot(nextFree, slot)
    BY <1>2, <1>5, <2>1, SlotChanges DEF IInv
  <2>3. Used' = Used \cup {nextFree}
    BY <1>1, <1>5, <2>2 DEF Used, OneSlot
  <2>4. ~(nextFree > Len(regs)) /\ Len(regs') = Len(regs)
    BY <1>1, <1>5, <2>2 DEF OneSlot
  <2> QED
    BY <1>1, <1>3, <1>5, <2>2, <2>3, <2>4 DEF subscribe_lk, OneSlot
<1> QED
  BY <1>1, <1>4, <1>5

\* The three constructors are one.
LEMMA Constructors ==
    ASSUME IInv, NEW s \in Subscribers,
           Subscribe(s) \/ (\E p \in 0 .. MaxItems : SubscribeAt(s, p)) \/ \E o \in Subscribers : Copy(s, o)
    PROVE  \E p \in 0 .. MaxPos : Register(s, p)
<1> USE MaxItemsAssumption DEF MaxPos
<1>1. CASE Subscribe(s)
  BY <1>1 DEF Subscribe, IInv, PublisherTypeOK
<1>2. CASE \E p \in 0 .. MaxItems : SubscribeAt(s, p)
  BY <1>2 DEF SubscribeAt
<1>3. CASE \E o \in Subscribers : Copy(s, o)
  BY <1>3, SlotTypes DEF Copy, IInv, Registered, Positions, reg
<1> QED
  BY <1>1, <1>2, <1>3

\* The larger one of two numbers.
LEMMA MaxOfTwo ==
    ASSUME NEW a \in Nat, NEW b \in Nat
    PROVE  Max({a, b}) = IF a >= b THEN a ELSE b
<1>1. {a, b} \in SUBSET Nat /\ {a, b} # {} /\ a + b \in Nat /\ \A x \in {a, b} : x <= a + b
  OBVIOUS
<1>2. Max({a, b}) \in {a, b} /\ \A y \in {a, b} : Max({a, b}) >= y
  BY ONLY <1>1, MaxOfBounded
<1> HIDE DEF Max
<1> QED
  BY <1>2

\* The smaller one of two numbers.
LEMMA MinOfTwo ==
    ASSUME NEW a \in Nat, NEW b \in Nat
    PROVE  Min({a, b}) = IF a <= b THEN a ELSE b
<1>1. {a, b} \in SUBSET Nat /\ {a, b} # {}
  OBVIOUS
<1>2. Min({a, b}) \in {a, b} /\ \A y \in {a, b} : Min({a, b}) <= y
  BY ONLY <1>1, MinOfSome
<1> QED
  BY <1>2

\* A slot with the position it has, or the awaiter it has.
LEMMA SameSlot ==
    ASSUME regs \in Seq(Slot), NEW h \in Slots
    PROVE  /\ \A p : [regs EXCEPT ![h].pos = p]
                        = [regs EXCEPT ![h].pos = p, ![h].awt = regs[h].awt]
           /\ regs = [regs EXCEPT ![h].pos = regs[h].pos, ![h].awt = regs[h].awt]
<1>1. regs[h] \in Slot /\ Slots = 1 .. Len(regs) /\ regs = [g \in Slots |-> regs[g]]
  BY DEF Slots
<1>2. \A p : [regs[h] EXCEPT !.pos = p] = [regs[h] EXCEPT !.pos = p, !.awt = regs[h].awt]
  BY <1>1 DEF Slot
<1>3. regs[h] = [regs[h] EXCEPT !.pos = regs[h].pos, !.awt = regs[h].awt]
  BY <1>1 DEF Slot
<1> QED
  BY <1>1, <1>2, <1>3

\* The free list stays what it is while unused slots stay where they are.
LEMMA FreeKept ==
    ASSUME Free, Len(regs') = Len(regs), Slots' = Slots, Used' = Used, nextFree' = nextFree,
           \A g \in Slots \ Used : regs'[g].pos = regs[g].pos
    PROVE  Free'
<1>1. PICK n \in 0 .. Len(regs) :
           \E list \in [1 .. n + 1 -> 1 .. Len(regs) + 1] : AllListed(n, list)
  BY DEF Free
<1>2. PICK list \in [1 .. n + 1 -> 1 .. Len(regs) + 1] : AllListed(n, list)
  BY <1>1
<1>3. FreeList(n, list)'
  BY <1>2 DEF AllListed, FreeList
<1>4. \A g \in Slots' \ Used' : \E i \in 1 .. n : list[i] = g
  BY <1>2 DEF AllListed
<1> QED
  BY ONLY <1>3, <1>4, Len(regs') = Len(regs), n \in 0 .. Len(regs),
          list \in [1 .. n + 1 -> 1 .. Len(regs) + 1] DEF Free, AllListed

\* The queue is empty only before the first item.
LEMMA QueueLength ==
    ASSUME IInv
    PROVE  /\ pos = published + 1 /\ Len(q) \in Nat /\ Len(q) <= published
           /\ Len(q) = 0 => published = 0
<1>1. minLen \in Nat \ {0} /\ published \in Nat /\ q \in Seq(1 .. MaxItems)
  BY LengthsAssumption, MaxItemsAssumption DEF IInv, PublisherTypeOK
<1>2. Min({minLen, published}) = IF minLen <= published THEN minLen ELSE published
  BY <1>1, MinOfTwo
<1>3. pos = published + 1 /\ Len(q) <= published /\ Len(q) >= Min({minLen, published})
  BY DEF IInv, Newest, KeepsNewest
<1> QED
  BY <1>1, <1>2, <1>3

-----------------------------------------------------------------------------
(* The steps of next() *)

\* A step of next() gives the slot of the subscriber a position and an awaiter.
Turn(s, u, p, a) ==
    /\ use[s] \in {"idle", "checked", "reading", "late"}
    /\ use' = [use EXCEPT ![s] = u]
    /\ regs' = [regs EXCEPT ![handle[s]].pos = p, ![handle[s]].awt = a]
    /\ \A r \in Subscribers : r # s => seen'[r] = seen[r] /\ ended'[r] = ended[r]
    /\ UNCHANGED <<maxLen, minLen, pos, q, nextFree, closed, wake, handle, mode, published>>

\* It is well placed: within the bound of the model, and an awaiter is that of one
\* suspended, at the next item of an open publisher.
Placed(s, u, p, a) ==
    /\ u \in {"idle", "checked", "suspended", "reading", "late"}
    /\ p \in 0 .. MaxPos /\ (u = "checked" => p < MaxPos)
    /\ IF u = "suspended" THEN a = s /\ p = pos /\ ~reg(s).kicked /\ ~closed ELSE a = NoOne

\* The slot afterwards, and what stays as it was.
LEMMA TurnSlots ==
    ASSUME IInv, NEW s \in Subscribers, NEW u, NEW p, NEW a, Turn(s, u, p, a), Placed(s, u, p, a)
    PROVE  /\ handle[s] \in Used /\ reg(s) = regs[handle[s]] /\ reg(s).sub = s
           /\ reg(s).awt = NoOne
           /\ Len(regs') = Len(regs) /\ regs' \in Seq(Slot) /\ Slots' = Slots
           /\ reg(s)'.pos = p /\ reg(s)'.awt = a
           /\ reg(s)'.kicked = reg(s).kicked /\ reg(s)'.sub = s
           /\ \A h \in Slots : h # handle[s] => regs'[h] = regs[h]
           /\ Used' = Used
           /\ \A r \in Subscribers : /\ Alive(r)' = Alive(r)
                                     /\ r # s /\ Alive(r) => reg(r)' = reg(r) /\ handle[r] # handle[s]
           /\ \A r \in Subscribers : r # s => use'[r] = use[r]
           /\ use'[s] = u
<1> DEFINE h == handle[s]
           slot == [regs[h] EXCEPT !.pos = p, !.awt = a]
<1>1. /\ Len(regs) \in Nat /\ Slots = 1 .. Len(regs) /\ Used \subseteq Slots
      /\ \A g \in Slots : regs[g] \in Slot
  BY SlotTypes DEF IInv
<1>2. h \in Used /\ h \in Slots /\ reg(s) = regs[h] /\ regs[h].sub = s
  BY <1>1 DEF IInv, Registered, Turn, Alive, reg
<1>3. regs[h].awt = NoOne
  BY <1>2 DEF IInv, Sleepers, Awaited, Turn, Used
<1>4. slot \in Slot
  <2>1. p \in Nat
    BY MaxItemsAssumption DEF Placed, MaxPos
  <2>2. a \in Subscribers \cup {NoOne}
    BY DEF Placed
  <2> QED
    BY <1>1, <1>2, <2>1, <2>2 DEF Slot
<1>5. OneSlot(h, slot)
  <2>1. regs' = [regs EXCEPT ![h] = slot]
    BY <1>1, <1>2 DEF Turn, Slot
  <2> HIDE DEF slot
  <2> QED
    BY <2>1, <1>2, <1>4, SlotChanges DEF IInv
<1>6. slot.used /\ slot.sub = s /\ slot.pos = p /\ slot.awt = a /\ slot.kicked = regs[h].kicked
  BY <1>1, <1>2 DEF Slot, Used
<1>7. handle' = handle
  BY DEF Turn
<1>8. reg(s)' = slot
  BY <1>2, <1>5, <1>7 DEF OneSlot, reg
<1>9. Used' = Used
  BY <1>2, <1>5, <1>6 DEF Used, OneSlot
<1>10. \A r \in Subscribers : r # s => use'[r] = use[r]
  BY DEF Turn, IInv, PublisherTypeOK
<1>11. use'[s] = u /\ u # "none" /\ use[s] # "none"
  BY DEF Turn, Placed, IInv, PublisherTypeOK
<1>12. ASSUME NEW r \in Subscribers
       PROVE  /\ Alive(r)' = Alive(r)
              /\ r # s /\ Alive(r) => reg(r)' = reg(r) /\ handle[r] # h
  <2>1. Alive(r)' = Alive(r)
    BY <1>10, <1>11 DEF Alive
  <2>2. ASSUME r # s, Alive(r)
        PROVE  handle[r] # h /\ handle[r] \in Slots
    BY <1>1, <1>2, <2>2 DEF IInv, Registered, reg
  <2> QED
    BY <1>5, <1>7, <2>1, <2>2 DEF OneSlot, reg
<1>13. \A g \in Slots : g # h => regs'[g] = regs[g]
  BY <1>5 DEF OneSlot
<1> HIDE DEF slot
<1>14. reg(s)'.pos = p /\ reg(s)'.awt = a /\ reg(s)'.kicked = reg(s).kicked
       /\ reg(s)'.sub = s /\ reg(s).awt = NoOne /\ reg(s).sub = s
  BY <1>1, <1>2, <1>3, <1>6, <1>8 DEF Used
<1> QED
  BY ONLY <1>2, <1>5, <1>9, <1>10, <1>11, <1>12, <1>13, <1>14 DEF OneSlot

\* It keeps what the invariant says of slots, free list, queue and the other subscribers.
LEMMA TurnKeeps ==
    ASSUME IInv, NEW s \in Subscribers, NEW u, NEW p, NEW a, Turn(s, u, p, a), Placed(s, u, p, a),
           ~ended'[s] => Progress(s)' /\ Pace(s)',
           val' \in [Subscribers -> {Empty, Garbage} \cup 1 .. MaxItems],
           seen' \in [Subscribers -> 0 .. MaxPos], ended' \in [Subscribers -> BOOLEAN]
    PROVE  IInv'
<1> DEFINE h == handle[s]
<1>1. /\ Len(regs) \in Nat /\ Slots = 1 .. Len(regs) /\ Used \subseteq Slots
  BY SlotTypes DEF IInv
<1>2. /\ h \in Used /\ reg(s) = regs[h] /\ reg(s).sub = s /\ reg(s).awt = NoOne
      /\ Len(regs') = Len(regs) /\ regs' \in Seq(Slot) /\ Slots' = Slots
      /\ reg(s)'.pos = p /\ reg(s)'.awt = a
      /\ reg(s)'.kicked = reg(s).kicked /\ reg(s)'.sub = s
      /\ \A g \in Slots : g # h => regs'[g] = regs[g]
      /\ Used' = Used
      /\ \A r \in Subscribers : Alive(r)' = Alive(r)
      /\ \A r \in Subscribers : r # s /\ Alive(r) => reg(r)' = reg(r) /\ handle[r] # h
      /\ \A r \in Subscribers : r # s => use'[r] = use[r]
      /\ use'[s] = u
  BY TurnSlots
<1>3. handle' = handle /\ nextFree' = nextFree /\ wake' = wake /\ pos' = pos /\ q' = q
      /\ closed' = closed /\ mode' = mode /\ published' = published
      /\ minLen' = minLen /\ maxLen' = maxLen
  BY DEF Turn
<1>4. Len(regs') = Len(regs) /\ Slots' = Slots /\ regs' \in Seq(Slot)
  BY <1>2
<1>5. reg(s)' = regs'[h] /\ h \in Slots
  BY <1>1, <1>2, <1>3 DEF reg
<1>6. PublisherTypeOK'
  <2>1. use' \in [Subscribers -> Uses]
    BY DEF Turn, Placed, IInv, PublisherTypeOK, Uses
  <2> QED
    BY ONLY <2>1, <1>3, <1>4, IInv, val' \in [Subscribers -> {Empty, Garbage} \cup 1 .. MaxItems],
       seen' \in [Subscribers -> 0 .. MaxPos], ended' \in [Subscribers -> BOOLEAN]
       DEF IInv, PublisherTypeOK, Slot
<1>7. Positions'
  <2>1. \A g \in Used' : regs'[g].pos <= MaxPos
    <3>1. regs'[h].pos <= MaxPos
      BY <1>2, <1>5, MaxItemsAssumption DEF Placed, MaxPos
    <3> QED
      BY <1>1, <1>2, <3>1 DEF IInv, Positions
  <2>2. \A r \in Subscribers : use'[r] = "checked" => reg(r)'.pos < MaxPos
    BY <1>2 DEF IInv, Positions, Alive, Placed
  <2> QED
    BY <2>1, <2>2 DEF Positions, MaxPos
<1>8. Registered'
  <2>1. ASSUME NEW r \in Subscribers, Alive(r)
        PROVE  handle'[r] \in Used' /\ reg(r)'.sub = r
    BY <1>2, <1>3, <2>1 DEF IInv, Registered
  <2>2. ASSUME NEW g \in Used'
        PROVE  use'[regs'[g].sub] # "none" /\ handle'[regs'[g].sub] = g
    <3>1. regs'[g].sub = regs[g].sub
      BY <1>1, <1>2, <1>5
    <3>2. regs[g].sub \in Subscribers
      BY <1>1, <1>2, SlotTypes DEF IInv
    <3> QED
      BY <1>2, <1>3, <3>1, <3>2 DEF IInv, Registered, Alive
  <2> QED
    BY <1>2, <2>1, <2>2 DEF Registered, Alive
<1>9. Free'
  <2>1. \A g \in Slots \ Used : regs'[g].pos = regs[g].pos
    BY <1>2
  <2> QED
    BY <1>2, <1>3, <1>4, <2>1, FreeKept DEF IInv
<1>10. Newest'
  BY <1>3 DEF IInv, Newest, KeepsNewest
<1>11. Sleepers'
  <2>1. ASSUME NEW g \in Slots', Awaited(g)'
        PROVE  /\ regs'[g].awt = regs'[g].sub /\ use'[regs'[g].sub] = "suspended"
               /\ regs'[g].pos = pos' /\ ~regs'[g].kicked /\ ~closed'
    <3>1. CASE g = h
      <4>1. u = "suspended"
        BY <2>1, <3>1, <1>2, <1>5 DEF Awaited, Placed
      <4> QED
        BY <3>1, <4>1, <1>2, <1>3, <1>5 DEF Placed
    <3>2. CASE g # h
      <4>1. g \in Slots /\ Awaited(g) /\ regs'[g] = regs[g]
        BY <1>2, <1>4, <2>1, <3>2 DEF Awaited
      <4>2. regs[g].sub \in Subscribers /\ use[regs[g].sub] = "suspended"
        BY <4>1, SlotTypes DEF IInv, Sleepers
      <4>3. regs[g].sub # s
        BY <4>2 DEF Turn
      <4> QED
        BY <1>2, <1>3, <4>1, <4>2, <4>3 DEF IInv, Sleepers
    <3> QED
      BY <3>1, <3>2
  <2>2. ASSUME NEW r \in Subscribers, use'[r] = "suspended", reg(r)'.awt = NoOne
        PROVE  \E t \in Callers : \E i \in 1 .. Len(wake'[t]) : wake'[t][i] = r
    <3>1. r # s
      BY <1>2, <2>2, SubscribersAssumption DEF Placed, NoOne
    <3>2. Alive(r) /\ use[r] = "suspended" /\ reg(r)' = reg(r)
      BY <1>2, <2>2, <3>1 DEF Alive
    <3>3. \E t \in Callers : \E i \in 1 .. Len(wake[t]) : wake[t][i] = r
      BY <2>2, <3>2 DEF IInv, Sleepers
    <3> QED
      BY ONLY <1>3, <3>3
  <2>3. ASSUME NEW t \in Callers, NEW i \in 1 .. Len(wake'[t])
        PROVE  /\ use'[wake'[t][i]] = "suspended" /\ regs'[handle'[wake'[t][i]]].awt = NoOne
               /\ \A v \in Callers : \A j \in 1 .. Len(wake'[v]) :
                     wake'[v][j] = wake'[t][i] => v = t /\ j = i
    <3>1. wake[t][i] \in Subscribers /\ use[wake[t][i]] = "suspended"
      <4>1. wake[t] \in Seq(Subscribers) /\ i \in 1 .. Len(wake[t])
        BY <1>3 DEF IInv, PublisherTypeOK
      <4> QED
        BY <4>1 DEF IInv, Sleepers
    <3>2. wake[t][i] # s /\ Alive(wake[t][i])
      BY <3>1 DEF Turn, Alive
    <3>3. reg(wake[t][i])' = regs'[handle'[wake'[t][i]]] /\ wake' = wake
      BY <1>3 DEF reg
    <3>4. use'[wake[t][i]] = "suspended" /\ regs'[handle'[wake[t][i]]].awt = reg(wake[t][i]).awt
      <4>1. PICK r \in Subscribers : r = wake[t][i]
        BY <3>1
      <4>2. use'[r] = use[r] /\ reg(r)' = reg(r)
        BY <1>2, <3>2, <4>1
      <4>3. reg(r)' = regs'[handle'[r]]
        BY DEF reg
      <4> QED
        BY ONLY <3>1, <4>1, <4>2, <4>3
    <3>5. /\ reg(wake[t][i]).awt = NoOne
          /\ \A v \in Callers : \A j \in 1 .. Len(wake[v]) : wake[v][j] = wake[t][i] => v = t /\ j = i
      BY <3>3 DEF IInv, Sleepers
    <3> QED
      BY ONLY <3>3, <3>4, <3>5
  <2> QED
    BY <2>1, <2>2, <2>3 DEF Sleepers, reg
<1>12. Reading'
  <2>1. ASSUME NEW r \in Subscribers, Alive(r), ~ended'[r], r # s
        PROVE  Progress(r)' /\ Pace(r)'
    <3>1. seen'[r] = seen[r] /\ ended'[r] = ended[r] /\ use'[r] = use[r] /\ reg(r)' = reg(r)
      BY <1>2, <2>1 DEF Turn
    <3>2. Progress(r) /\ Pace(r)
      BY <2>1, <3>1 DEF IInv, Reading
    <3> QED
      BY <1>3, <3>1, <3>2 DEF Progress, Pace, Oldest
  <2> QED
    BY <1>2, <2>1 DEF Reading
<1> QED
  BY <1>6, <1>7, <1>8, <1>9, <1>10, <1>11, <1>12 DEF IInv

\* Who is in or outside of next() has a slot without an awaiter.
LEMMA OwnSlot ==
    ASSUME IInv, NEW s \in Subscribers, use[s] \notin {"none", "suspended"}
    PROVE  /\ handle[s] \in Used /\ handle[s] \in Slots /\ reg(s) = regs[handle[s]]
           /\ reg(s).pos \in Nat /\ reg(s).pos <= MaxPos
           /\ reg(s).awt = NoOne /\ reg(s).sub = s /\ regs \in Seq(Slot)
<1>1. /\ handle[s] \in Used /\ handle[s] \in Slots /\ reg(s) = regs[handle[s]] /\ reg(s).sub = s
      /\ regs \in Seq(Slot) /\ reg(s).pos \in Nat
  BY SlotTypes DEF IInv, Registered, Alive, reg
<1>2. reg(s).pos <= MaxPos
  BY <1>1 DEF IInv, Positions
<1>3. reg(s).awt = NoOne
  BY <1>1 DEF IInv, Sleepers, Awaited, Used
<1> QED
  BY <1>1, <1>2, <1>3

\* ready() and subscribe(): where the position goes.
LEMMA ReadyStep ==
    ASSUME IInv, NEW s \in Subscribers, Ready(s)
    PROVE  IInv'
<1> DEFINE p == reg(s).pos
           far == Advanced(p, mode[s])
<1>1. /\ Alive(s) /\ handle[s] \in Used /\ handle[s] \in Slots /\ reg(s) = regs[handle[s]]
      /\ p \in Nat /\ p < MaxPos /\ reg(s).awt = NoOne /\ regs \in Seq(Slot)
  BY OwnSlot DEF Ready, Alive
<1>2. /\ pos = published + 1 /\ published \in 0 .. MaxItems
      /\ Len(q) \in Nat /\ Len(q) <= published /\ Oldest = pos - Len(q) /\ Oldest \in Nat
      /\ (Len(q) = 0 => published = 0) /\ mode[s] \in Modes /\ MaxPos = MaxItems + 1 /\ MaxItems \in Nat
  BY MaxItemsAssumption, QueueLength DEF IInv, PublisherTypeOK, MaxPos, Oldest
<1>3. /\ far \in p + 1 .. MaxPos
      /\ mode[s] = "all_values" => far = p + 1
      /\ mode[s] = "skip_if_behind" => far = p + 1 \/ (far = Oldest /\ p + 1 < Oldest)
      /\ mode[s] = "skip_to_recent" => far = p + 1 \/ far = pos - 1
  <2>1. p + 1 \in Nat /\ pos - 1 \in Nat /\ Oldest \in Nat
    BY <1>1, <1>2
  <2>2. /\ Max({p + 1, pos - 1}) = IF p + 1 >= pos - 1 THEN p + 1 ELSE pos - 1
        /\ Max({p + 1, Oldest}) = IF p + 1 >= Oldest THEN p + 1 ELSE Oldest
    BY ONLY <2>1, MaxOfTwo
  <2>3. /\ mode[s] = "all_values" => far = p + 1
        /\ mode[s] = "skip_if_behind" => far = Max({p + 1, Oldest})
        /\ mode[s] = "skip_to_recent" => far = Max({p + 1, pos - 1})
    BY DEF Advanced, Oldest
  <2> HIDE DEF far
  <2>4. CASE mode[s] = "all_values"
    BY <1>1, <1>2, <2>3, <2>4
  <2>5. CASE mode[s] = "skip_if_behind"
    <3>1. far = IF p + 1 >= Oldest THEN p + 1 ELSE Oldest
      BY <2>2, <2>3, <2>5
    <3>2. p + 1 <= MaxPos /\ Oldest <= MaxPos /\ MaxPos \in Nat /\ p \in Nat /\ Oldest \in Nat
      BY <1>1, <1>2
    <3> QED
      BY ONLY <3>1, <3>2, <2>5
  <2>6. CASE mode[s] = "skip_to_recent"
    <3>1. far = IF p + 1 >= pos - 1 THEN p + 1 ELSE pos - 1
      BY <2>2, <2>3, <2>6
    <3> QED
      BY ONLY <1>1, <1>2, <3>1, <2>6
  <2> QED
    BY <1>2, <2>4, <2>5, <2>6 DEF Modes
<1>4. Reading /\ mode' = mode /\ seen' = seen /\ ended' = ended /\ val' = val /\ pos' = pos /\ q' = q
      /\ closed' = closed
  BY DEF Ready, IInv
<1>5. seen[s] \in Nat
  BY <1>2 DEF IInv, PublisherTypeOK
<1>6. CASE /\ ~reg(s).kicked /\ (p + 1 # pos \/ closed)
           /\ MoveTo(s, far)
           /\ use' = [use EXCEPT ![s] = "reading"]
  <2>1. Turn(s, "reading", far, NoOne)
    <3>1. regs' = [regs EXCEPT ![handle[s]].pos = far, ![handle[s]].awt = NoOne]
      <4> HIDE DEF far
      <4>1. regs' = [regs EXCEPT ![handle[s]].pos = far]
        BY <1>6 DEF MoveTo
      <4>2. [regs EXCEPT ![handle[s]].pos = far]
               = [regs EXCEPT ![handle[s]].pos = far, ![handle[s]].awt = regs[handle[s]].awt]
        BY <1>1, SameSlot
      <4> QED
        BY <1>1, <4>1, <4>2
    <3> QED
      BY <1>6, <3>1 DEF Turn, Ready
  <2>2. Placed(s, "reading", far, NoOne)
    BY <1>1, <1>2, <1>3 DEF Placed
  <2>3. ASSUME ~ended'[s]
        PROVE  Progress(s)' /\ Pace(s)'
    <3>1. /\ seen[s] < pos /\ p <= seen[s]
          /\ mode[s] = "all_values" => seen[s] = p
          /\ mode[s] = "skip_if_behind" =>
                /\ seen[s] <= p \/ seen[s] <= Oldest
                /\ p <= seen[s] + 1 \/ p <= Oldest
      BY <1>1, <1>4, <2>3 DEF Reading, Progress, Pace, Ready
    <3>2. use'[s] = "reading" /\ reg(s)'.pos = far /\ reg(s)'.awt = NoOne
      BY <2>1, <2>2, TurnSlots
    <3> HIDE DEF far
    <3>3. far <= pos /\ (far = pos => p + 1 = pos)
      <4>1. far = p + 1 \/ (far = Oldest /\ p + 1 < Oldest) \/ far = pos - 1
        BY <1>2, <1>3 DEF Modes
      <4>2. p + 1 <= pos /\ p \in Nat /\ pos \in Nat
        BY <1>1, <1>2, <1>5, <3>1
      <4>3. Oldest \in Nat /\ Oldest <= pos /\ (Oldest = pos => pos = 1)
        BY <1>2
      <4> QED
        BY ONLY <4>1, <4>2, <4>3
    <3>4. Progress(s)'
      <4>1. p + 1 # pos \/ closed
        BY <1>6
      <4>3. far > 0
        BY <1>1, <1>2, <1>3
      <4>2. far = pos => seen[s] + 1 = pos /\ closed
        <5>1. p \in Nat /\ pos \in Nat
          BY <1>1, <1>2
        <5> QED
          BY ONLY <5>1, <1>5, <3>1, <3>3, <4>1
      <4> QED
        BY ONLY <1>4, <3>1, <3>2, <3>3, <4>2, <4>3 DEF Progress
    <3>5. Oldest' = Oldest
      BY <1>4 DEF Oldest
    <3>6. /\ mode[s] = "all_values" => seen[s] + 1 = far
          /\ mode[s] = "skip_if_behind" =>
                /\ seen[s] <= far \/ seen[s] <= Oldest
                /\ far <= seen[s] + 1 \/ far <= Oldest
      <4>1. p \in Nat /\ Oldest \in Nat /\ far \in Int
        BY <1>1, <1>2, <1>3
      <4>2. CASE mode[s] = "all_values"
        BY ONLY <1>3, <3>1, <4>1, <4>2
      <4>3. CASE mode[s] = "skip_if_behind"
        <5>1. far = p + 1 \/ (far = Oldest /\ p + 1 < Oldest)
          BY ONLY <1>3, <4>3
        <5> QED
          BY ONLY <1>5, <3>1, <4>1, <4>3, <5>1
      <4> QED
        BY ONLY <4>2, <4>3
    <3>7. Pace(s)'
      BY <1>4, <3>2, <3>5, <3>6 DEF Pace
    <3> QED
      BY <3>4, <3>7
  <2> HIDE DEF far
  <2> QED
    BY <1>4, <2>1, <2>2, <2>3, TurnKeeps DEF IInv, PublisherTypeOK
<1>7. CASE use' = [use EXCEPT ![s] = "checked"] /\ UNCHANGED regs
  <2>1. Turn(s, "checked", p, NoOne)
    <3>1. regs' = [regs EXCEPT ![handle[s]].pos = p, ![handle[s]].awt = NoOne]
      BY <1>1, <1>7, SameSlot
    <3> QED
      BY <1>7, <3>1 DEF Turn, Ready
  <2>2. Placed(s, "checked", p, NoOne)
    BY <1>1, <1>2 DEF Placed
  <2>3. ASSUME ~ended'[s]
        PROVE  Progress(s)' /\ Pace(s)'
    <3>1. Progress(s) /\ Pace(s) /\ use[s] \in {"idle", "checked"}
      BY <1>1, <1>4, <2>3 DEF Reading, Ready
    <3>2. use'[s] = "checked" /\ reg(s)'.pos = p /\ reg(s)'.awt = NoOne
      BY <2>1, <2>2, TurnSlots
    <3>3. Oldest' = Oldest
      BY <1>4 DEF Oldest
    <3> QED
      BY <1>4, <3>1, <3>2, <3>3 DEF Progress, Pace
  <2> QED
    BY <1>4, <2>1, <2>2, <2>3, TurnKeeps DEF IInv, PublisherTypeOK
<1> QED
  BY <1>6, <1>7 DEF Ready

\* next_ready() leaves everything where it is.
LEMMA GiveUpStep ==
    ASSUME IInv, NEW s \in Subscribers, GiveUp(s)
    PROVE  IInv'
<1> DEFINE p == reg(s).pos
<1>1. /\ Alive(s) /\ handle[s] \in Slots /\ reg(s) = regs[handle[s]]
      /\ p \in Nat /\ p <= MaxPos /\ reg(s).awt = NoOne /\ regs \in Seq(Slot)
  BY OwnSlot DEF GiveUp, Alive
<1>2. Turn(s, "idle", p, NoOne) /\ Placed(s, "idle", p, NoOne)
  <2>1. regs' = [regs EXCEPT ![handle[s]].pos = p, ![handle[s]].awt = NoOne]
    <3>1. regs' = regs
      BY DEF GiveUp, queueVars
    <3>2. regs = [regs EXCEPT ![handle[s]].pos = regs[handle[s]].pos, ![handle[s]].awt = regs[handle[s]].awt]
      BY <1>1, SameSlot
    <3> QED
      BY <1>1, <3>1, <3>2
  <2>2. Turn(s, "idle", p, NoOne)
    BY <2>1 DEF Turn, GiveUp, queueVars
  <2>3. Placed(s, "idle", p, NoOne)
    BY <1>1, MaxItemsAssumption DEF Placed, MaxPos
  <2> QED
    BY <2>2, <2>3
<1>3. mode' = mode /\ seen' = seen /\ ended' = ended /\ val' = val /\ pos' = pos /\ q' = q
      /\ closed' = closed /\ Oldest' = Oldest /\ use[s] = "checked"
  BY DEF GiveUp, queueVars, Oldest
<1>4. ASSUME ~ended'[s]
      PROVE  Progress(s)' /\ Pace(s)'
  <2>1. Progress(s) /\ Pace(s)
    BY <1>1, <1>3, <1>4 DEF IInv, Reading
  <2>2. use'[s] = "idle" /\ reg(s)'.pos = p /\ reg(s)'.awt = NoOne
    BY <1>2, TurnSlots
  <2> QED
    BY <1>3, <2>1, <2>2 DEF Progress, Pace
<1> QED
  BY <1>2, <1>3, <1>4, TurnKeeps DEF IInv, PublisherTypeOK

\* subscribe(): the awaiter is registered only at the next item of an open publisher.
LEMMA SuspendStep ==
    ASSUME IInv, NEW s \in Subscribers, Suspend(s)
    PROVE  IInv'
<1> DEFINE p == reg(s).pos
<1>1. /\ Alive(s) /\ handle[s] \in Slots /\ reg(s) = regs[handle[s]] /\ regs[handle[s]] \in Slot
      /\ p \in Nat /\ p < MaxPos /\ reg(s).awt = NoOne /\ regs \in Seq(Slot)
  BY OwnSlot, SlotTypes DEF Suspend, Alive, IInv, Positions
<1>2. mode' = mode /\ seen' = seen /\ ended' = ended /\ val' = val /\ pos' = pos /\ q' = q
      /\ closed' = closed /\ Oldest' = Oldest /\ use[s] = "checked" /\ Oldest \in Int
  BY QueueLength DEF Suspend, Oldest, IInv, PublisherTypeOK
<1>3. MaxPos \in Nat /\ seen[s] \in Nat /\ pos \in Nat
  BY MaxItemsAssumption DEF MaxPos, IInv, PublisherTypeOK
<1>4. ASSUME ~ended[s]
      PROVE  /\ seen[s] < pos /\ p <= seen[s]
             /\ mode[s] = "all_values" => seen[s] = p
             /\ mode[s] = "skip_if_behind" =>
                   /\ seen[s] <= p \/ seen[s] <= Oldest
                   /\ p <= seen[s] + 1 \/ p <= Oldest
  BY <1>1, <1>2, <1>4 DEF IInv, Reading, Progress, Pace
<1>5. CASE reg(s).kicked \/ closed
  <2> DEFINE u == IF reg(s).kicked THEN "reading" ELSE "late"
  <2>1. use' = [use EXCEPT ![s] = u] /\ regs' = regs /\ u \in {"reading", "late"}
    BY <1>5 DEF Suspend
  <2>5. u = "reading" => reg(s).kicked
    OBVIOUS
  <2> HIDE DEF u
  <2>2. Turn(s, u, p, NoOne) /\ Placed(s, u, p, NoOne)
    <3>1. regs' = [regs EXCEPT ![handle[s]].pos = p, ![handle[s]].awt = NoOne]
      BY <1>1, <2>1, SameSlot
    <3>2. Turn(s, u, p, NoOne)
      BY <2>1, <3>1 DEF Turn, Suspend
    <3> QED
      BY <1>1, <1>3, <2>1, <3>2 DEF Placed
  <2>3. /\ use'[s] \in {"reading", "late"} /\ (use'[s] = "reading" => reg(s).kicked)
        /\ reg(s)'.pos = p /\ reg(s)'.awt = NoOne
        /\ reg(s)'.kicked = reg(s).kicked
    BY <2>1, <2>2, <2>5, TurnSlots
  <2>4. ASSUME ~ended'[s]
        PROVE  Progress(s)' /\ Pace(s)'
    <3>1. Progress(s)'
      BY <1>1, <1>2, <1>3, <1>4, <2>3, <2>4 DEF Progress
    <3>2. Pace(s)'
      BY <1>1, <1>2, <1>3, <1>4, <1>5, <2>3, <2>4 DEF Pace
    <3> QED
      BY <3>1, <3>2
  <2> QED
    BY <1>2, <2>2, <2>4, TurnKeeps DEF IInv, PublisherTypeOK
<1>6. CASE ~(reg(s).kicked \/ closed) /\ p + 1 = pos
  <2>1. /\ use' = [use EXCEPT ![s] = "suspended"]
        /\ regs' = [regs EXCEPT ![handle[s]].pos = @ + 1, ![handle[s]].awt = s]
    BY <1>6 DEF Suspend
  <2>2. Turn(s, "suspended", p + 1, s) /\ Placed(s, "suspended", p + 1, s)
    BY <1>1, <1>3, <1>6, <2>1 DEF Turn, Placed, Suspend
  <2>3. /\ use'[s] = "suspended" /\ reg(s)'.pos = p + 1 /\ reg(s)'.awt = s
        /\ reg(s)'.kicked = reg(s).kicked /\ s # NoOne
    BY <2>2, TurnSlots, SubscribersAssumption DEF NoOne
  <2>4. ASSUME ~ended'[s]
        PROVE  Progress(s)' /\ Pace(s)'
    <3>1. Progress(s)'
      BY <1>1, <1>2, <1>3, <1>4, <1>6, <2>3, <2>4 DEF Progress
    <3>2. Pace(s)'
      BY <1>1, <1>2, <1>3, <1>4, <1>6, <2>3, <2>4 DEF Pace
    <3> QED
      BY <3>1, <3>2
  <2> QED
    BY <1>2, <2>2, <2>4, TurnKeeps DEF IInv, PublisherTypeOK
<1>7. CASE ~(reg(s).kicked \/ closed) /\ p + 1 # pos
  <2>1. use' = [use EXCEPT ![s] = "reading"] /\ MoveTo(s, p + 1)
    BY <1>7 DEF Suspend
  <2>2. Turn(s, "reading", p + 1, NoOne) /\ Placed(s, "reading", p + 1, NoOne)
    <3>1. regs' = [regs EXCEPT ![handle[s]].pos = p + 1, ![handle[s]].awt = NoOne]
      <4>1. [regs EXCEPT ![handle[s]].pos = p + 1]
               = [regs EXCEPT ![handle[s]].pos = p + 1, ![handle[s]].awt = regs[handle[s]].awt]
        BY <1>1, SameSlot
      <4> QED
        BY <1>1, <2>1, <4>1 DEF MoveTo
    <3> QED
      BY <1>1, <1>3, <2>1, <3>1 DEF Turn, Placed, Suspend
  <2>3. /\ use'[s] = "reading" /\ reg(s)'.pos = p + 1 /\ reg(s)'.awt = NoOne
        /\ reg(s)'.kicked = reg(s).kicked
    BY <2>2, TurnSlots
  <2>4. ASSUME ~ended'[s]
        PROVE  Progress(s)' /\ Pace(s)'
    <3>1. Progress(s)'
      BY <1>1, <1>2, <1>3, <1>4, <1>7, <2>3, <2>4 DEF Progress
    <3>2. Pace(s)'
      <4>1. Oldest' = Oldest
        BY <1>2
      <4>2. mode[s] = "all_values" => seen[s] = p
        BY <1>1, <1>2, <1>4, <2>4 DEF Pace
      <4>3. mode[s] = "skip_if_behind" => (seen[s] <= p \/ seen[s] <= Oldest) /\ (p <= seen[s] + 1 \/ p <= Oldest)
        BY <1>1, <1>2, <1>4, <2>4 DEF Pace
      <4> QED
        BY <1>1, <1>2, <1>3, <1>4, <1>7, <2>3, <2>4, <4>1, <4>2, <4>3 DEF Pace
    <3> QED
      BY <3>1, <3>2
  <2> QED
    BY <1>2, <2>2, <2>4, TurnKeeps DEF IInv, PublisherTypeOK
<1> QED
  BY <1>5, <1>6, <1>7

-----------------------------------------------------------------------------
(* What next() returns *)

\* The item at the position while the queue has it; nothing at the end, and to who
\* wants all items nothing either when the queue has lost it; who may skip gets the
\* oldest or the newest item.
LEMMA WhatIsRead ==
    ASSUME IInv, NEW s \in Subscribers, use[s] \in {"reading", "late"}, ~ended[s]
    PROVE  LET p == reg(s).pos
               v == get_value(s)
           IN  \/ v = Empty /\ reg(s).kicked
               \/ v = Empty /\ p = pos /\ ~reg(s).kicked
               \/ /\ ~reg(s).kicked /\ p < pos
                  /\ \/ v = p /\ p >= Oldest /\ p > 0 /\ mode[s] # "skip_to_recent"
                     \/ v = Empty /\ p < Oldest /\ mode[s] = "all_values"
                     \/ v = Garbage /\ p = 0 /\ pos = 1 /\ mode[s] # "all_values"
                     \/ v = Oldest /\ p < Oldest /\ v \in 1 .. pos - 1 /\ mode[s] = "skip_if_behind"
                     \/ v = pos - 1 /\ v > 0 /\ mode[s] = "skip_to_recent"
<1> DEFINE p == reg(s).pos
           relpos == pos - p - 1
           inRange == relpos \in 0 .. Len(q) - 1
<1>1. p \in Nat
  BY OwnSlot
<1>2. /\ q \in Seq(1 .. MaxItems) /\ pos = published + 1 /\ published \in Nat
      /\ Len(q) \in Nat /\ Len(q) <= published /\ (Len(q) = 0 => published = 0)
      /\ Oldest = pos - Len(q) /\ mode[s] \in Modes
  BY QueueLength, MaxItemsAssumption DEF IInv, PublisherTypeOK, Oldest
<1>3. \A i \in 1 .. Len(q) : q[i] = pos - i
  BY <1>2 DEF IInv, Newest, KeepsNewest
<1>4. p <= pos
  BY DEF IInv, Reading, Progress, Alive
<1>5. CASE reg(s).kicked
  BY <1>5 DEF get_value
<1>6. CASE p = pos /\ ~reg(s).kicked
  BY <1>6 DEF get_value
<1>7. CASE p < pos /\ ~reg(s).kicked
  <2>1. relpos \in Nat /\ (inRange <=> p >= Oldest)
    BY <1>1, <1>2, <1>7
  <2>2. CASE mode[s] # "skip_to_recent" /\ inRange
    <3>1. get_value(s) = q[relpos + 1]
      BY <1>1, <1>2, <1>7, <2>2 DEF get_value
    <3>2. relpos + 1 \in 1 .. Len(q) /\ pos - (relpos + 1) = p
      <4>1. Len(q) \in Nat /\ pos \in Nat /\ p \in Nat /\ relpos \in 0 .. Len(q) - 1
        BY <1>1, <1>2, <2>2
      <4> QED
        BY ONLY <4>1
    <3>3. get_value(s) = p /\ p > 0
      <4>1. get_value(s) = p
        BY ONLY <1>3, <3>1, <3>2
      <4> QED
        BY <1>1, <1>2, <2>1, <2>2, <4>1
    <3> QED
      BY <1>7, <2>1, <2>2, <3>3
  <2>3. CASE mode[s] = "all_values" /\ ~inRange
    <3>1. get_value(s) = Empty
      BY <1>1, <1>2, <1>7, <2>3 DEF get_value
    <3> QED
      BY <1>7, <2>1, <2>3, <3>1, <1>1, <1>2
  <2>4. CASE mode[s] = "skip_if_behind" /\ ~inRange
    <3>1. CASE q = <<>>
      <4>1. get_value(s) = Garbage
        BY <1>1, <1>2, <1>7, <2>4, <3>1 DEF get_value
      <4> QED
        BY <1>1, <1>2, <1>7, <2>4, <3>1, <4>1
    <3>2. CASE q # <<>>
      <4>1. get_value(s) = Last(q)
        BY <1>1, <1>2, <1>7, <2>4, <3>2 DEF get_value
      <4>2. Len(q) \in 1 .. Len(q)
        BY <1>2, <3>2
      <4>3. get_value(s) = Oldest /\ Oldest \in 1 .. pos - 1
        BY <1>2, <1>3, <4>1, <4>2 DEF Last
      <4> QED
        BY <1>1, <1>2, <1>7, <2>1, <2>4, <4>3
    <3> QED
      BY <3>1, <3>2
  <2>5. CASE mode[s] = "skip_to_recent"
    <3>1. CASE q = <<>>
      <4>1. get_value(s) = Garbage
        BY <1>1, <1>2, <1>7, <2>5, <3>1 DEF get_value
      <4> QED
        BY <1>1, <1>2, <1>7, <2>5, <3>1, <4>1
    <3>2. CASE q # <<>>
      <4>1. get_value(s) = Head(q)
        BY <1>1, <1>2, <1>7, <2>5, <3>2 DEF get_value
      <4>2. 1 \in 1 .. Len(q)
        BY <1>2, <3>2
      <4>3. get_value(s) = pos - 1 /\ pos - 1 > 0
        BY <1>2, <1>3, <4>1, <4>2
      <4> QED
        BY <1>1, <1>2, <1>7, <2>5, <4>3
    <3> QED
      BY <3>1, <3>2
  <2> QED
    BY <1>2, <2>2, <2>3, <2>4, <2>5 DEF Modes
<1> QED
  BY <1>1, <1>2, <1>4, <1>5, <1>6, <1>7

\* Whatever it is, it is a value or one of the two special ones.
LEMMA ValueType ==
    ASSUME IInv, NEW s \in Subscribers
    PROVE  get_value(s) \in {Empty, Garbage} \cup 1 .. MaxItems
<1>1. q \in Seq(1 .. MaxItems) /\ Len(q) \in Nat
  BY DEF IInv, PublisherTypeOK
<1>2. \A i \in 1 .. Len(q) : q[i] \in 1 .. MaxItems
  BY <1>1, ElementOfSeq
<1> DEFINE relpos == pos - reg(s).pos - 1
<1>3. relpos \in 0 .. Len(q) - 1 => relpos + 1 \in 1 .. Len(q)
  <2>1. Len(q) \in Nat
    BY <1>1
  <2> HIDE DEF relpos
  <2> QED
    BY ONLY <2>1
<1>4. q # <<>> => 1 \in 1 .. Len(q) /\ Len(q) \in 1 .. Len(q) /\ Head(q) = q[1]
  <2>1. q # <<>> => Len(q) # 0
    BY <1>1, EmptySeq
  <2> QED
    BY <1>1, <2>1
<1>5. relpos \in 0 .. Len(q) - 1 => q[relpos + 1] \in 1 .. MaxItems
  BY <1>2, <1>3
<1>6. q # <<>> => Head(q) \in 1 .. MaxItems /\ Last(q) \in 1 .. MaxItems
  BY <1>2, <1>4 DEF Last
<1> QED
  BY <1>5, <1>6 DEF get_value

\* check_next(): what was read last becomes what the position says.
LEMMA ReadStep ==
    ASSUME IInv, NEW s \in Subscribers, Read(s)
    PROVE  IInv'
<1> DEFINE p == reg(s).pos
           v == get_value(s)
<1>1. /\ Alive(s) /\ handle[s] \in Slots /\ reg(s) = regs[handle[s]]
      /\ p \in Nat /\ p <= MaxPos /\ reg(s).awt = NoOne /\ regs \in Seq(Slot)
  BY OwnSlot DEF Read, Alive
<1>2. Turn(s, "idle", p, NoOne) /\ Placed(s, "idle", p, NoOne)
  <2>1. regs' = [regs EXCEPT ![handle[s]].pos = p, ![handle[s]].awt = NoOne]
    <3>1. regs' = regs
      BY DEF Read, queueVars
    <3>2. regs = [regs EXCEPT ![handle[s]].pos = regs[handle[s]].pos, ![handle[s]].awt = regs[handle[s]].awt]
      BY <1>1, SameSlot
    <3> QED
      BY <1>1, <3>1, <3>2
  <2>2. Turn(s, "idle", p, NoOne)
    BY <2>1 DEF Turn, Read, queueVars, IInv, PublisherTypeOK
  <2>3. Placed(s, "idle", p, NoOne)
    BY <1>1, MaxItemsAssumption DEF Placed, MaxPos
  <2> QED
    BY <2>2, <2>3
<1>3. mode' = mode /\ pos' = pos /\ q' = q /\ closed' = closed /\ Oldest' = Oldest
      /\ use[s] \in {"reading", "late"}
  BY DEF Read, queueVars, Oldest
<1>4. v \in {Empty, Garbage} \cup 1 .. MaxItems
  BY ValueType
<1>5. /\ val' \in [Subscribers -> {Empty, Garbage} \cup 1 .. MaxItems]
      /\ seen' \in [Subscribers -> 0 .. MaxPos] /\ ended' \in [Subscribers -> BOOLEAN]
  <2> HIDE DEF v
  <2>1. val' = [val EXCEPT ![s] = v] /\ seen' = [seen EXCEPT ![s] = IF v > 0 THEN v ELSE @]
        /\ ended' = [ended EXCEPT ![s] = @ \/ v = Empty]
    BY DEF Read, v
  <2>2. MaxPos = MaxItems + 1 /\ MaxItems \in Nat
    BY MaxItemsAssumption DEF MaxPos
  <2>3. v > 0 => v \in 0 .. MaxPos
    BY <1>4, <2>2 DEF Empty, Garbage
  <2>4. ended[s] \in BOOLEAN
    BY DEF IInv, PublisherTypeOK
  <2> QED
    BY <1>4, <2>1, <2>3, <2>4 DEF IInv, PublisherTypeOK
<1>6. ASSUME ~ended'[s]
      PROVE  Progress(s)' /\ Pace(s)'
  <2>1. ~ended[s] /\ v # Empty /\ seen'[s] = IF v > 0 THEN v ELSE seen[s]
    BY <1>6 DEF Read, IInv, PublisherTypeOK
  <2>2. Progress(s) /\ Pace(s)
    BY <1>1, <2>1 DEF IInv, Reading
  <2>3. /\ use'[s] = "idle" /\ reg(s)'.pos = p /\ reg(s)'.awt = NoOne
        /\ reg(s)'.kicked = reg(s).kicked
    BY <1>2, TurnSlots
  <2>4. /\ ~reg(s).kicked /\ p < pos
        /\ \/ v = p /\ p >= Oldest /\ p > 0 /\ mode[s] # "skip_to_recent"
           \/ v = Garbage /\ p = 0 /\ pos = 1 /\ mode[s] # "all_values"
           \/ v = Oldest /\ p < Oldest /\ v \in 1 .. pos - 1 /\ mode[s] = "skip_if_behind"
           \/ v = pos - 1 /\ v > 0 /\ mode[s] = "skip_to_recent"
    <3> HIDE DEF p, v
    <3> QED
      BY <1>3, <2>1, WhatIsRead DEF p, v
  <2>5. seen[s] \in Nat /\ pos \in Nat /\ Oldest \in Int /\ Oldest <= pos
    BY QueueLength, MaxItemsAssumption DEF IInv, PublisherTypeOK, Oldest, MaxPos
  <2>6. seen[s] < pos /\ Garbage = -1
    BY <2>2 DEF Progress, Garbage
  <2> HIDE DEF v
  <2>7. /\ seen'[s] \in Nat /\ seen'[s] < pos /\ p <= seen'[s]
        /\ mode[s] = "all_values" => seen'[s] = p
        /\ mode[s] = "skip_if_behind" => seen'[s] <= p \/ seen'[s] <= Oldest
    <3>1. CASE v = p /\ p >= Oldest /\ p > 0 /\ mode[s] # "skip_to_recent"
      BY <1>1, <2>1, <2>4, <2>5, <2>6, <3>1
    <3>2. CASE v = Garbage /\ p = 0 /\ pos = 1 /\ mode[s] # "all_values"
      BY <1>1, <2>1, <2>4, <2>5, <2>6, <3>2
    <3>3. CASE v = Oldest /\ p < Oldest /\ v \in 1 .. pos - 1 /\ mode[s] = "skip_if_behind"
      BY <1>1, <2>1, <2>4, <2>5, <2>6, <3>3
    <3>4. CASE v = pos - 1 /\ v > 0 /\ mode[s] = "skip_to_recent"
      BY <1>1, <2>1, <2>4, <2>5, <2>6, <3>4
    <3> QED
      BY <2>4, <3>1, <3>2, <3>3, <3>4
  <2>8. Progress(s)'
    <3>1. p <= pos /\ p # pos /\ pos' = pos
      BY <1>1, <1>3, <2>4, <2>5
    <3> QED
      BY ONLY <2>3, <2>7, <3>1 DEF Progress
  <2>9. Pace(s)'
    BY <1>1, <1>3, <2>3, <2>5, <2>7 DEF Pace
  <2> QED
    BY <2>8, <2>9
<1> QED
  BY <1>2, <1>5, <1>6, TurnKeeps

\* What the two action properties say of one read.
LEMMA OneRead ==
    ASSUME IInv, NEW s \in Subscribers, Read(s), ~ended[s], use[s] = "reading"
    PROVE  /\ val'[s] # Empty => NextItem(s, val'[s])
           /\ val'[s] = Empty => NoNext(s)
<1> DEFINE p == reg(s).pos
           v == get_value(s)
<1>1. val'[s] = v /\ p \in Nat /\ Alive(s)
  BY OwnSlot DEF Read, IInv, PublisherTypeOK, Alive
<1>2. \/ v = Empty /\ reg(s).kicked
      \/ v = Empty /\ p = pos /\ ~reg(s).kicked
      \/ /\ ~reg(s).kicked /\ p < pos
         /\ \/ v = p /\ p >= Oldest /\ p > 0 /\ mode[s] # "skip_to_recent"
            \/ v = Empty /\ p < Oldest /\ mode[s] = "all_values"
            \/ v = Garbage /\ p = 0 /\ pos = 1 /\ mode[s] # "all_values"
            \/ v = Oldest /\ p < Oldest /\ v \in 1 .. pos - 1 /\ mode[s] = "skip_if_behind"
            \/ v = pos - 1 /\ v > 0 /\ mode[s] = "skip_to_recent"
  <2> HIDE DEF p, v
  <2> QED
    BY <1>1, WhatIsRead DEF p, v
<1>3. Progress(s) /\ Pace(s) /\ (p > 0 \/ reg(s).kicked)
  BY <1>1 DEF IInv, Reading, Progress
<1>4. /\ seen[s] \in Nat /\ pos \in Nat /\ Oldest \in Int /\ Oldest <= pos /\ pos = published + 1
      /\ Empty = 0 /\ published \in Nat /\ Oldest = published + 1 - Len(q)
      /\ Len(q) \in Nat /\ (Len(q) = 0 => published = 0)
      /\ mode[s] \in Modes /\ seen[s] < pos
  <2>1. pos = published + 1 /\ Len(q) \in Nat /\ Len(q) <= published /\ (Len(q) = 0 => published = 0)
    BY QueueLength
  <2>2. published \in Nat /\ seen[s] \in Nat /\ mode[s] \in Modes
    BY MaxItemsAssumption DEF IInv, PublisherTypeOK, MaxPos
  <2>3. seen[s] < pos
    BY <1>3 DEF Progress
  <2> QED
    BY ONLY <2>1, <2>2, <2>3 DEF Oldest, Empty
<1>5. Range(q) = {n \in Int : Oldest <= n /\ n < pos}
  <2>1. /\ Range(q) = {q[i] : i \in DOMAIN q} /\ DOMAIN q = 1 .. Len(q) /\ Len(q) \in Nat
        /\ \A i \in 1 .. Len(q) : q[i] = pos - i
    BY <1>4 DEF IInv, PublisherTypeOK, Newest, KeepsNewest, Range
  <2>2. \A n \in Int : Oldest <= n /\ n < pos => pos - n \in 1 .. Len(q) /\ q[pos - n] = n
    BY <1>4, <2>1
  <2>3. \A i \in 1 .. Len(q) : q[i] \in Int /\ Oldest <= q[i] /\ q[i] < pos
    BY <1>4, <2>1
  <2> QED
    BY <2>1, <2>2, <2>3
<1> HIDE DEF v, p
<1>6. CASE v = Empty /\ reg(s).kicked
  BY <1>1, <1>6 DEF NoNext
<1>7. CASE v = Empty /\ p = pos /\ ~reg(s).kicked
  <2>1. seen[s] + 1 = pos /\ closed
    <3>1. reg(s).awt = NoOne
      BY OwnSlot
    <3> QED
      BY <1>3, <1>7, <3>1 DEF Progress, p
  <2>2. seen[s] >= published
    BY <1>4, <2>1
  <2> QED
    BY <1>1, <1>7, <2>1, <2>2 DEF NoNext
<1>8. CASE v = p /\ p >= Oldest /\ p > 0 /\ mode[s] # "skip_to_recent" /\ ~reg(s).kicked /\ p < pos
  <2>1. v \in Range(q) /\ v # Empty
    BY <1>1, <1>4, <1>5, <1>8
  <2>2. CASE mode[s] = "all_values"
    <3>1. v = seen[s] + 1 /\ v >= seen[s]
      BY <1>3, <1>4, <1>8, <2>2 DEF Pace, p
    <3> QED
      BY <1>1, <2>1, <2>2, <3>1 DEF NextItem
  <2>3. CASE mode[s] = "skip_if_behind"
    <3>1. /\ seen[s] <= p \/ seen[s] <= Oldest
          /\ p <= seen[s] + 1 \/ p <= Oldest
      BY <1>3, <2>3 DEF Pace, p
    <3>2. v >= seen[s] /\ \A i \in Range(q) : i > seen[s] => i >= v
      BY <1>1, <1>4, <1>5, <1>8, <3>1
    <3> QED
      BY <1>1, <2>1, <2>3, <3>2 DEF NextItem
  <2> QED
    BY <1>4, <1>8, <2>2, <2>3 DEF Modes
<1>9. CASE v = Empty /\ p < Oldest /\ mode[s] = "all_values" /\ ~reg(s).kicked
  <2>1. seen[s] + 1 = p
    BY <1>3, <1>9 DEF Pace, p
  <2>2. seen[s] + 1 <= published - Len(q)
    BY <1>1, <1>4, <1>9, <2>1
  <2> QED
    BY <1>1, <1>9, <2>2 DEF NoNext
<1>10. CASE p = 0 /\ ~reg(s).kicked
  BY <1>3, <1>10
<1>11. CASE v = Oldest /\ p < Oldest /\ v \in 1 .. pos - 1 /\ mode[s] = "skip_if_behind"
  <2>1. seen[s] <= p \/ seen[s] <= Oldest
    BY <1>3, <1>11 DEF Pace, p
  <2>2. v >= seen[s] /\ v \in Range(q) /\ v # Empty /\ \A i \in Range(q) : i >= v
    BY <1>1, <1>4, <1>5, <1>11, <2>1
  <2> QED
    BY <1>1, <1>11, <2>2 DEF NextItem
<1>12. CASE v = pos - 1 /\ v > 0 /\ mode[s] = "skip_to_recent"
  <2>1. v = published /\ v >= seen[s] /\ v # Empty
    BY <1>4, <1>12
  <2>2. Oldest < pos
    BY <1>4, <1>12
  <2>3. v \in Range(q)
    BY <1>4, <1>5, <1>12, <2>2
  <2> QED
    BY <1>1, <1>12, <2>1, <2>3 DEF NextItem
<1> QED
  BY <1>2, <1>6, <1>7, <1>8, <1>9, <1>10, <1>11, <1>12

-----------------------------------------------------------------------------
(* Publish, close, kick, resume *)

\* What push_lk leaves in the queue: the newest items, within the limits, and of the old
\* ones none that had been dropped before.
LEMMA PushedQueue ==
    ASSUME IInv, NEW t \in Callers, NEW n \in Nat, NEW items, push_lk(t, items, n),
           items \in Seq(1 .. MaxItems), Len(items) = Len(q) + n,
           \A i \in 1 .. Len(items) : items[i] = published + n + 1 - i
    PROVE  /\ q' \in Seq(1 .. MaxItems) /\ q' = [i \in 1 .. Len(q') |-> published + n + 1 - i]
           /\ Len(q') \in Nat /\ Len(q') <= Len(q) + n
           /\ Len(q') >= Min({minLen, published + n}) /\ Len(q') <= maxLen
<1> DEFINE S == {minLen} \cup {Behind(h, pos + n) : h \in Used}
           T == {Needed(pos + n), maxLen, Len(items)}
<1>1. /\ minLen \in Nat /\ maxLen \in Nat /\ minLen <= maxLen /\ pos \in Nat /\ published \in Nat
      /\ \A h \in Used : regs[h].pos \in Nat
      /\ Len(q) \in Nat /\ Len(items) \in Nat
  <2>1. \A h \in Used : regs[h].pos \in Nat
    BY SlotTypes DEF IInv
  <2>2. /\ minLen \in Nat /\ maxLen \in Nat /\ minLen <= maxLen /\ pos \in Nat /\ published \in Nat
    BY LengthsAssumption, MaxItemsAssumption DEF IInv, PublisherTypeOK
  <2>3. Len(q) \in Nat
    BY QueueLength
  <2> QED
    BY <2>1, <2>2, <2>3
<1>2. Needed(pos + n) \in Nat /\ Needed(pos + n) >= minLen
  <2>5. Needed(pos + n) = Max(S)
    BY DEF Needed
  <2>1. \A h \in Used : Behind(h, pos + n) \in Nat /\ Behind(h, pos + n) <= maxLen + pos + n
    BY <1>1 DEF Behind
  <2>2. S \in SUBSET Nat /\ S # {} /\ maxLen + pos + n \in Nat /\ minLen \in S
    BY <1>1, <2>1
  <2>3. \A x \in S : x <= maxLen + pos + n
    BY <1>1, <2>1
  <2>4. Max(S) \in S /\ \A y \in S : Max(S) >= y
    <3> HIDE DEF S
    <3> QED
      BY <2>2, <2>3, MaxOfBounded
  <2> HIDE DEF S
  <2> QED
    BY <2>2, <2>4, <2>5
<1> DEFINE m == Min(T)
<1>3. m \in T /\ \A y \in T : m <= y
  <2>1. T \in SUBSET Nat /\ T # {}
    BY <1>1, <1>2
  <2> HIDE DEF T
  <2> QED
    BY <2>1, MinOfSome
<1>4. q' = SubSeq(items, 1, m)
  BY DEF push_lk
<1> HIDE DEF m
<1>5. m \in 0 .. Len(items) /\ m <= maxLen
  BY <1>1, <1>2, <1>3
<1>6. q' \in Seq(1 .. MaxItems) /\ Len(q') = m /\ \A i \in 1 .. m : q'[i] = items[i]
  <2>1. \A i \in 1 .. m : items[i] \in 1 .. MaxItems
    <3>1. \A i \in 1 .. m : i \in 1 .. Len(items)
      BY <1>1, <1>5
    <3>2. \A i \in 1 .. Len(items) : items[i] \in 1 .. MaxItems
      BY ElementOfSeq
    <3> QED
      BY <3>1, <3>2
  <2>2. m \in Nat /\ 1 \in Int /\ m - 1 + 1 = m /\ \A i \in 1 .. m : 1 + i - 1 = i
    BY <1>1, <1>5
  <2>3. /\ SubSeq(items, 1, m) \in Seq(1 .. MaxItems)
        /\ Len(SubSeq(items, 1, m)) = IF 1 <= m THEN m - 1 + 1 ELSE 0
        /\ \A i \in 1 .. m - 1 + 1 : SubSeq(items, 1, m)[i] = items[1 + i - 1]
    BY <2>1, <2>2, SubSeqProperties
  <2> QED
    BY ONLY <1>4, <2>2, <2>3
<1>7. q' = [i \in 1 .. Len(q') |-> published + n + 1 - i]
  <2>1. \A i \in 1 .. Len(q') : q'[i] = published + n + 1 - i
    BY <1>1, <1>5, <1>6
  <2> QED
    BY <1>6, <2>1
<1>8. Len(q') >= Min({minLen, published + n})
  <2>1. Min({minLen, published}) = IF minLen <= published THEN minLen ELSE published
    BY <1>1, MinOfTwo
  <2>2. /\ published + n \in Nat
        /\ Min({minLen, published + n}) = IF minLen <= published + n THEN minLen ELSE published + n
    <3>1. published + n \in Nat
      BY <1>1
    <3> QED
      BY <1>1, <3>1, MinOfTwo
  <2>3. Len(q) >= Min({minLen, published})
    BY DEF IInv, Newest, KeepsNewest
  <2>4. m = Needed(pos + n) \/ m = maxLen \/ m = Len(q) + n
    BY <1>3
  <2>5. m >= minLen \/ m = Len(q) + n
    BY <1>1, <1>2, <2>4
  <2> QED
    BY ONLY <1>1, <1>5, <1>6, <2>1, <2>2, <2>3, <2>5, n \in Nat
<1> QED
  BY <1>5, <1>6, <1>7, <1>8

\* publish() and close(): n items, or none but closed.
LEMMA PushStep ==
    ASSUME IInv, NEW t \in Callers, Idle(t), NEW n \in Nat, NEW items, push_lk(t, items, n),
           items \in Seq(1 .. MaxItems), Len(items) = Len(q) + n,
           \A i \in 1 .. Len(items) : items[i] = published + n + 1 - i,
           published' = published + n, published + n <= MaxItems,
           closed' \in BOOLEAN, closed => closed', n > 0 \/ closed',
           UNCHANGED <<maxLen, minLen, nextFree, handle, mode, use, val, seen, ended>>
    PROVE  IInv'
<1>1. /\ Len(regs') = Len(regs) /\ regs' \in Seq(Slot) /\ Slots' = Slots /\ Used' = Used
      /\ \A h \in Slots :
           /\ regs'[h].pos = regs[h].pos /\ regs'[h].sub = regs[h].sub
           /\ regs'[h].used = regs[h].used /\ regs'[h].kicked = regs[h].kicked
           /\ regs'[h].awt = IF regs[h].used THEN NoOne ELSE regs[h].awt
      /\ \A u \in Callers : wake'[u] = IF u = t THEN Waiting ELSE wake[u]
      /\ Holds(Waiting, Len(regs))
  BY PushSlots
<1>2. /\ Used \subseteq Slots /\ Slots = 1 .. Len(regs) /\ Len(regs) \in Nat
      /\ \A h \in Used : regs[h].used
      /\ \A h \in Slots : regs[h].sub \in Subscribers
  BY SlotTypes DEF IInv, Used
<1>3. /\ q' \in Seq(1 .. MaxItems) /\ q' = [i \in 1 .. Len(q') |-> published + n + 1 - i]
      /\ Len(q') \in Nat /\ Len(q') <= Len(q) + n
      /\ Len(q') >= Min({minLen, published + n}) /\ Len(q') <= maxLen
  BY PushedQueue
<1>4. pos' = pos + n /\ published \in Nat /\ pos = published + 1 /\ Len(q) <= published /\ Len(q) \in Nat
  <2>1. pos' = pos + n
    BY DEF push_lk
  <2>2. published \in Nat
    BY MaxItemsAssumption DEF IInv, PublisherTypeOK
  <2> QED
    BY <2>1, <2>2, QueueLength
<1>5. ASSUME NEW s \in Subscribers, Alive(s)
      PROVE  /\ handle[s] \in Used /\ reg(s) = regs[handle[s]] /\ reg(s).sub = s
             /\ reg(s)' = regs'[handle[s]] /\ reg(s)'.pos = reg(s).pos
             /\ reg(s)'.kicked = reg(s).kicked /\ reg(s)'.awt = NoOne /\ reg(s)'.sub = s
  <2>1. handle[s] \in Used /\ reg(s) = regs[handle[s]] /\ reg(s).sub = s
    BY <1>5 DEF IInv, Registered, reg
  <2>2. reg(s)' = regs'[handle[s]]
    BY DEF reg
  <2>3. handle[s] \in Slots /\ regs[handle[s]].used
    BY <1>2, <2>1
  <2> QED
    BY ONLY <1>1, <2>1, <2>2, <2>3
<1>6. PublisherTypeOK'
  <2>1. wake' \in [Callers -> Seq(Subscribers)]
    BY <1>1 DEF push_lk, IInv, PublisherTypeOK, Holds
  <2>2. pos' \in 1 .. MaxItems + 1 /\ published' \in 0 .. MaxItems
    BY <1>4, MaxItemsAssumption
  <2> QED
    BY ONLY <1>1, <1>3, <2>1, <2>2, IInv, closed' \in BOOLEAN,
       UNCHANGED <<maxLen, minLen, nextFree, handle, mode, use, val, seen, ended>>
       DEF IInv, PublisherTypeOK, Slot, MaxPos
<1>7. Positions'
  <2>1. \A h \in Used' : regs'[h].pos <= MaxPos
    BY <1>1, <1>2 DEF IInv, Positions
  <2>2. \A s \in Subscribers : use'[s] = "checked" => reg(s)'.pos < MaxPos
    BY <1>5 DEF IInv, Positions, Alive
  <2> QED
    BY <2>1, <2>2 DEF Positions, MaxPos
<1>8. Registered'
  <2>1. \A s \in Subscribers : Alive(s)' => handle'[s] \in Used' /\ reg(s)'.sub = s
    BY <1>1, <1>5 DEF Alive
  <2>2. \A h \in Used' : use'[regs'[h].sub] # "none" /\ handle'[regs'[h].sub] = h
    BY <1>1, <1>2 DEF IInv, Registered, Alive
  <2> QED
    BY <2>1, <2>2 DEF Registered, Alive
<1>9. Free'
  BY <1>1, FreeKept DEF IInv
<1>10. Newest'
  <2>1. pos' = published' + 1 /\ Len(q') <= published'
    BY <1>3, <1>4
  <2>2. KeepsNewest'
    BY <1>3 DEF KeepsNewest
  <2> QED
    BY <2>1, <2>2 DEF Newest
<1>11. Sleepers'
  <2>1. \A h \in Slots' : ~Awaited(h)'
    BY <1>1 DEF Awaited
  <2>2. ASSUME NEW s \in Subscribers, use[s] = "suspended"
        PROVE  \E u \in Callers : \E i \in 1 .. Len(wake'[u]) : wake'[u][i] = s
    <3>1. handle[s] \in Used /\ reg(s) = regs[handle[s]] /\ reg(s).sub = s
      BY <1>5, <2>2 DEF Alive
    <3>2. CASE reg(s).awt = NoOne
      <4>1. PICK u \in Callers : \E i \in 1 .. Len(wake[u]) : wake[u][i] = s
        BY <2>2, <3>2 DEF IInv, Sleepers
      <4>2. PICK i \in 1 .. Len(wake[u]) : wake[u][i] = s
        BY <4>1
      <4>3. u # t
        BY <4>2 DEF Idle
      <4> QED
        BY <1>1, <4>2, <4>3
    <3>3. CASE reg(s).awt # NoOne
      <4>0. handle[s] \in Slots /\ Awaited(handle[s])
        BY <1>2, <3>1, <3>3 DEF Awaited
      <4>1. regs[handle[s]].awt = s /\ handle[s] \in 1 .. Len(regs)
        BY <1>2, <3>1, <4>0 DEF IInv, Sleepers
      <4>2. \E i \in 1 .. Len(Waiting) : Waiting[i] = s
        BY <1>1, <4>0, <4>1 DEF Holds
      <4> QED
        BY <1>1, <4>2
    <3> QED
      BY <3>2, <3>3
  <2>3. ASSUME NEW i \in 1 .. Len(Waiting)
        PROVE  /\ Waiting[i] \in Subscribers /\ use[Waiting[i]] = "suspended"
               /\ \A u \in Callers : \A j \in 1 .. Len(wake[u]) : wake[u][j] # Waiting[i]
    <3>1. PICK h \in 1 .. Len(regs) : Awaited(h) /\ regs[h].awt = Waiting[i]
      BY <1>1 DEF Holds
    <3>2. regs[h].sub = Waiting[i] /\ h \in Used /\ Waiting[i] \in Subscribers
          /\ use[Waiting[i]] = "suspended"
      BY <1>2, <3>1 DEF IInv, Sleepers, Awaited, Used
    <3>3. handle[Waiting[i]] = h /\ reg(Waiting[i]).awt # NoOne
      BY <3>1, <3>2 DEF IInv, Registered, Awaited, reg
    <3>4. \A u \in Callers : \A j \in 1 .. Len(wake[u]) : reg(wake[u][j]).awt = NoOne
      BY DEF IInv, Sleepers
    <3> QED
      BY ONLY <3>2, <3>3, <3>4
  <2>4. ASSUME NEW u \in Callers, NEW i \in 1 .. Len(wake'[u])
        PROVE  /\ use'[wake'[u][i]] = "suspended" /\ regs'[handle'[wake'[u][i]]].awt = NoOne
               /\ \A v \in Callers : \A j \in 1 .. Len(wake'[v]) :
                     wake'[v][j] = wake'[u][i] => v = u /\ j = i
    <3>1. wake'[u][i] \in Subscribers /\ use[wake'[u][i]] = "suspended"
      <4>1. CASE u = t
        BY <1>1, <2>3, <4>1
      <4>2. CASE u # t
        <5>1. wake'[u] = wake[u] /\ wake[u] \in Seq(Subscribers)
          BY <1>1, <4>2 DEF IInv, PublisherTypeOK
        <5> QED
          BY <5>1 DEF IInv, Sleepers
      <4> QED
        BY <4>1, <4>2
    <3>2. regs'[handle'[wake'[u][i]]].awt = NoOne
      <4> DEFINE s == wake'[u][i]
      <4> HIDE DEF s
      <4>1. s \in Subscribers => (use[s] = "suspended" => regs'[handle'[s]].awt = NoOne)
        BY <1>5 DEF Alive
      <4> QED
        BY <3>1, <4>1 DEF s
    <3>3. ASSUME NEW v \in Callers, NEW j \in 1 .. Len(wake'[v]), wake'[v][j] = wake'[u][i]
          PROVE  v = u /\ j = i
      <4>1. CASE u = t /\ v = t
        BY ONLY <1>1, <3>3, <4>1, i \in 1 .. Len(wake'[u]), j \in 1 .. Len(wake'[v]) DEF Holds
      <4>2. CASE u = t /\ v # t
        <5>1. wake'[u] = Waiting /\ wake'[v] = wake[v]
          BY <1>1, <4>2
        <5> QED
          BY ONLY <2>3, <3>3, <5>1, i \in 1 .. Len(wake'[u]), j \in 1 .. Len(wake'[v]),
             v \in Callers
      <4>3. CASE u # t /\ v = t
        <5>1. wake'[v] = Waiting /\ wake'[u] = wake[u]
          BY <1>1, <4>3
        <5> QED
          BY ONLY <2>3, <3>3, <5>1, i \in 1 .. Len(wake'[u]), j \in 1 .. Len(wake'[v]),
             u \in Callers
      <4>4. CASE u # t /\ v # t
        <5>1. wake'[u] = wake[u] /\ wake'[v] = wake[v]
          BY <1>1, <4>4
        <5>2. \A x, y \in Callers : \A k \in 1 .. Len(wake[x]), l \in 1 .. Len(wake[y]) :
                 wake[y][l] = wake[x][k] => y = x /\ l = k
          BY DEF IInv, Sleepers
        <5> QED
          BY ONLY <3>3, <5>1, <5>2, i \in 1 .. Len(wake'[u]), j \in 1 .. Len(wake'[v]),
             u \in Callers, v \in Callers
      <4> QED
        BY <4>1, <4>2, <4>3, <4>4
    <3> QED
      BY <3>1, <3>2, <3>3
  <2>5. \A s \in Subscribers : use'[s] = "suspended" /\ reg(s)'.awt = NoOne =>
           \E u \in Callers : \E i \in 1 .. Len(wake'[u]) : wake'[u][i] = s
    BY <2>2
  <2> QED
    BY <2>1, <2>4, <2>5 DEF Sleepers, reg
<1>12. Reading'
  <2>1. ASSUME NEW s \in Subscribers, Alive(s), ~ended[s]
        PROVE  Progress(s)' /\ Pace(s)'
    <3>1. Progress(s) /\ Pace(s)
      BY <2>1 DEF IInv, Reading
    <3>2. reg(s)'.pos = reg(s).pos /\ reg(s)'.kicked = reg(s).kicked /\ reg(s)'.awt = NoOne
      BY <1>5, <2>1
    <3>3. seen[s] \in Nat /\ reg(s).pos \in Nat /\ pos \in Nat
      <4>1. handle[s] \in Slots /\ reg(s) = regs[handle[s]]
        BY <1>2, <1>5, <2>1
      <4> QED
        <5>1. regs[handle[s]].pos \in Nat
          BY <4>1, SlotTypes DEF IInv
        <5>2. seen[s] \in Nat /\ pos \in Nat
          BY MaxItemsAssumption DEF IInv, PublisherTypeOK, MaxPos
        <5> QED
          BY ONLY <4>1, <5>1, <5>2
    <3>4. Progress(s)'
      <4>1. seen'[s] < pos' /\ reg(s)'.pos <= pos'
        BY <1>4, <3>1, <3>2, <3>3 DEF Progress
      <4>2. reg(s)'.pos = pos' => n = 0 /\ reg(s).pos = pos /\ closed'
        BY <1>4, <3>1, <3>2, <3>3 DEF Progress
      <4> QED
        BY <1>4, <3>1, <3>2, <3>3, <4>1, <4>2 DEF Progress
    <3>5. Oldest' >= Oldest /\ Oldest \in Int /\ Oldest' \in Int
      BY <1>3, <1>4 DEF Oldest
    <3>6. Pace(s)'
      BY <3>1, <3>2, <3>3, <3>5 DEF Pace
    <3> QED
      BY <3>4, <3>6
  <2> QED
    BY <2>1 DEF Reading, Alive
<1> QED
  BY <1>6, <1>7, <1>8, <1>9, <1>10, <1>11, <1>12 DEF IInv

\* publish(): the new items go in front.
LEMMA PublishStep ==
    ASSUME IInv, NEW t \in Callers, NEW n \in 1 .. 2, Publish(t, n)
    PROVE  IInv'
<1> DEFINE front == [i \in 1 .. n |-> published + n + 1 - i]
           items == front \o q
<1>1. /\ q \in Seq(1 .. MaxItems) /\ Len(q) \in Nat /\ published \in Nat /\ MaxItems \in Nat
      /\ \A i \in 1 .. Len(q) : q[i] = published + 1 - i
  BY MaxItemsAssumption DEF IInv, PublisherTypeOK, Newest, KeepsNewest
<1>2. published + n <= MaxItems /\ Idle(t) /\ push_lk(t, items, n) /\ n \in Nat /\ n > 0
  BY DEF Publish
<1>3. front \in Seq(1 .. MaxItems) /\ Len(front) = n /\ \A i \in 1 .. n : front[i] = published + n + 1 - i
  <2>1. \A i \in 1 .. n : published + n + 1 - i \in 1 .. MaxItems
    BY <1>1, <1>2
  <2> QED
    BY <1>2, <2>1, IsASeq
<1> HIDE DEF front
<1>4. /\ items \in Seq(1 .. MaxItems) /\ Len(items) = n + Len(q)
      /\ \A i \in 1 .. n + Len(q) : items[i] = IF i <= n THEN front[i] ELSE q[i - n]
  BY <1>1, <1>3, ConcatProperties
<1>5. \A i \in 1 .. Len(items) : items[i] = published + n + 1 - i
  <2> SUFFICES ASSUME NEW i \in 1 .. n + Len(q)
               PROVE  items[i] = published + n + 1 - i
    BY <1>4
  <2>1. CASE i <= n
    BY <1>2, <1>3, <1>4, <2>1
  <2>2. CASE ~(i <= n)
    <3>1. i - n \in 1 .. Len(q) /\ items[i] = q[i - n]
      BY <1>1, <1>2, <1>4, <2>2
    <3> QED
      BY <1>1, <1>2, <3>1
  <2> QED
    BY <2>1, <2>2
<1> HIDE DEF items
<1>6. /\ published' = published + n /\ closed' = closed /\ closed \in BOOLEAN
      /\ UNCHANGED <<maxLen, minLen, nextFree, handle, mode, use, val, seen, ended>>
  BY DEF Publish, IInv, PublisherTypeOK
<1>7. Len(items) = Len(q) + n
  BY <1>1, <1>4
<1> QED
  BY <1>2, <1>4, <1>5, <1>6, <1>7, PushStep

\* close(): no item, but everybody is woken.
LEMMA CloseStep ==
    ASSUME IInv, NEW t \in Callers, Close(t)
    PROVE  IInv'
<1>1. /\ q \in Seq(1 .. MaxItems) /\ Len(q) \in Nat /\ published \in 0 .. MaxItems /\ MaxItems \in Nat
      /\ \A i \in 1 .. Len(q) : q[i] = published + 1 - i
  BY MaxItemsAssumption DEF IInv, PublisherTypeOK, Newest, KeepsNewest
<1>2. /\ Len(q) = Len(q) + 0 /\ published' = published + 0 /\ published + 0 <= MaxItems
      /\ \A i \in 1 .. Len(q) : q[i] = published + 0 + 1 - i
  BY <1>1 DEF Close
<1>3. /\ closed' = TRUE /\ Idle(t) /\ push_lk(t, q, 0)
      /\ UNCHANGED <<maxLen, minLen, nextFree, handle, mode, use, val, seen, ended>>
  BY DEF Close
<1> QED
  BY <1>1, <1>2, <1>3, PushStep

\* kick(): an awaiter goes to the thread.
LEMMA KickStep ==
    ASSUME IInv, NEW t \in Callers, NEW k \in Subscribers, Kick(t, k)
    PROVE  IInv'
<1>1. PICK h \in Used :
         /\ regs[h].sub = k
         /\ wake' = [wake EXCEPT ![t] = IF regs[h].awt = NoOne THEN <<>> ELSE <<regs[h].awt>>]
         /\ regs' = [regs EXCEPT ![h].awt = NoOne, ![h].kicked = TRUE]
  BY DEF Kick
<1>2. /\ Used \subseteq Slots /\ Slots = 1 .. Len(regs) /\ Len(regs) \in Nat /\ h \in Slots
      /\ \A g \in Slots : regs[g] \in Slot
      /\ \A g \in Slots : regs[g].sub \in Subscribers /\ regs[g].awt \in Subscribers \cup {NoOne}
      /\ wake[t] = <<>> /\ regs[h].used
  BY SlotTypes DEF IInv, Kick, Idle, Used
<1>3. /\ UNCHANGED <<maxLen, minLen, pos, q, nextFree, closed, handle, mode, use, val,
                     published, seen, ended>>
      /\ Oldest' = Oldest
  BY DEF Kick, Oldest
<1> DEFINE slot == [regs[h] EXCEPT !.awt = NoOne, !.kicked = TRUE]
<1>4. /\ Len(regs') = Len(regs) /\ regs' \in Seq(Slot) /\ Slots' = Slots
      /\ \A g \in Slots : regs'[g] = IF g = h THEN slot ELSE regs[g]
  <2>1. slot \in Slot /\ regs' = [regs EXCEPT ![h] = slot]
    BY <1>1, <1>2 DEF Slot
  <2> HIDE DEF slot
  <2>2. OneSlot(h, slot)
    BY <1>2, <2>1, SlotChanges DEF IInv
  <2> QED
    BY <2>2 DEF OneSlot
<1>5. /\ regs'[h].pos = regs[h].pos /\ regs'[h].sub = k /\ regs'[h].used = regs[h].used
      /\ regs'[h].awt = NoOne /\ regs'[h].kicked
      /\ \A g \in Slots : g # h => regs'[g] = regs[g]
  <2>1. /\ slot.pos = regs[h].pos /\ slot.sub = regs[h].sub /\ slot.used = regs[h].used
        /\ slot.awt = NoOne /\ slot.kicked
    BY <1>2 DEF Slot
  <2> HIDE DEF slot
  <2> QED
    BY <1>1, <1>2, <1>4, <2>1
<1>6. Used' = Used
  BY <1>2, <1>4, <1>5 DEF Used
<1>7. Alive(k) /\ handle[k] = h /\ reg(k) = regs[h]
  BY <1>1 DEF IInv, Registered, reg
<1>8. ASSUME NEW s \in Subscribers, Alive(s)
      PROVE  /\ handle[s] \in Slots /\ handle[s] \in Used /\ reg(s).sub = s
             /\ reg(s)' = regs'[handle[s]] /\ reg(s) = regs[handle[s]]
             /\ reg(s)'.pos = reg(s).pos /\ reg(s)'.sub = s
             /\ s # k => reg(s)' = reg(s)
  <2>1. handle[s] \in Used /\ reg(s).sub = s /\ reg(s) = regs[handle[s]]
    BY <1>8 DEF IInv, Registered, reg
  <2>2. s # k => handle[s] # h
    BY <1>1, <2>1
  <2>3. reg(s)' = regs'[handle[s]]
    BY <1>3 DEF reg
  <2> QED
    BY <1>1, <1>2, <1>5, <2>1, <2>2, <2>3
<1>9. \A u \in Callers : wake'[u] = IF u = t THEN IF regs[h].awt = NoOne THEN <<>> ELSE <<regs[h].awt>>
                                    ELSE wake[u]
  BY <1>1 DEF IInv, PublisherTypeOK
<1>10. regs[h].awt # NoOne =>
          regs[h].awt = k /\ use[k] = "suspended" /\ \A u \in Callers : \A j \in 1 .. Len(wake[u]) : wake[u][j] # k
  <2> SUFFICES ASSUME regs[h].awt # NoOne
               PROVE  regs[h].awt = k /\ use[k] = "suspended"
                      /\ \A u \in Callers : \A j \in 1 .. Len(wake[u]) : wake[u][j] # k
    OBVIOUS
  <2>1. Awaited(h)
    BY <1>2 DEF Awaited
  <2>2. regs[h].awt = k /\ use[k] = "suspended"
    BY <1>1, <1>2, <2>1 DEF IInv, Sleepers
  <2>3. \A u \in Callers : \A j \in 1 .. Len(wake[u]) : wake[u][j] # k
    BY <1>7 DEF IInv, Sleepers
  <2> QED
    BY <2>2, <2>3
<1>11. PublisherTypeOK'
  <2>1. wake' \in [Callers -> Seq(Subscribers)]
    <3>1. regs[h].awt # NoOne => <<regs[h].awt>> \in Seq(Subscribers)
      BY <1>2
    <3>2. <<>> \in Seq(Subscribers)
      OBVIOUS
    <3> QED
      BY <1>1, <3>1, <3>2 DEF IInv, PublisherTypeOK
  <2> QED
    BY ONLY <1>3, <1>4, <2>1, IInv DEF IInv, PublisherTypeOK, Slot, MaxPos
<1>12. Positions'
  <2>1. \A g \in Used' : regs'[g].pos <= MaxPos
    BY <1>2, <1>5, <1>6 DEF IInv, Positions
  <2>2. \A s \in Subscribers : use'[s] = "checked" => reg(s)'.pos < MaxPos
    BY <1>3, <1>8 DEF IInv, Positions, Alive
  <2> QED
    BY <2>1, <2>2 DEF Positions, MaxPos
<1>13. Registered'
  <2>1. \A s \in Subscribers : Alive(s)' => handle'[s] \in Used' /\ reg(s)'.sub = s
    BY <1>3, <1>6, <1>8 DEF Alive
  <2>2. \A g \in Used' : use'[regs'[g].sub] # "none" /\ handle'[regs'[g].sub] = g
    BY <1>1, <1>2, <1>3, <1>5, <1>6 DEF IInv, Registered, Alive
  <2> QED
    BY <2>1, <2>2 DEF Registered, Alive
<1>14. Free'
  <2>1. \A g \in Slots \ Used : regs'[g].pos = regs[g].pos
    BY <1>5
  <2> QED
    BY <1>3, <1>4, <1>6, <2>1, FreeKept DEF IInv
<1>15. Newest'
  BY <1>3 DEF IInv, Newest, KeepsNewest
<1>16. Sleepers'
  <2>1. ASSUME NEW g \in Slots', Awaited(g)'
        PROVE  /\ regs'[g].awt = regs'[g].sub /\ use'[regs'[g].sub] = "suspended"
               /\ regs'[g].pos = pos' /\ ~regs'[g].kicked /\ ~closed'
    <3>1. g # h /\ regs'[g] = regs[g] /\ g \in Slots
      BY <1>4, <1>5, <2>1 DEF Awaited
    <3>2. Awaited(g)
      BY <2>1, <3>1 DEF Awaited
    <3> QED
      BY <1>3, <3>1, <3>2 DEF IInv, Sleepers
  <2>2. ASSUME NEW s \in Subscribers, use[s] = "suspended", reg(s)'.awt = NoOne
        PROVE  \E u \in Callers : \E i \in 1 .. Len(wake'[u]) : wake'[u][i] = s
    <3>1. CASE reg(s).awt = NoOne
      <4>1. PICK u \in Callers : \E i \in 1 .. Len(wake[u]) : wake[u][i] = s
        BY <2>2, <3>1 DEF IInv, Sleepers
      <4>2. PICK i \in 1 .. Len(wake[u]) : wake[u][i] = s
        BY <4>1
      <4>3. u # t
        BY <1>2, <4>2
      <4> QED
        BY <1>9, <4>2, <4>3
    <3>2. CASE reg(s).awt # NoOne
      <4>1. s = k
        BY <1>8, <2>2, <3>2 DEF Alive
      <4>2. wake'[t] = <<s>>
        BY <1>7, <1>9, <1>10, <3>2, <4>1
      <4>3. 1 \in 1 .. Len(wake'[t]) /\ wake'[t][1] = s
        BY <4>2
      <4> QED
        BY <4>3
    <3> QED
      BY <3>1, <3>2
  <2>3. ASSUME NEW u \in Callers, NEW i \in 1 .. Len(wake'[u])
        PROVE  \/ u = t /\ i = 1 /\ wake'[u][i] = k /\ use[k] = "suspended" /\ regs[h].awt # NoOne
               \/ u # t /\ wake'[u] = wake[u]
    <3>1. CASE u = t
      <4>1. CASE regs[h].awt = NoOne
        BY <1>9, <3>1, <4>1
      <4>2. CASE regs[h].awt # NoOne
        <5>1. wake'[u] = <<k>> /\ Len(<<k>>) = 1 /\ <<k>>[1] = k
          BY <1>9, <1>10, <3>1, <4>2
        <5> QED
          BY <1>10, <3>1, <4>2, <5>1
      <4> QED
        BY <4>1, <4>2
    <3> QED
      BY <1>9, <3>1
  <2>4. ASSUME NEW u \in Callers, NEW i \in 1 .. Len(wake'[u])
        PROVE  /\ use'[wake'[u][i]] = "suspended" /\ regs'[handle'[wake'[u][i]]].awt = NoOne
               /\ \A v \in Callers : \A j \in 1 .. Len(wake'[v]) :
                     wake'[v][j] = wake'[u][i] => v = u /\ j = i
    <3>1. CASE u = t /\ i = 1 /\ wake'[u][i] = k /\ use[k] = "suspended" /\ regs[h].awt # NoOne
      <4>1. use'[k] = "suspended" /\ regs'[handle'[k]].awt = NoOne
        BY <1>3, <1>5, <1>7, <3>1
      <4>2. ASSUME NEW v \in Callers, NEW j \in 1 .. Len(wake'[v]), wake'[v][j] = k
            PROVE  v = t /\ j = 1
        BY <1>10, <2>3, <3>1, <4>2
      <4> QED
        BY <3>1, <4>1, <4>2
    <3>2. CASE u # t /\ wake'[u] = wake[u]
      <4>1. wake[u] \in Seq(Subscribers) /\ i \in 1 .. Len(wake[u])
        BY <3>2 DEF IInv, PublisherTypeOK
      <4>2. PICK s \in Subscribers : s = wake[u][i]
        BY <4>1, ElementOfSeq
      <4>3. use[s] = "suspended" /\ reg(s).awt = NoOne
        BY <4>1, <4>2 DEF IInv, Sleepers
      <4>4. regs'[handle'[s]].awt = NoOne
        BY <1>3, <1>5, <1>7, <1>8, <4>3 DEF Alive
      <4>5. ASSUME NEW v \in Callers, NEW j \in 1 .. Len(wake'[v]), wake'[v][j] = s
            PROVE  v = u /\ j = i
        <5>1. CASE v = t /\ wake'[v][j] = k /\ regs[h].awt # NoOne
          BY <1>10, <4>1, <4>2, <4>5, <5>1
        <5>2. CASE v # t /\ wake'[v] = wake[v]
          BY <4>1, <4>2, <4>5, <5>2 DEF IInv, Sleepers
        <5> QED
          BY <2>3, <5>1, <5>2
      <4> QED
        BY <1>3, <3>2, <4>2, <4>3, <4>4, <4>5
    <3> QED
      BY <2>3, <3>1, <3>2
  <2>5. \A s \in Subscribers : use'[s] = "suspended" /\ reg(s)'.awt = NoOne =>
           \E u \in Callers : \E i \in 1 .. Len(wake'[u]) : wake'[u][i] = s
    BY <1>3, <2>2
  <2> QED
    BY <2>1, <2>4, <2>5 DEF Sleepers, reg
<1>17. Reading'
  <2>1. ASSUME NEW s \in Subscribers, Alive(s), ~ended[s]
        PROVE  Progress(s)' /\ Pace(s)'
    <3>1. Progress(s) /\ Pace(s)
      BY <2>1 DEF IInv, Reading
    <3>2. reg(s)'.pos = reg(s).pos /\ (s # k => reg(s)' = reg(s))
      BY <1>8, <2>1
    <3>3. reg(k)'.kicked
      BY <1>5, <1>7, <1>8
    <3>4. Progress(s)'
      BY ONLY <1>3, <3>1, <3>2, <3>3 DEF Progress
    <3>5. Pace(s)'
      BY ONLY <1>3, <3>1, <3>2, <3>3 DEF Pace
    <3> QED
      BY <3>4, <3>5
  <2> QED
    BY <1>3, <2>1 DEF Reading, Alive
<1> QED
  BY <1>11, <1>12, <1>13, <1>14, <1>15, <1>16, <1>17 DEF IInv

\* The thread resumes the first of its awaiters.
LEMMA ResumeStep ==
    ASSUME IInv, NEW t \in Callers, Resume(t)
    PROVE  IInv'
<1> DEFINE k == Head(wake[t])
<1>1. /\ wake[t] \in Seq(Subscribers) /\ Len(wake[t]) \in Nat \ {0} /\ k = wake[t][1] /\ k \in Subscribers
      /\ Len(Tail(wake[t])) = Len(wake[t]) - 1 /\ Tail(wake[t]) \in Seq(Subscribers)
      /\ \A i \in 1 .. Len(wake[t]) - 1 : Tail(wake[t])[i] = wake[t][i + 1]
  <2>1. wake[t] \in Seq(Subscribers) /\ wake[t] # <<>>
    BY DEF Resume, Idle, IInv, PublisherTypeOK
  <2>2. Len(wake[t]) # 0
    BY <2>1, EmptySeq
  <2> QED
    BY <2>1, <2>2, HeadTailProperties
<1> HIDE DEF k
<1>2. /\ UNCHANGED <<queueVars, maxLen, minLen, handle, mode, val, published, seen, ended>>
      /\ UNCHANGED <<pos, q, regs, nextFree, closed>>
      /\ Used' = Used /\ Slots' = Slots /\ Oldest' = Oldest
      /\ \A s \in Subscribers : reg(s)' = reg(s)
  BY DEF Resume, queueVars, Used, Slots, reg, Oldest
<1>3. use[k] = "suspended" /\ reg(k).awt = NoOne
      /\ \A u \in Callers : \A j \in 1 .. Len(wake[u]) : wake[u][j] = k => u = t /\ j = 1
  BY <1>1 DEF IInv, Sleepers
<1>4. /\ use' = [use EXCEPT ![k] = "reading"] /\ use'[k] = "reading"
      /\ \A s \in Subscribers : s # k => use'[s] = use[s]
      /\ \A s \in Subscribers : Alive(s)' = Alive(s)
  <2>1. use' = [use EXCEPT ![k] = "reading"]
    BY DEF Resume, k
  <2> QED
    BY <1>1, <1>3, <2>1 DEF IInv, PublisherTypeOK, Alive
<1>5. \A u \in Callers : wake'[u] = IF u = t THEN Tail(wake[t]) ELSE wake[u]
  BY DEF Resume, IInv, PublisherTypeOK
<1>6. PublisherTypeOK'
  <2>1. wake' \in [Callers -> Seq(Subscribers)]
    BY <1>1 DEF Resume, IInv, PublisherTypeOK
  <2>2. use' \in [Subscribers -> Uses]
    BY <1>4 DEF IInv, PublisherTypeOK, Uses
  <2> QED
    BY ONLY <1>2, <2>1, <2>2, IInv DEF IInv, PublisherTypeOK
<1>7. Positions' /\ Registered'
  BY <1>2, <1>4 DEF IInv, Positions, Registered, Alive, MaxPos
<1>8. Free'
  BY <1>2, FreeKept DEF IInv
<1>9. Newest'
  BY <1>2 DEF IInv, Newest, KeepsNewest
<1>10. Sleepers'
  <2>1. ASSUME NEW g \in Slots, Awaited(g)
        PROVE  /\ regs[g].awt = regs[g].sub /\ use'[regs[g].sub] = "suspended"
               /\ regs[g].pos = pos /\ ~regs[g].kicked /\ ~closed
    <3>1. /\ regs[g].awt = regs[g].sub /\ use[regs[g].sub] = "suspended"
          /\ regs[g].pos = pos /\ ~regs[g].kicked /\ ~closed /\ g \in Used
          /\ regs[g].sub \in Subscribers
      BY <2>1, SlotTypes DEF IInv, Sleepers, Awaited, Used
    <3>2. handle[regs[g].sub] = g /\ regs[g].awt # NoOne
      BY <2>1, <3>1 DEF IInv, Registered, Awaited
    <3>3. regs[g].sub # k
      BY <1>3, <3>2 DEF reg
    <3> QED
      BY <1>4, <3>1, <3>3
  <2>2. ASSUME NEW s \in Subscribers, use'[s] = "suspended", reg(s).awt = NoOne
        PROVE  \E u \in Callers : \E i \in 1 .. Len(wake'[u]) : wake'[u][i] = s
    <3>1. s # k /\ use[s] = "suspended"
      BY <1>4, <2>2
    <3>2. PICK u \in Callers : \E i \in 1 .. Len(wake[u]) : wake[u][i] = s
      BY <2>2, <3>1 DEF IInv, Sleepers
    <3>3. PICK i \in 1 .. Len(wake[u]) : wake[u][i] = s
      BY <3>2
    <3>4. CASE u = t
      <4>1. i # 1
        BY <1>1, <3>1, <3>3, <3>4
      <4>2. i - 1 \in 1 .. Len(wake[t]) - 1 /\ (i - 1) + 1 = i
        BY <1>1, <3>4, <4>1
      <4>3. wake'[t][i - 1] = s /\ i - 1 \in 1 .. Len(wake'[t])
        BY <1>1, <1>5, <3>3, <3>4, <4>2
      <4> QED
        BY <4>3
    <3>5. CASE u # t
      BY <1>5, <3>3, <3>5
    <3> QED
      BY <3>4, <3>5
  <2>3. ASSUME NEW u \in Callers, NEW i \in 1 .. Len(wake'[u])
        PROVE  \E j \in 1 .. Len(wake[u]) : /\ wake'[u][i] = wake[u][j]
                                            /\ j = IF u = t THEN i + 1 ELSE i
    <3>1. CASE u = t
      <4>1. wake'[u] = Tail(wake[t]) /\ i \in 1 .. Len(wake[t]) - 1
        BY <1>1, <1>5, <3>1
      <4>2. i + 1 \in 1 .. Len(wake[u]) /\ wake'[u][i] = wake[u][i + 1]
        BY <1>1, <3>1, <4>1
      <4> QED
        BY <3>1, <4>2
    <3>2. CASE u # t
      BY <1>5, <3>2
    <3> QED
      BY <3>1, <3>2
  <2>4. ASSUME NEW u \in Callers, NEW i \in 1 .. Len(wake'[u])
        PROVE  /\ use'[wake'[u][i]] = "suspended" /\ regs[handle[wake'[u][i]]].awt = NoOne
               /\ \A v \in Callers : \A j \in 1 .. Len(wake'[v]) :
                     wake'[v][j] = wake'[u][i] => v = u /\ j = i
    <3>1. PICK a \in 1 .. Len(wake[u]) : wake'[u][i] = wake[u][a] /\ a = IF u = t THEN i + 1 ELSE i
      BY <2>3
    <3>2. wake[u] \in Seq(Subscribers)
      BY DEF IInv, PublisherTypeOK
    <3>3. PICK s \in Subscribers : s = wake[u][a]
      BY <3>2, ElementOfSeq
    <3>4. use[s] = "suspended" /\ reg(s).awt = NoOne
      BY <3>1, <3>3 DEF IInv, Sleepers
    <3>5. s # k
      BY <1>3, <3>1, <3>3
    <3>6. ASSUME NEW v \in Callers, NEW j \in 1 .. Len(wake'[v]), wake'[v][j] = s
          PROVE  v = u /\ j = i
      <4>1. PICK b \in 1 .. Len(wake[v]) : wake'[v][j] = wake[v][b] /\ b = IF v = t THEN j + 1 ELSE j
        BY <2>3
      <4>2. v = u /\ b = a
        <5>1. \A w \in Callers : \A c \in 1 .. Len(wake[w]) : wake[w][c] = wake[u][a] => w = u /\ c = a
          BY DEF IInv, Sleepers
        <5> QED
          BY ONLY <3>3, <3>6, <4>1, <5>1, v \in Callers
      <4> QED
        BY <3>1, <4>1, <4>2
    <3>7. use'[s] = "suspended" /\ regs[handle[s]].awt = NoOne
      BY <1>4, <3>4, <3>5 DEF reg
    <3> QED
      BY ONLY <3>1, <3>3, <3>6, <3>7
  <2> QED
    BY ONLY <1>2, <2>1, <2>2, <2>4 DEF Sleepers, Awaited, reg, Slots
<1>11. Reading'
  <2>1. ASSUME NEW s \in Subscribers, Alive(s), ~ended[s]
        PROVE  Progress(s)' /\ Pace(s)'
    <3>1. Progress(s) /\ Pace(s) /\ seen' = seen /\ reg(s)' = reg(s) /\ mode' = mode
      BY <1>2, <2>1 DEF IInv, Reading
    <3>2. CASE s # k
      BY ONLY <1>2, <1>4, <3>1, <3>2, s \in Subscribers DEF Progress, Pace
    <3>3. CASE s = k
      <4>1. Progress(s)'
        BY ONLY <1>2, <1>3, <1>4, <3>1, <3>3 DEF Progress
      <4>2. Pace(s)'
        BY ONLY <1>2, <1>3, <1>4, <3>1, <3>3 DEF Pace
      <4> QED
        BY <4>1, <4>2
    <3> QED
      BY <3>2, <3>3
  <2> QED
    BY <1>2, <1>4, <2>1 DEF Reading
<1> QED
  BY <1>6, <1>7, <1>8, <1>9, <1>10, <1>11 DEF IInv

-----------------------------------------------------------------------------
(* Registration *)

\* A new subscriber takes the first of the free list, or the list is empty and the
\* slot is a new one.
LEMMA FreeTaken ==
    ASSUME IInv, NEW s \in Subscribers, NEW p \in Nat, subscribe_lk(s, p)
    PROVE  Free' /\ nextFree' \in 1 .. Len(regs') + 1
<1>1. /\ Len(regs) \in Nat /\ Slots = 1 .. Len(regs) /\ Used \subseteq Slots /\ regs \in Seq(Slot)
      /\ nextFree \in 1 .. Len(regs) + 1
  BY SlotTypes DEF IInv, PublisherTypeOK
<1>2. /\ nextFree \in Slots' /\ nextFree \notin Used
      /\ regs' \in Seq(Slot) /\ Len(regs') \in Nat
      /\ Len(regs') = IF nextFree > Len(regs) THEN Len(regs) + 1 ELSE Len(regs)
      /\ Slots \subseteq Slots' /\ Slots' \subseteq Slots \cup {nextFree}
      /\ \A h \in Slots : h # nextFree => regs'[h] = regs[h]
      /\ Used' = Used \cup {nextFree}
  BY SubscribeSlots
<1>3. Slots' = 1 .. Len(regs')
  BY <1>2 DEF Slots
<1>4. PICK n \in 0 .. Len(regs) :
           \E list \in [1 .. n + 1 -> 1 .. Len(regs) + 1] : AllListed(n, list)
  BY DEF IInv, Free
<1>5. PICK list \in [1 .. n + 1 -> 1 .. Len(regs) + 1] : AllListed(n, list)
  BY <1>4
<1>6. /\ list[1] = nextFree /\ list[n + 1] = Len(regs) + 1
      /\ \A i \in 1 .. n : list[i] \in Slots \ Used /\ regs[list[i]].pos = list[i + 1]
      /\ \A i, j \in 1 .. n : list[i] = list[j] => i = j
      /\ \A h \in Slots \ Used : \E i \in 1 .. n : list[i] = h
  BY <1>5 DEF AllListed, FreeList
<1>7. CASE nextFree > Len(regs)
  <2>1. nextFree = Len(regs) + 1 /\ nextFree' = Len(regs) + 2
    BY <1>1, <1>7 DEF subscribe_lk
  <2>2. n = 0
    <3>1. n # 0 => list[1] \in Slots
      BY <1>4, <1>6
    <3> QED
      BY <1>1, <1>6, <2>1, <3>1
  <2>3. Len(regs') = Len(regs) + 1
    BY <1>2, <1>7
  <2>4. PICK new \in [1 .. 0 + 1 -> 1 .. Len(regs') + 1] : new[1] = Len(regs) + 2
    <3>1. [i \in {1} |-> Len(regs) + 2] \in [1 .. 0 + 1 -> 1 .. Len(regs') + 1]
      BY <1>1, <2>3
    <3> QED
      BY <3>1
  <2>5. Slots' \ Used' = {}
    BY <1>2, <1>6, <2>2
  <2>6. FreeList(0, new)'
    <3>1. 0 + 1 = 1 /\ 1 .. 0 = {} /\ new[1] = nextFree' /\ new[1] = Len(regs') + 1
      BY <1>1, <2>1, <2>3, <2>4
    <3> QED
      BY ONLY <3>1 DEF FreeList
  <2>7. Free'
    <3>1. \A h \in Slots' \ Used' : \E i \in 1 .. 0 : new[i] = h
      BY <2>5
    <3>2. 0 \in 0 .. Len(regs')
      BY <1>2
    <3>3. AllListed(0, new)'
      BY ONLY <2>6, <3>1 DEF AllListed
    <3> QED
      BY ONLY <2>4, <3>2, <3>3 DEF Free
  <2> QED
    BY <1>1, <2>1, <2>3, <2>7
<1>8. CASE nextFree \in Slots
  <2>1. Slots' = Slots /\ Len(regs') = Len(regs)
    <3>1. ~(nextFree > Len(regs))
      BY <1>1, <1>8
    <3> QED
      BY <1>1, <1>2, <1>3, <3>1
  <2>2. n # 0 /\ n \in Nat /\ n - 1 \in 0 .. Len(regs)
    BY <1>1, <1>4, <1>6, <1>8
  <2>3. nextFree' = list[2]
    <3>1. nextFree' = regs[nextFree].pos
      BY <1>1, <1>8 DEF subscribe_lk
    <3>2. regs[list[1]].pos = list[1 + 1] /\ 1 + 1 = 2
      <4>1. 1 \in 1 .. n
        BY <2>2
      <4> QED
        BY ONLY <1>6, <4>1
    <3> QED
      BY ONLY <1>6, <3>1, <3>2
  <2> DEFINE new == [i \in 1 .. n |-> list[i + 1]]
  <2>4. new \in [1 .. (n - 1) + 1 -> 1 .. Len(regs) + 1] /\ \A i \in 1 .. n : new[i] = list[i + 1]
    BY <2>2
  <2> HIDE DEF new
  <2>5. new[1] = nextFree' /\ new[n - 1 + 1] = Len(regs') + 1
    BY <1>6, <2>1, <2>2, <2>3, <2>4
  <2>6. ASSUME NEW i \in 1 .. n - 1
        PROVE  new[i] \in Slots' \ Used' /\ regs'[new[i]].pos = new[i + 1]
    <3>1. i + 1 \in 1 .. n /\ i \in 1 .. n /\ i + 1 # 1 /\ 1 \in 1 .. n
      BY <2>2
    <3>2. list[i + 1] \in Slots \ Used /\ regs[list[i + 1]].pos = list[i + 1 + 1] /\ list[i + 1] # list[1]
      BY <1>6, <3>1
    <3>3. list[i + 1] # nextFree
      BY <1>6, <3>2
    <3>4. new[i] = list[i + 1] /\ new[i + 1] = list[i + 1 + 1]
      BY <2>4, <3>1
    <3> QED
      BY <1>2, <2>1, <3>2, <3>3, <3>4
  <2>7. \A i, j \in 1 .. n - 1 : new[i] = new[j] => i = j
    <3> SUFFICES ASSUME NEW i \in 1 .. n - 1, NEW j \in 1 .. n - 1, new[i] = new[j]
                 PROVE  i = j
      OBVIOUS
    <3>1. i + 1 \in 1 .. n /\ j + 1 \in 1 .. n /\ list[i + 1] = list[j + 1]
      BY <2>2, <2>4
    <3>2. i + 1 = j + 1
      BY <1>6, <3>1
    <3> QED
      BY <3>2
  <2>8. ASSUME NEW h \in Slots' \ Used'
        PROVE  \E i \in 1 .. n - 1 : new[i] = h
    <3>1. h \in Slots \ Used /\ h # nextFree
      BY <1>2, <2>1
    <3>2. PICK i \in 1 .. n : list[i] = h
      BY <1>6, <3>1
    <3>3. i # 1
      BY <1>6, <3>1, <3>2
    <3>4. i - 1 \in 1 .. n - 1 /\ new[i - 1] = h
      BY <2>2, <2>4, <3>2, <3>3
    <3> QED
      BY <3>4
  <2>9. AllListed(n - 1, new)'
    BY <2>5, <2>6, <2>7, <2>8 DEF AllListed, FreeList
  <2>10. Free'
    BY <2>1, <2>2, <2>4, <2>9 DEF Free
  <2>11. nextFree' \in 1 .. Len(regs') + 1
    BY <2>1, <2>2, <2>4, <2>5
  <2> QED
    BY <2>10, <2>11
<1> QED
  BY <1>1, <1>7, <1>8

\* The subscriber that is constructed.
LEMMA ConstructStep ==
    ASSUME IInv, NEW s \in Subscribers, NEW p \in 0 .. MaxPos, Register(s, p)
    PROVE  IInv'
<1>1. subscribe_lk(s, p) /\ p \in Nat /\ MaxPos \in Nat /\ p <= MaxPos
  BY MaxItemsAssumption DEF Register, MaxPos
<1>2. /\ nextFree \in Slots' /\ nextFree \notin Used
      /\ handle' = [handle EXCEPT ![s] = nextFree]
      /\ regs' \in Seq(Slot) /\ Len(regs') \in Nat
      /\ Slots \subseteq Slots' /\ Slots' \subseteq Slots \cup {nextFree}
      /\ regs'[nextFree] = [pos |-> p, sub |-> s, awt |-> NoOne, used |-> TRUE, kicked |-> FALSE]
      /\ \A h \in Slots : h # nextFree => regs'[h] = regs[h]
      /\ Used' = Used \cup {nextFree}
  BY <1>1, SubscribeSlots
<1>3. /\ regs'[nextFree].pos = p /\ regs'[nextFree].sub = s /\ regs'[nextFree].awt = NoOne
      /\ regs'[nextFree].used /\ ~regs'[nextFree].kicked
  BY <1>2
<1>4. /\ Used \subseteq Slots /\ Slots = 1 .. Len(regs) /\ Len(regs) \in Nat /\ Slots' = 1 .. Len(regs')
      /\ \A h \in Slots : regs[h].sub \in Subscribers
  BY <1>2, SlotTypes DEF IInv, Slots
<1>5. /\ UNCHANGED <<maxLen, minLen, pos, q, closed, wake, mode, val, published>>
      /\ Oldest' = Oldest /\ use[s] = "none" /\ use' = [use EXCEPT ![s] = "idle"]
      /\ seen' = [seen EXCEPT ![s] = p] /\ ended' = [ended EXCEPT ![s] = p >= pos]
  BY DEF Register, Oldest
<1>6. /\ use'[s] = "idle" /\ seen'[s] = p /\ ended'[s] = (p >= pos) /\ handle'[s] = nextFree
      /\ \A r \in Subscribers : r # s => /\ use'[r] = use[r] /\ seen'[r] = seen[r]
                                         /\ ended'[r] = ended[r] /\ handle'[r] = handle[r]
  BY <1>2, <1>5 DEF IInv, PublisherTypeOK
<1>7. reg(s)' = regs'[nextFree]
  BY <1>6 DEF reg
<1>8. ASSUME NEW r \in Subscribers, Alive(r)
      PROVE  /\ r # s /\ handle[r] \in Used /\ handle[r] \in Slots /\ handle[r] # nextFree
             /\ reg(r)' = reg(r) /\ reg(r).sub = r
  <2>1. r # s /\ handle[r] \in Used /\ reg(r).sub = r
    BY <1>5, <1>8 DEF IInv, Registered, Alive
  <2>2. handle[r] \in Slots /\ handle[r] # nextFree
    BY <1>2, <1>4, <2>1
  <2> QED
    BY <1>2, <1>6, <2>1, <2>2 DEF reg
<1>9. Free' /\ nextFree' \in 1 .. Len(regs') + 1
  BY <1>1, FreeTaken
<1>10. PublisherTypeOK'
  <2>1. handle' \in [Subscribers -> 0 .. Len(regs')]
    <3>1. \A r \in Subscribers : handle[r] \in 0 .. Len(regs')
      <4>1. Len(regs) <= Len(regs')
        BY <1>2, <1>4
      <4> QED
        BY <1>2, <1>4, <4>1 DEF IInv, PublisherTypeOK
    <3> QED
      BY <1>2, <1>4, <3>1 DEF IInv, PublisherTypeOK
  <2>2. use' \in [Subscribers -> Uses]
    BY <1>5 DEF IInv, PublisherTypeOK, Uses
  <2>3. seen' \in [Subscribers -> 0 .. MaxPos]
    BY <1>5 DEF IInv, PublisherTypeOK
  <2>4. ended' \in [Subscribers -> BOOLEAN]
    <3>1. (p >= pos) \in BOOLEAN
      BY <1>1 DEF IInv, PublisherTypeOK
    <3> QED
      BY <1>5, <3>1 DEF IInv, PublisherTypeOK
  <2> QED
    BY ONLY <1>2, <1>5, <1>9, <2>1, <2>2, <2>3, <2>4, IInv DEF IInv, PublisherTypeOK, Slot
<1>11. Positions'
  <2>1. \A h \in Used' : regs'[h].pos <= MaxPos
    <3>1. \A h \in Used : h # nextFree /\ h \in Slots
      BY <1>2, <1>4
    <3> QED
      BY <1>1, <1>2, <1>3, <3>1 DEF IInv, Positions
  <2>2. \A r \in Subscribers : use'[r] = "checked" => reg(r)'.pos < MaxPos
    BY <1>6, <1>8 DEF IInv, Positions, Alive
  <2> QED
    BY <2>1, <2>2 DEF Positions, MaxPos
<1>12. Registered'
  <2>1. ASSUME NEW r \in Subscribers, use'[r] # "none"
        PROVE  handle'[r] \in Used' /\ reg(r)'.sub = r
    <3>1. CASE r = s
      BY <1>2, <1>3, <1>6, <1>7, <3>1
    <3>2. CASE r # s
      BY <1>2, <1>6, <1>8, <2>1, <3>2 DEF Alive
    <3> QED
      BY <3>1, <3>2
  <2>2. ASSUME NEW h \in Used'
        PROVE  use'[regs'[h].sub] # "none" /\ handle'[regs'[h].sub] = h
    <3>1. CASE h = nextFree
      BY <1>3, <1>6, <3>1
    <3>2. CASE h \in Used
      <4>1. h \in Slots /\ h # nextFree /\ regs'[h].sub = regs[h].sub /\ regs[h].sub \in Subscribers
        BY <1>2, <1>4, <3>2
      <4>2. use[regs[h].sub] # "none" /\ handle[regs[h].sub] = h
        BY <3>2 DEF IInv, Registered, Alive
      <4> QED
        BY <1>5, <1>6, <4>1, <4>2
    <3> QED
      BY <1>2, <3>1, <3>2
  <2> QED
    BY <2>1, <2>2 DEF Registered, Alive
<1>13. Newest'
  BY <1>5 DEF IInv, Newest, KeepsNewest
<1>14. Sleepers'
  <2>1. ASSUME NEW g \in Slots', Awaited(g)'
        PROVE  /\ regs'[g].awt = regs'[g].sub /\ use'[regs'[g].sub] = "suspended"
               /\ regs'[g].pos = pos' /\ ~regs'[g].kicked /\ ~closed'
    <3>1. g # nextFree
      BY <1>3, <2>1 DEF Awaited
    <3>2. g \in Slots /\ regs'[g] = regs[g] /\ Awaited(g) /\ regs[g].sub \in Subscribers
      BY <1>2, <1>4, <2>1, <3>1 DEF Awaited
    <3>3. use[regs[g].sub] = "suspended"
      BY <3>2 DEF IInv, Sleepers
    <3>4. regs[g].sub # s
      BY <1>5, <3>3
    <3> QED
      BY <1>5, <1>6, <3>2, <3>3, <3>4 DEF IInv, Sleepers
  <2>2. ASSUME NEW r \in Subscribers, use'[r] = "suspended", reg(r)'.awt = NoOne
        PROVE  \E u \in Callers : \E i \in 1 .. Len(wake'[u]) : wake'[u][i] = r
    <3>1. r # s /\ use[r] = "suspended"
      BY <1>6, <2>2
    <3>2. reg(r).awt = NoOne
      BY <1>8, <2>2, <3>1 DEF Alive
    <3> QED
      BY <1>5, <3>1, <3>2 DEF IInv, Sleepers
  <2>3. ASSUME NEW u \in Callers, NEW i \in 1 .. Len(wake[u])
        PROVE  /\ use'[wake[u][i]] = "suspended" /\ regs'[handle'[wake[u][i]]].awt = NoOne
    <3>1. wake[u] \in Seq(Subscribers)
      BY DEF IInv, PublisherTypeOK
    <3>2. PICK r \in Subscribers : r = wake[u][i]
      BY <3>1, ElementOfSeq
    <3>3. use[r] = "suspended" /\ reg(r).awt = NoOne
      BY <3>2 DEF IInv, Sleepers
    <3>4. reg(r)'.awt = NoOne /\ r # s
      BY <1>8, <3>3 DEF Alive
    <3> QED
      BY <1>6, <3>2, <3>3, <3>4 DEF reg
  <2>4. \A u, v \in Callers : \A i \in 1 .. Len(wake[u]) : \A j \in 1 .. Len(wake[v]) :
           wake[v][j] = wake[u][i] => v = u /\ j = i
    BY DEF IInv, Sleepers
  <2> QED
    BY ONLY <1>5, <2>1, <2>2, <2>3, <2>4 DEF Sleepers, reg
<1>15. Reading'
  <2>1. ASSUME NEW r \in Subscribers, use'[r] # "none", ~ended'[r]
        PROVE  Progress(r)' /\ Pace(r)'
    <3>1. CASE r = s
      <4>1. p < pos
        <5>1. p \in Nat /\ pos \in Nat
          BY <1>1 DEF IInv, PublisherTypeOK
        <5>2. ended'[s] = (p >= pos) /\ ~ended'[s]
          BY <1>6, <2>1, <3>1
        <5> QED
          <6>1. ~(p >= pos)
            BY ONLY <5>2, Zenon
          <6> QED
            BY ONLY <5>1, <6>1
      <4>2. pos \in Nat
        BY DEF IInv, PublisherTypeOK
      <4>3. Progress(s)'
        BY <1>1, <1>3, <1>5, <1>6, <1>7, <4>1, <4>2 DEF Progress
      <4>4. Pace(s)'
        BY <1>1, <1>3, <1>5, <1>6, <1>7, <4>1, <4>2 DEF Pace
      <4> QED
        BY <3>1, <4>3, <4>4
    <3>2. CASE r # s
      <4>1. Alive(r) /\ ~ended[r]
        BY <1>6, <2>1, <3>2 DEF Alive
      <4>2. Progress(r) /\ Pace(r) /\ reg(r)' = reg(r)
        BY <1>8, <4>1 DEF IInv, Reading
      <4>3. use'[r] = use[r] /\ seen'[r] = seen[r]
        BY <1>6, <3>2
      <4> QED
        BY ONLY <1>5, <4>2, <4>3 DEF Progress, Pace
    <3> QED
      BY <3>1, <3>2
  <2> QED
    BY <2>1 DEF Reading, Alive
<1> QED
  BY <1>9, <1>10, <1>11, <1>12, <1>13, <1>14, <1>15 DEF IInv

\* There are k numbers from 1 to k.
LEMMA CountUpto ==
    ASSUME NEW k \in Nat
    PROVE  IsFiniteSet(1 .. k) /\ Cardinality(1 .. k) = k
BY FS_Interval

\* The destructor puts the slot in front of the free list.
LEMMA LeaveStep ==
    ASSUME IInv, NEW s \in Subscribers, Leave(s)
    PROVE  IInv'
<1> DEFINE h == handle[s]
           slot == [regs[h] EXCEPT !.pos = nextFree, !.used = FALSE]
<1>1. /\ h \in Used /\ h \in Slots /\ reg(s) = regs[h] /\ reg(s).sub = s /\ reg(s).awt = NoOne
      /\ use[s] = "idle" /\ regs[h] \in Slot
  BY OwnSlot, SlotTypes DEF Leave, IInv
<1>2. /\ Used \subseteq Slots /\ Slots = 1 .. Len(regs) /\ Len(regs) \in Nat
      /\ \A g \in Slots : regs[g].sub \in Subscribers
      /\ nextFree \in 1 .. Len(regs) + 1
  BY SlotTypes DEF IInv, PublisherTypeOK
<1>3. /\ Len(regs') = Len(regs) /\ regs' \in Seq(Slot) /\ Slots' = Slots
      /\ \A g \in Slots : regs'[g] = IF g = h THEN slot ELSE regs[g]
  <2>1. slot \in Slot
    <3>1. nextFree \in Nat
      BY <1>2
    <3> QED
      BY <1>1, <3>1 DEF Slot
  <2>2. regs' = [regs EXCEPT ![h] = slot]
    BY <1>1 DEF Leave, Slot
  <2> HIDE DEF slot
  <2>3. OneSlot(h, slot)
    BY <1>1, <2>1, <2>2, SlotChanges DEF IInv
  <2> QED
    BY <2>3 DEF OneSlot
<1>4. /\ regs'[h].pos = nextFree /\ ~regs'[h].used
      /\ \A g \in Slots : g # h => regs'[g] = regs[g]
  <2>1. slot.pos = nextFree /\ slot.used = FALSE
    BY <1>1 DEF Slot
  <2> HIDE DEF slot
  <2> QED
    BY <1>1, <1>3, <2>1
<1>5. Used' = Used \ {h}
  BY <1>2, <1>3, <1>4 DEF Used
<1>6. /\ UNCHANGED <<maxLen, minLen, pos, q, closed, wake, mode, published>>
      /\ nextFree' = h /\ Oldest' = Oldest
      /\ use' = [use EXCEPT ![s] = "none"] /\ handle' = [handle EXCEPT ![s] = 0]
      /\ val' = [val EXCEPT ![s] = Empty] /\ seen' = [seen EXCEPT ![s] = 0]
      /\ ended' = [ended EXCEPT ![s] = FALSE]
  BY DEF Leave, Gone, Oldest
<1>7. /\ use'[s] = "none"
      /\ \A r \in Subscribers : r # s => /\ use'[r] = use[r] /\ seen'[r] = seen[r]
                                         /\ ended'[r] = ended[r] /\ handle'[r] = handle[r]
  BY <1>6 DEF IInv, PublisherTypeOK
<1>8. ASSUME NEW r \in Subscribers, Alive(r), r # s
      PROVE  /\ handle[r] \in Used /\ handle[r] \in Slots /\ handle[r] # h
             /\ reg(r)' = reg(r) /\ reg(r).sub = r
  <2>1. handle[r] \in Used /\ reg(r).sub = r /\ reg(r) = regs[handle[r]]
    BY <1>8 DEF IInv, Registered, reg
  <2>2. handle[r] \in Slots /\ handle[r] # h
    BY <1>1, <1>2, <1>8, <2>1
  <2> QED
    BY <1>4, <1>7, <1>8, <2>1, <2>2 DEF reg
<1>9. PublisherTypeOK'
  <2>1. handle' \in [Subscribers -> 0 .. Len(regs)]
    BY <1>2, <1>6 DEF IInv, PublisherTypeOK
  <2>2. /\ use' \in [Subscribers -> Uses] /\ ended' \in [Subscribers -> BOOLEAN]
        /\ val' \in [Subscribers -> {Empty, Garbage} \cup 1 .. MaxItems]
    BY <1>6 DEF IInv, PublisherTypeOK, Uses
  <2>3. seen' \in [Subscribers -> 0 .. MaxPos]
    <3>1. 0 \in 0 .. MaxPos
      BY MaxItemsAssumption DEF MaxPos
    <3> QED
      BY <1>6, <3>1 DEF IInv, PublisherTypeOK
  <2>4. nextFree' \in 1 .. Len(regs') + 1
    BY <1>1, <1>2, <1>3, <1>6
  <2> QED
    BY ONLY <1>3, <1>6, <2>1, <2>2, <2>3, <2>4, IInv DEF IInv, PublisherTypeOK, Slot
<1>10. Positions'
  <2>1. \A g \in Used' : regs'[g].pos <= MaxPos
    BY <1>2, <1>4, <1>5 DEF IInv, Positions
  <2>2. \A r \in Subscribers : use'[r] = "checked" => reg(r)'.pos < MaxPos
    BY <1>7, <1>8 DEF IInv, Positions, Alive
  <2> QED
    BY <2>1, <2>2 DEF Positions, MaxPos
<1>11. Registered'
  <2>1. ASSUME NEW r \in Subscribers, use'[r] # "none"
        PROVE  handle'[r] \in Used' /\ reg(r)'.sub = r
    BY <1>5, <1>7, <1>8, <2>1 DEF Alive
  <2>2. ASSUME NEW g \in Used'
        PROVE  use'[regs'[g].sub] # "none" /\ handle'[regs'[g].sub] = g
    <3>1. g \in Used /\ g # h /\ regs'[g].sub = regs[g].sub /\ regs[g].sub \in Subscribers
      BY <1>2, <1>4, <1>5
    <3>2. use[regs[g].sub] # "none" /\ handle[regs[g].sub] = g
      BY <3>1 DEF IInv, Registered, Alive
    <3> QED
      BY <1>7, <3>1, <3>2
  <2> QED
    BY <2>1, <2>2 DEF Registered, Alive
<1>12. Free'
  <2>0. PICK n \in 0 .. Len(regs) :
             \E list \in [1 .. n + 1 -> 1 .. Len(regs) + 1] : AllListed(n, list)
    BY DEF IInv, Free
  <2>1. PICK list \in [1 .. n + 1 -> 1 .. Len(regs) + 1] : AllListed(n, list)
    BY <2>0
  <2>2. /\ list[1] = nextFree /\ list[n + 1] = Len(regs) + 1
        /\ \A i \in 1 .. n : list[i] \in Slots \ Used /\ regs[list[i]].pos = list[i + 1]
        /\ \A i, j \in 1 .. n : list[i] = list[j] => i = j
        /\ \A g \in Slots \ Used : \E i \in 1 .. n : list[i] = g
    BY <2>1 DEF AllListed, FreeList
  <2>3. n \in Nat /\ n + 1 \in Nat
    BY <1>2
  <2>4. PICK new \in [1 .. (n + 1) + 1 -> 1 .. Len(regs) + 1] :
           new[1] = h /\ \A i \in 1 .. n + 1 : new[i + 1] = list[i]
    <3> DEFINE new == [i \in 1 .. (n + 1) + 1 |-> IF i = 1 THEN h ELSE list[i - 1]]
    <3>1. new \in [1 .. (n + 1) + 1 -> 1 .. Len(regs) + 1]
      BY <1>1, <1>2, <2>3
    <3>2. new[1] = h /\ \A i \in 1 .. n + 1 : new[i + 1] = list[i]
      BY <2>3
    <3> HIDE DEF new
    <3> QED
      BY <3>1, <3>2
  <2>5. new[1] = nextFree' /\ new[(n + 1) + 1] = Len(regs') + 1
    BY <1>3, <1>6, <2>2, <2>3, <2>4
  <2>6. ASSUME NEW i \in 1 .. n + 1
        PROVE  new[i] \in Slots' \ Used' /\ regs'[new[i]].pos = new[i + 1]
    <3>1. CASE i = 1
      BY <1>1, <1>3, <1>4, <1>5, <2>2, <2>3, <2>4, <3>1
    <3>2. CASE i # 1
      <4>1. i - 1 \in 1 .. n /\ i - 1 \in 1 .. n + 1 /\ (i - 1) + 1 = i
        BY <2>3, <3>2
      <4>0. new[(i - 1) + 1] = list[i - 1] /\ regs[list[i - 1]].pos = list[(i - 1) + 1]
            /\ list[i - 1] \in Slots \ Used
        BY ONLY <2>2, <2>4, <4>1
      <4>2. new[i] = list[i - 1] /\ list[i - 1] \in Slots \ Used /\ regs[list[i - 1]].pos = list[i]
        BY <4>0, <4>1
      <4>3. list[i - 1] # h /\ new[i + 1] = list[i]
        BY <1>1, <2>4, <4>2
      <4> QED
        BY <1>3, <1>4, <1>5, <4>2, <4>3
    <3> QED
      BY <3>1, <3>2
  <2>7. ASSUME NEW i \in 1 .. n + 1, NEW j \in 1 .. n + 1, new[i] = new[j]
        PROVE  i = j
    <3>1. \A k \in 1 .. n + 1 : k # 1 => /\ k - 1 \in 1 .. n /\ new[k] = list[k - 1]
                                         /\ list[k - 1] # h
      <4> SUFFICES ASSUME NEW k \in 1 .. n + 1, k # 1
                   PROVE  k - 1 \in 1 .. n /\ new[k] = list[k - 1] /\ list[k - 1] # h
        OBVIOUS
      <4>1. k - 1 \in 1 .. n /\ k - 1 \in 1 .. n + 1 /\ (k - 1) + 1 = k
        BY <2>3
      <4> QED
        BY <1>1, <2>2, <2>4, <4>1
    <3>2. CASE i = 1 \/ j = 1
      BY <2>4, <2>7, <3>1, <3>2
    <3>3. CASE i # 1 /\ j # 1
      <4>1. i - 1 \in 1 .. n /\ j - 1 \in 1 .. n /\ list[i - 1] = list[j - 1]
        BY <2>7, <3>1, <3>3
      <4>2. i - 1 = j - 1
        BY <2>2, <4>1
      <4> QED
        BY <2>3, <4>2
    <3> QED
      BY <3>2, <3>3
  <2>8. ASSUME NEW g \in Slots' \ Used'
        PROVE  \E i \in 1 .. n + 1 : new[i] = g
    <3>1. CASE g = h
      BY <2>3, <2>4, <3>1
    <3>2. CASE g # h
      <4>1. PICK i \in 1 .. n : list[i] = g
        BY <1>3, <1>5, <2>2, <3>2
      <4>2. i + 1 \in 1 .. n + 1 /\ new[i + 1] = g
        BY <2>3, <2>4, <4>1
      <4> QED
        BY <4>2
    <3> QED
      BY <3>1, <3>2
  <2>9. AllListed(n + 1, new)'
    BY <2>5, <2>6, <2>7, <2>8 DEF AllListed, FreeList
  <2>10. n + 1 \in 0 .. Len(regs)
    <3> DEFINE front == [i \in 1 .. n + 1 |-> new[i]]
    <3>1. /\ IsFiniteSet(1 .. n + 1) /\ Cardinality(1 .. n + 1) = n + 1
          /\ IsFiniteSet(1 .. Len(regs)) /\ Cardinality(1 .. Len(regs)) = Len(regs)
      BY <1>2, <2>3, CountUpto
    <3>2. front \in [1 .. n + 1 -> 1 .. Len(regs)]
      BY <1>2, <1>3, <2>6
    <3>3. ~\E x, y \in 1 .. n + 1 : x # y /\ front[x] = front[y]
      BY <2>7
    <3> HIDE DEF front
    <3>4. ~(Len(regs) < n + 1)
      BY <3>1, <3>2, <3>3, FS_PigeonHole
    <3> QED
      BY <1>2, <2>3, <3>4
  <2> QED
    BY ONLY <1>3, <2>4, <2>9, <2>10 DEF Free
<1>13. Newest'
  BY <1>6 DEF IInv, Newest, KeepsNewest
<1>14. Sleepers'
  <2>1. ASSUME NEW g \in Slots', Awaited(g)'
        PROVE  /\ regs'[g].awt = regs'[g].sub /\ use'[regs'[g].sub] = "suspended"
               /\ regs'[g].pos = pos' /\ ~regs'[g].kicked /\ ~closed'
    <3>1. g # h
      BY <1>4, <2>1 DEF Awaited
    <3>2. g \in Slots /\ regs'[g] = regs[g] /\ Awaited(g) /\ regs[g].sub \in Subscribers
      BY <1>2, <1>3, <1>4, <2>1, <3>1 DEF Awaited
    <3>3. use[regs[g].sub] = "suspended"
      BY <3>2 DEF IInv, Sleepers
    <3>4. regs[g].sub # s
      BY <1>1, <3>3
    <3> QED
      BY <1>6, <1>7, <3>2, <3>3, <3>4 DEF IInv, Sleepers
  <2>2. ASSUME NEW r \in Subscribers, use'[r] = "suspended", reg(r)'.awt = NoOne
        PROVE  \E u \in Callers : \E i \in 1 .. Len(wake'[u]) : wake'[u][i] = r
    <3>1. r # s /\ use[r] = "suspended"
      BY <1>7, <2>2
    <3>2. reg(r).awt = NoOne
      BY <1>8, <2>2, <3>1 DEF Alive
    <3> QED
      BY <1>6, <3>1, <3>2 DEF IInv, Sleepers
  <2>3. ASSUME NEW u \in Callers, NEW i \in 1 .. Len(wake[u])
        PROVE  /\ use'[wake[u][i]] = "suspended" /\ regs'[handle'[wake[u][i]]].awt = NoOne
    <3>1. wake[u] \in Seq(Subscribers)
      BY DEF IInv, PublisherTypeOK
    <3>2. PICK r \in Subscribers : r = wake[u][i]
      BY <3>1, ElementOfSeq
    <3>3. use[r] = "suspended" /\ reg(r).awt = NoOne
      BY <3>2 DEF IInv, Sleepers
    <3>4. r # s
      BY <1>1, <3>3
    <3>5. reg(r)'.awt = NoOne
      BY <1>8, <3>3, <3>4 DEF Alive
    <3> QED
      BY <1>7, <3>2, <3>3, <3>4, <3>5 DEF reg
  <2>4. \A u, v \in Callers : \A i \in 1 .. Len(wake[u]) : \A j \in 1 .. Len(wake[v]) :
           wake[v][j] = wake[u][i] => v = u /\ j = i
    BY DEF IInv, Sleepers
  <2> QED
    BY ONLY <1>6, <2>1, <2>2, <2>3, <2>4 DEF Sleepers, reg
<1>15. Reading'
  <2>1. ASSUME NEW r \in Subscribers, use'[r] # "none", ~ended'[r]
        PROVE  Progress(r)' /\ Pace(r)'
    <3>1. r # s /\ Alive(r) /\ ~ended[r] /\ use'[r] = use[r] /\ seen'[r] = seen[r]
      BY <1>7, <2>1 DEF Alive
    <3>2. Progress(r) /\ Pace(r) /\ reg(r)' = reg(r)
      BY <1>8, <3>1 DEF IInv, Reading
    <3> QED
      BY ONLY <1>6, <3>1, <3>2 DEF Progress, Pace
  <2> QED
    BY <2>1 DEF Reading, Alive
<1> QED
  BY <1>9, <1>10, <1>11, <1>12, <1>13, <1>14, <1>15 DEF IInv

-----------------------------------------------------------------------------
(* The theorems *)

\* At first there are no slots and no items.
LEMMA Starts ==
    ASSUME PublisherInit
    PROVE  IInv
<1> USE DEF PublisherInit
<1>1. Len(regs) = 0 /\ Slots = {} /\ Used = {} /\ Len(q) = 0
  BY DEF Slots, Used
<1>2. MaxItems \in Nat /\ MaxPos \in Nat /\ 0 \in 0 .. MaxPos
  BY MaxItemsAssumption DEF MaxPos
<1>3. PublisherTypeOK
  <2>1. regs \in Seq([pos : Nat, sub : Subscribers, awt : Subscribers \cup {NoOne},
                      used : BOOLEAN, kicked : BOOLEAN]) /\ q \in Seq(1 .. MaxItems)
    OBVIOUS
  <2>2. wake \in [Callers -> Seq(Subscribers)]
    OBVIOUS
  <2>3. nextFree \in 1 .. Len(regs) + 1 /\ handle \in [Subscribers -> 0 .. Len(regs)]
    BY <1>1
  <2>4. pos \in 1 .. MaxItems + 1 /\ published \in 0 .. MaxItems /\ seen \in [Subscribers -> 0 .. MaxPos]
    BY <1>2
  <2>5. /\ maxLen \in MaxLens /\ minLen \in MinLens /\ minLen <= maxLen /\ closed \in BOOLEAN
        /\ mode \in [Subscribers -> Modes] /\ use \in [Subscribers -> Uses]
        /\ val \in [Subscribers -> {Empty, Garbage} \cup 1 .. MaxItems]
        /\ ended \in [Subscribers -> BOOLEAN]
    BY SubscribersAssumption DEF Uses
  <2> QED
    BY ONLY <2>1, <2>2, <2>3, <2>4, <2>5 DEF PublisherTypeOK
<1>4. Free
  <2>1. PICK list \in [1 .. 0 + 1 -> 1 .. Len(regs) + 1] : list[1] = 1
    <3>1. [i \in {1} |-> 1] \in [1 .. 0 + 1 -> 1 .. Len(regs) + 1]
      BY <1>1
    <3> QED
      BY <3>1
  <2>2. AllListed(0, list)
    BY <1>1, <2>1 DEF AllListed, FreeList
  <2>3. 0 \in 0 .. Len(regs)
    BY <1>1
  <2> QED
    BY <2>2, <2>3 DEF Free
<1>5. Newest
  <2>1. minLen \in Nat /\ maxLen \in Nat
    BY LengthsAssumption
  <2>2. Min({minLen, 0}) = 0
    BY <2>1, MinOfTwo
  <2> QED
    BY <1>1, <2>1, <2>2 DEF Newest, KeepsNewest
<1>6. Positions /\ Registered /\ Sleepers /\ Reading
  BY <1>1 DEF Positions, Registered, Sleepers, Reading, Alive
<1> QED
  BY <1>3, <1>4, <1>5, <1>6 DEF IInv

\* One step per action.
LEMMA Steps ==
    ASSUME IInv, PublisherNext
    PROVE  IInv'
<1>1. ASSUME NEW t \in Callers, SourceStep(t)
      PROVE  IInv'
  <2>1. ASSUME NEW n \in 1 .. 2, Publish(t, n)
        PROVE  IInv'
    BY <2>1, PublishStep
  <2>2. CASE Close(t)
    BY <2>2, CloseStep
  <2>3. ASSUME NEW s \in Subscribers, Kick(t, s)
        PROVE  IInv'
    BY <2>3, KickStep
  <2>4. CASE Resume(t)
    BY <2>4, ResumeStep
  <2> QED
    BY <1>1, <2>1, <2>2, <2>3, <2>4 DEF SourceStep
<1>2. ASSUME NEW s \in Subscribers, SubscriberStep(s)
      PROVE  IInv'
  <2>1. CASE Subscribe(s) \/ (\E p \in 0 .. MaxItems : SubscribeAt(s, p))
             \/ \E o \in Subscribers : Copy(s, o)
    <3>1. PICK p \in 0 .. MaxPos : Register(s, p)
      BY <2>1, Constructors
    <3> QED
      BY <3>1, ConstructStep
  <2>2. CASE Leave(s)
    BY <2>2, LeaveStep
  <2>3. CASE Ready(s)
    BY <2>3, ReadyStep
  <2>4. CASE GiveUp(s)
    BY <2>4, GiveUpStep
  <2>5. CASE Suspend(s)
    BY <2>5, SuspendStep
  <2>6. CASE Read(s)
    BY <2>6, ReadStep
  <2> QED
    BY <1>2, <2>1, <2>2, <2>3, <2>4, <2>5, <2>6 DEF SubscriberStep
<1> QED
  BY <1>1, <1>2 DEF PublisherNext

\* The invariant holds in every state.
THEOREM Inductive == PublisherSpec => []IInv
<1>1. PublisherInit => IInv
  BY Starts
<1>2. IInv /\ UNCHANGED publisherVars => IInv'
  <2> SUFFICES ASSUME IInv, UNCHANGED publisherVars
               PROVE  IInv'
    OBVIOUS
  <2> USE DEF publisherVars
  <2>1. PublisherTypeOK'
    BY DEF IInv, PublisherTypeOK
  <2>2. Positions' /\ Registered'
    BY DEF IInv, Positions, Registered, Used, Slots, Alive, reg, MaxPos
  <2>3. Free'
    <3>1. /\ Len(regs') = Len(regs) /\ Slots' = Slots /\ Used' = Used /\ nextFree' = nextFree
          /\ \A g \in Slots \ Used : regs'[g].pos = regs[g].pos
      BY DEF Slots, Used
    <3> QED
      BY <3>1, FreeKept DEF IInv
  <2>4. Newest' /\ Sleepers' /\ Reading'
    BY DEF IInv, Newest, KeepsNewest, Sleepers, Awaited, Slots, reg, Reading, Progress, Pace,
           Oldest, Alive
  <2> QED
    BY <2>1, <2>2, <2>3, <2>4 DEF IInv
<1>3. IInv /\ [PublisherNext]_publisherVars => IInv'
  BY <1>2, Steps
<1> QED
  BY <1>1, <1>3, PTL DEF PublisherSpec

\* The state has its type.
THEOREM TypeCorrect == PublisherSpec => []PublisherTypeOK
<1>1. IInv => PublisherTypeOK
  BY DEF IInv
<1> QED
  BY <1>1, Inductive, PTL

\* Handles, slots and the free list fit together, and the queue keeps what it should.
THEOREM ListsAreSound == PublisherSpec => []ListsSound
<1>1. IInv => ListsSound
  <2> SUFFICES ASSUME IInv
               PROVE  ListsSound
    OBVIOUS
  <2>1. SlotsSound
    BY DEF IInv, Registered, Free, AllListed, SlotsSound
  <2>2. KeepsNewest
    BY DEF IInv, Newest
  <2> QED
    BY <2>1, <2>2 DEF ListsSound
<1> QED
  BY <1>1, Inductive, PTL

\* Nobody is suspended whom the publisher has forgotten, and nobody is resumed twice.
THEOREM SleepersAreWoken == PublisherSpec => []NobodySleepsThrough
<1>1. ASSUME IInv, NEW s \in Subscribers
      PROVE  LET woken == UNION {{<<t, i>> : i \in {i \in DOMAIN wake[t] : wake[t][i] = s}} : t \in Callers}
                 waits == /\ reg(s).awt = s /\ reg(s).pos = pos
                          /\ ~reg(s).kicked /\ ~closed
             IN  IF use[s] = "suspended"
                 THEN (waits /\ woken = {}) \/ (reg(s).awt = NoOne /\ \E w \in woken : woken = {w})
                 ELSE woken = {} /\ \A h \in Used : regs[h].awt # s
  <2> DEFINE woken == UNION {{<<t, i>> : i \in {i \in DOMAIN wake[t] : wake[t][i] = s}} : t \in Callers}
             waits == /\ reg(s).awt = s /\ reg(s).pos = pos
                      /\ ~reg(s).kicked /\ ~closed
  <2>1. \A t \in Callers : DOMAIN wake[t] = 1 .. Len(wake[t])
    BY <1>1 DEF IInv, PublisherTypeOK
  <2>2. /\ \A w \in woken : \E t \in Callers : \E i \in 1 .. Len(wake[t]) : w = <<t, i>> /\ wake[t][i] = s
        /\ \A t \in Callers : \A i \in 1 .. Len(wake[t]) : wake[t][i] = s => <<t, i>> \in woken
    BY <2>1
  <2> HIDE DEF woken
  <2>3. \A w \in woken : use[s] = "suspended" /\ reg(s).awt = NoOne
    BY <1>1, <2>2 DEF IInv, Sleepers
  <2>4. CASE use[s] = "suspended" /\ reg(s).awt = NoOne
    <3>1. PICK t \in Callers : \E i \in 1 .. Len(wake[t]) : wake[t][i] = s
      BY <1>1, <2>4 DEF IInv, Sleepers
    <3>2. PICK i \in 1 .. Len(wake[t]) : wake[t][i] = s
      BY <3>1
    <3>3. \A u \in Callers : \A j \in 1 .. Len(wake[u]) : wake[u][j] = s => u = t /\ j = i
      BY <1>1, <3>2 DEF IInv, Sleepers
    <3>4. <<t, i>> \in woken /\ woken = {<<t, i>>}
      BY <2>2, <3>2, <3>3
    <3> QED
      BY <2>4, <3>4 DEF woken
  <2>5. CASE use[s] = "suspended" /\ reg(s).awt # NoOne
    <3>1. handle[s] \in Used /\ reg(s) = regs[handle[s]] /\ reg(s).sub = s
      BY <1>1, <2>5 DEF IInv, Registered, Alive, reg
    <3>2. handle[s] \in Slots /\ Awaited(handle[s])
      BY <2>5, <3>1 DEF Awaited, Used
    <3>3. waits
      BY <1>1, <3>1, <3>2 DEF IInv, Sleepers
    <3>4. woken = {}
      BY <2>3, <2>5
    <3> QED
      BY <2>5, <3>3, <3>4 DEF woken
  <2>6. CASE use[s] # "suspended"
    <3>1. \A h \in Used : regs[h].awt # s
      <4> SUFFICES ASSUME NEW h \in Used, regs[h].awt = s
                   PROVE  FALSE
        OBVIOUS
      <4>1. h \in Slots /\ Awaited(h)
        BY SubscribersAssumption DEF Awaited, Used, NoOne
      <4>2. regs[h].awt = regs[h].sub /\ use[regs[h].sub] = "suspended"
        BY <1>1, <4>1 DEF IInv, Sleepers
      <4> QED
        BY <2>6, <4>2
    <3>2. woken = {}
      BY <2>3, <2>6
    <3> QED
      BY <2>6, <3>1, <3>2 DEF woken
  <2> QED
    BY <2>4, <2>5, <2>6
<1>2. IInv => NobodySleepsThrough
  BY <1>1 DEF NobodySleepsThrough
<1> QED
  BY <1>2, Inductive, PTL

\* Only check_next() ends a next().
LEMMA OnlyRead ==
    ASSUME IInv, PublisherNext, NEW s \in Subscribers, Reads(s)
    PROVE  Read(s)
<1>1. use \in [Subscribers -> Uses] /\ use[s] \in {"reading", "late"} /\ use'[s] = "idle"
  BY DEF IInv, PublisherTypeOK, Reads
<1>2. ASSUME NEW t \in Callers, SourceStep(t)
      PROVE  FALSE
  <2>1. use' = use \/ use' = [use EXCEPT ![Head(wake[t])] = "reading"]
    BY <1>2 DEF SourceStep, Publish, Close, Kick, Resume
  <2> QED
    BY <1>1, <2>1
<1>3. ASSUME NEW r \in Subscribers, SubscriberStep(r)
      PROVE  Read(s)
  <2>1. CASE Subscribe(r) \/ (\E p \in 0 .. MaxItems : SubscribeAt(r, p))
             \/ \E o \in Subscribers : Copy(r, o)
    <3>1. use[r] = "none" /\ use' = [use EXCEPT ![r] = "idle"]
      BY <2>1 DEF Subscribe, SubscribeAt, Copy, Register
    <3> QED
      BY <1>1, <3>1
  <2>2. CASE Leave(r)
    BY <1>1, <2>2 DEF Leave, Gone
  <2>3. CASE Ready(r)
    BY <1>1, <2>3 DEF Ready
  <2>4. CASE GiveUp(r)
    BY <1>1, <2>4 DEF GiveUp
  <2>5. CASE Suspend(r)
    BY <1>1, <2>5 DEF Suspend
  <2>6. CASE Read(r)
    BY <1>1, <2>6 DEF Read
  <2> QED
    BY <1>3, <2>1, <2>2, <2>3, <2>4, <2>5, <2>6 DEF SubscriberStep
<1> QED
  BY <1>2, <1>3 DEF PublisherNext

\* A next() that was not ended by a close between ready() and subscribe() finds the item
\* the type of the subscription promises, for any number of subscribers, items and limits.
THEOREM ReadsInOrder == PublisherSpec => InOrder
<1>1. ASSUME IInv, [PublisherNext]_publisherVars, NEW s \in Subscribers, Reads(s),
             use[s] = "reading", val'[s] # Empty
      PROVE  NextItem(s, val'[s])
  <2>1. Read(s)
    <3>1. ~UNCHANGED publisherVars
      BY <1>1 DEF Reads, publisherVars
    <3> QED
      BY <1>1, <3>1, OnlyRead
  <2> QED
    BY <1>1, <2>1, OneRead DEF Reads
<1>2. IInv /\ [PublisherNext]_publisherVars =>
        [\A s \in Subscribers :
            Reads(s) /\ use[s] = "reading" /\ val'[s] # Empty => NextItem(s, val'[s])]_publisherVars
  BY <1>1
<1> QED
  BY <1>2, Inductive, PTL DEF PublisherSpec, InOrder

\* And it reports the end only with a reason.
THEOREM EndsAreJustified == PublisherSpec => EndIsJustified
<1>1. ASSUME IInv, [PublisherNext]_publisherVars, NEW s \in Subscribers, Reads(s),
             use[s] = "reading", val'[s] = Empty
      PROVE  NoNext(s)
  <2>1. Read(s)
    <3>1. ~UNCHANGED publisherVars
      BY <1>1 DEF Reads, publisherVars
    <3> QED
      BY <1>1, <3>1, OnlyRead
  <2> QED
    BY <1>1, <2>1, OneRead DEF Reads
<1>2. IInv /\ [PublisherNext]_publisherVars =>
        [\A s \in Subscribers :
            Reads(s) /\ use[s] = "reading" /\ val'[s] = Empty => NoNext(s)]_publisherVars
  BY <1>1
<1> QED
  BY <1>2, Inductive, PTL DEF PublisherSpec, EndIsJustified
=============================================================================
