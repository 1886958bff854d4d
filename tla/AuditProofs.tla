---------------------------- MODULE AuditProofs ----------------------------
(***************************************************************************)
(* Proofs about AuditLog: a logged trade is in both streams, copies need   *)
(* conflicts or faults, and a finished backfill is complete.               *)
(***************************************************************************)
EXTENDS AuditLog, FiniteSetTheorems, TLAPS

-----------------------------------------------------------------------------
(* Ids and XADD *)

\* Ids are ordered lexicographically.
LEMMA IdOrder ==
    ASSUME NEW a \in Nat \X Nat, NEW b \in Nat \X Nat, NEW c \in Nat \X Nat
    PROVE  /\ ~ IdLess(a, FirstId)
           /\ Successor(a) \in Nat \X Nat /\ IdLess(a, Successor(a))
           /\ IdLess(a, b) => ~ IdLess(b, Successor(a))
           /\ IdLess(a, b) /\ IdLess(b, c) => IdLess(a, c)
           /\ IdLess(a, b) => ~ IdLess(b, a)
<1>1. /\ a = <<a[1], a[2]>> /\ a[1] \in Nat /\ a[2] \in Nat
      /\ b[1] \in Nat /\ b[2] \in Nat /\ c[1] \in Nat /\ c[2] \in Nat
  OBVIOUS
<1>2. FirstId[1] = 0 /\ FirstId[2] = 0
  BY DEF FirstId
<1>3. Successor(a)[1] = a[1] /\ Successor(a)[2] = a[2] + 1 /\ Successor(a) \in Nat \X Nat
  BY <1>1 DEF Successor
<1> QED  BY <1>1, <1>2, <1>3 DEF IdLess

\* A command names streams that exist, and their caps are positive.
LEMMA StreamNames ==
    ASSUME NEW c \in Command
    PROVE  /\ StreamOf(c) \in Streams /\ c.trade \in Trades
           /\ StreamOf(c) \in {"global", getMarketStream(c.trade)}
           /\ c.to = "market" => StreamOf(c) = getMarketStream(c.trade)
           /\ c.to = "global" => StreamOf(c) = "global"
BY ConstantsAssumption DEF Command, StreamOf, Streams, getMarketStream

LEMMA MarketStreams ==
    ASSUME NEW t \in Trades
    PROVE  /\ getMarketStream(t) \in Streams /\ getMarketStream(t) # "global"
           /\ "global" \in Streams
BY ConstantsAssumption DEF Streams, getMarketStream

LEMMA CapType ==
    ASSUME NEW s
    PROVE  Cap(s) \in Nat /\ Cap(s) >= 1
BY ConstantsAssumption DEF Cap

\* The last id of a stream is an id, and above all others.
LEMMA LastIdIsLast ==
    ASSUME TypeOK, StreamInv, NEW s \in Streams
    PROVE  /\ LastId(s) \in Nat \X Nat
           /\ \A i \in 1..Len(stream[s]) : stream[s][i].id = LastId(s) \/ IdLess(stream[s][i].id, LastId(s))
<1>1. stream[s] \in Seq(Entry)
  BY DEF TypeOK
<1>2. CASE stream[s] = <<>>
  BY <1>2 DEF LastId, FirstId
<1>3. CASE stream[s] # <<>>
  <2>1. Len(stream[s]) \in 1..Len(stream[s])
    BY <1>1, <1>3
  <2>2. stream[s][Len(stream[s])] \in Entry
    BY <1>1, <2>1
  <2>3. LastId(s) = stream[s][Len(stream[s])].id
    BY <1>3 DEF LastId
  <2>4. ASSUME NEW i \in 1..Len(stream[s])
        PROVE  stream[s][i].id = LastId(s) \/ IdLess(stream[s][i].id, LastId(s))
    <3>1. i = Len(stream[s]) \/ i < Len(stream[s])
      BY <1>1
    <3> QED  BY <2>1, <2>3, <3>1 DEF StreamInv
  <2> QED  BY <2>2, <2>3, <2>4 DEF Entry
<1> QED  BY <1>2, <1>3

\* The id of an executed XADD is above the last one, and the time of the trade
\* unless Redis generates it.
LEMMA IdsGrow ==
    ASSUME TypeOK, StreamInv, NEW c \in Command, ~ Refused(c), NEW id \in Ids(c)
    PROVE  /\ id \in Nat \X Nat /\ IdLess(LastId(StreamOf(c)), id)
           /\ ~ c.auto => id = <<tradedAt[c.trade], 0>>
<1>0. StreamOf(c) \in Streams /\ c.trade \in Trades
  BY StreamNames
<1>1. LastId(StreamOf(c)) \in Nat \X Nat
  BY <1>0, LastIdIsLast
<1>2. CASE c.auto
  <2>1. PICK clock \in 1..MaxTime :
            id = IF LastId(StreamOf(c))[1] < clock THEN <<clock, 0>> ELSE Successor(LastId(StreamOf(c)))
    BY <1>2 DEF Ids, GeneratedIds
  <2>2. clock \in Nat
    BY <2>1, ConstantsAssumption
  <2>3. CASE LastId(StreamOf(c))[1] < clock
    BY <1>2, <2>1, <2>2, <2>3 DEF IdLess
  <2>4. CASE ~ (LastId(StreamOf(c))[1] < clock)
    BY <1>1, <1>2, <2>1, <2>4, IdOrder
  <2> QED  BY <2>3, <2>4
<1>3. CASE ~ c.auto
  <2>1. id = <<tradedAt[c.trade], 0>>
    BY <1>3 DEF Ids
  <2>2. tradedAt[c.trade] \in 0..MaxTime
    BY <1>0 DEF TypeOK
  <2>3. tradedAt[c.trade] \in Nat
    BY <2>2, ConstantsAssumption
  <2> QED  BY <1>3, <2>1, <2>3 DEF Refused
<1> QED  BY <1>2, <1>3

\* What an executed XADD makes of its stream: k of its oldest entries may be
\* gone, if enough are left, and the new entry is its last.
LEMMA XaddShape ==
    ASSUME TypeOK, StreamInv, NEW c \in Command, ~ Refused(c), xadd(c)
    PROVE  \E k \in Nat, id \in Nat \X Nat :
              LET s == StreamOf(c)
                  n == Len(stream[s])
              IN  /\ stream' \in [Streams -> Seq(Entry)]
                  /\ \A z \in Streams : z # s => stream'[z] = stream[z]
                  /\ k <= n /\ (k = 0 \/ n + 1 - k >= Cap(s))
                  /\ Len(stream'[s]) = n + 1 - k /\ n \in Nat
                  /\ \A i \in 1..(n + 1 - k) :
                        stream'[s][i] = IF i + k <= n THEN stream[s][i + k]
                                        ELSE [id |-> id, trade |-> c.trade]
                  /\ IdLess(LastId(s), id)
                  /\ ~ c.auto => id = <<tradedAt[c.trade], 0>>
<1>0. /\ StreamOf(c) \in Streams /\ c.trade \in Trades /\ Cap(StreamOf(c)) \in Nat
      /\ Cap(StreamOf(c)) >= 1
  BY StreamNames, CapType
<1> DEFINE s == StreamOf(c)
<1> HIDE DEF s
<1>1. PICK id \in Ids(c) : \E z \in Trimmed(Append(stream[s], [id |-> id, trade |-> c.trade]), Cap(s)) :
          stream' = [stream EXCEPT ![s] = z]
  BY DEF xadd, s
<1>2. id \in Nat \X Nat /\ IdLess(LastId(s), id) /\ (~ c.auto => id = <<tradedAt[c.trade], 0>>)
  BY <1>1, IdsGrow DEF s
<1>3. PICK e : e = [id |-> id, trade |-> c.trade]
  OBVIOUS
<1>4. e \in Entry /\ stream[s] \in Seq(Entry) /\ stream \in [Streams -> Seq(Entry)] /\ s \in Streams
  BY <1>0, <1>2, <1>3 DEF Entry, TypeOK, s
<1>5. PICK a : a = Append(stream[s], e)
  OBVIOUS
<1>6. /\ a \in Seq(Entry) /\ Len(a) = Len(stream[s]) + 1 /\ Len(stream[s]) \in Nat
      /\ \A i \in 1..Len(a) : a[i] = IF i <= Len(stream[s]) THEN stream[s][i] ELSE e
  BY <1>4, <1>5
<1>7. PICK k \in {0} \cup {j \in 1..Len(a) : Len(a) - j >= Cap(s)} :
          stream' = [stream EXCEPT ![s] = SubSeq(a, k + 1, Len(a))]
  BY <1>1, <1>3, <1>5 DEF Trimmed
<1>8. k \in Nat /\ k <= Len(stream[s]) /\ (k = 0 \/ Len(stream[s]) + 1 - k >= Cap(s))
  BY <1>0, <1>6, <1>7 DEF s
<1>9. PICK b : b = SubSeq(a, k + 1, Len(a))
  OBVIOUS
<1>10. /\ b \in Seq(Entry) /\ Len(b) = Len(stream[s]) + 1 - k
       /\ \A i \in 1..Len(b) : b[i] = a[i + k]
  BY <1>6, <1>8, <1>9
<1>11. /\ stream' \in [Streams -> Seq(Entry)] /\ stream'[s] = b
       /\ \A z \in Streams : z # s => stream'[z] = stream[z]
  BY <1>4, <1>7, <1>9, <1>10
<1>12. \A i \in 1..(Len(stream[s]) + 1 - k) :
          stream'[s][i] = IF i + k <= Len(stream[s]) THEN stream[s][i + k]
                          ELSE [id |-> id, trade |-> c.trade]
  BY <1>3, <1>6, <1>8, <1>10, <1>11
<1> QED  BY <1>2, <1>6, <1>8, <1>10, <1>11, <1>12 DEF s

\* Indices that go down by k land on as many places.
LEMMA ShiftedCount ==
    ASSUME NEW A, NEW B, NEW k \in Nat, IsFiniteSet(A), B \subseteq Int, \A i \in B : i + k \in A
    PROVE  IsFiniteSet(B) /\ Cardinality(B) <= Cardinality(A) /\ Cardinality(B) \in Nat
<1>1. [i \in B |-> i + k] \in Injection(B, A)
  BY DEF Injection, IsInjective
<1> QED  BY <1>1, FS_Injection, FS_CardinalityType

LEMMA CopiesType ==
    ASSUME TypeOK, NEW s \in Streams, NEW t
    PROVE  Copies(s, t) \in Nat /\ ((\E i \in 1..Len(stream[s]) : stream[s][i].trade = t) => Copies(s, t) > 0)
<1>1. stream[s] \in Seq(Entry) /\ DOMAIN stream[s] = 1..Len(stream[s]) /\ Len(stream[s]) \in Int
  BY DEF TypeOK
<1> DEFINE A == {i \in DOMAIN stream[s] : stream[s][i].trade = t}
<1>2. IsFiniteSet(1..Len(stream[s])) /\ A \in SUBSET (1..Len(stream[s]))
  BY <1>1, FS_Interval
<1>3. IsFiniteSet(A)
  BY <1>2, FS_Subset
<1>4. Cardinality(A) \in Nat /\ (Cardinality(A) = 0 <=> A = {})
  BY <1>3, FS_CardinalityType, FS_EmptySet
<1>5. (\E i \in 1..Len(stream[s]) : stream[s][i].trade = t) => A # {}
  BY <1>1
<1> QED  BY <1>4, <1>5 DEF Copies

\* An XADD adds at most one copy, of its trade and to its stream.
LEMMA XaddCopies ==
    ASSUME TypeOK, StreamInv, NEW c \in Command, ~ Refused(c), xadd(c), NEW s \in Streams, NEW t
    PROVE  /\ Copies(s, t)' \in Nat
           /\ Copies(s, t)' <= Copies(s, t) + 1
           /\ s # StreamOf(c) \/ t # c.trade => Copies(s, t)' <= Copies(s, t)
<1>0. PICK k \in Nat, id \in Nat \X Nat :
          LET z == StreamOf(c)
              n == Len(stream[z])
          IN  /\ stream' \in [Streams -> Seq(Entry)]
              /\ \A y \in Streams : y # z => stream'[y] = stream[y]
              /\ k <= n /\ (k = 0 \/ n + 1 - k >= Cap(z))
              /\ Len(stream'[z]) = n + 1 - k /\ n \in Nat
              /\ \A i \in 1..(n + 1 - k) :
                    stream'[z][i] = IF i + k <= n THEN stream[z][i + k]
                                    ELSE [id |-> id, trade |-> c.trade]
              /\ IdLess(LastId(z), id)
              /\ ~ c.auto => id = <<tradedAt[c.trade], 0>>
  BY XaddShape
<1> DEFINE A == {i \in DOMAIN stream[s] : stream[s][i].trade = t}
           B == {i \in DOMAIN stream'[s] : stream'[s][i].trade = t}
<1>1. Copies(s, t) = Cardinality(A) /\ Copies(s, t)' = Cardinality(B)
  BY DEF Copies
<1>2. Copies(s, t) \in Nat
  BY CopiesType
<1>3. CASE s # StreamOf(c)
  <2>1. A = B
    BY <1>0, <1>3
  <2> HIDE DEF A, B
  <2> QED  BY <1>1, <1>2, <1>3, <2>1
<1>4. CASE s = StreamOf(c)
  <2>1. PICK n : n = Len(stream[s])
    OBVIOUS
  <2>2. /\ n \in Nat /\ k <= n /\ DOMAIN stream[s] = 1..n /\ DOMAIN stream'[s] = 1..(n + 1 - k)
        /\ \A i \in 1..(n + 1 - k) : stream'[s][i] = IF i + k <= n THEN stream[s][i + k]
                                                      ELSE [id |-> id, trade |-> c.trade]
    <3>1. stream[s] \in Seq(Entry)
      BY DEF TypeOK
    <3>2. stream'[s] \in Seq(Entry) /\ Len(stream'[s]) = n + 1 - k
      BY <1>0, <1>4, <2>1
    <3>3. /\ n \in Nat /\ k <= n
          /\ \A i \in 1..(n + 1 - k) : stream'[s][i] = IF i + k <= n THEN stream[s][i + k]
                                                        ELSE [id |-> id, trade |-> c.trade]
      BY <1>0, <1>4, <2>1
    <3>4. DOMAIN stream[s] = 1..n
      BY <2>1, <3>1
    <3>5. DOMAIN stream'[s] = 1..(n + 1 - k)
      BY <3>2
    <3> QED  BY <3>3, <3>4, <3>5
  <2>3. A \in SUBSET (1..n) /\ IsFiniteSet(1..n)
    <3>1. A \in SUBSET (1..n)
      BY <2>2
    <3>2. n \in Int /\ 1 \in Int
      BY <2>2
    <3> HIDE DEF A
    <3> QED  BY <3>1, <3>2, FS_Interval
  <2>4. IsFiniteSet(A)
    BY <2>3, FS_Subset
  <2>5. ASSUME NEW i \in B \ {n + 1 - k}
        PROVE  i \in Int /\ i + k \in A
    <3>0. i \in DOMAIN stream'[s] /\ i # n + 1 - k
      BY <2>5
    <3>1. i \in 1..(n + 1 - k) /\ i # n + 1 - k /\ i + k <= n
      <4>1. i \in 1..(n + 1 - k)
        BY <2>2, <3>0
      <4>2. n \in Nat /\ i # n + 1 - k
        BY <2>2, <3>0
      <4> HIDE DEF A, B
      <4> QED  BY <4>1, <4>2
    <3>2. stream'[s][i] = stream[s][i + k] /\ stream'[s][i].trade = t /\ i + k \in 1..n
      BY <2>2, <3>1
    <3> QED  BY <2>2, <3>1, <3>2
  <2>6. t # c.trade => (n + 1 - k) \notin B
    <3>1. (n + 1 - k) \in 1..(n + 1 - k) /\ ~ ((n + 1 - k) + k <= n)
      BY <2>2
    <3> QED  BY <2>2, <3>1
  <2> HIDE DEF A, B
  <2>7. PICK D : D = B \ {n + 1 - k}
    OBVIOUS
  <2>8. IsFiniteSet(D) /\ Cardinality(D) <= Cardinality(A) /\ Cardinality(D) \in Nat
    <3>1. D \subseteq Int /\ \A i \in D : i + k \in A
      BY <2>5, <2>7
    <3> QED  BY <2>4, <3>1, ShiftedCount
  <2>9. CASE (n + 1 - k) \in B
    <3>1. B = D \cup {n + 1 - k} /\ (n + 1 - k) \notin D
      BY <2>7, <2>9
    <3>2. Cardinality(B) = Cardinality(D) + 1
      BY <2>8, <3>1, FS_AddElement
    <3> QED  BY <1>1, <1>2, <1>4, <2>6, <2>8, <2>9, <3>2
  <2>10. CASE (n + 1 - k) \notin B
    <3>1. B = D
      BY <2>7, <2>10
    <3> QED  BY <1>1, <1>2, <2>8, <3>1
  <2> QED  BY <2>9, <2>10
<1> QED  BY <1>3, <1>4

\* An XADD keeps the ids increasing, and its new entry is of its trade, at the
\* trade's time unless Redis chose the id.
LEMMA XaddEntries ==
    ASSUME TypeOK, StreamInv, NEW c \in Command, ~ Refused(c), xadd(c), NEW s \in Streams
    PROVE  /\ stream' \in [Streams -> Seq(Entry)]
           /\ \A i, j \in 1..Len(stream'[s]) : i < j => IdLess(stream'[s][i].id, stream'[s][j].id)
           /\ \A i \in 1..Len(stream'[s]) :
                 \/ \E j \in 1..Len(stream[s]) : stream'[s][i] = stream[s][j]
                 \/ /\ stream'[s][i].trade = c.trade
                    /\ ~ c.auto => stream'[s][i].id = <<tradedAt[c.trade], 0>>
           /\ \A t : Stored(s, t) => Stored(s, t)'
           /\ s = StreamOf(c) => Stored(s, c.trade)'
           /\ Len(stream'[s]) < Cap(s) =>
                 /\ Len(stream[s]) < Cap(s) /\ Len(stream[s]) <= Len(stream'[s])
                 /\ \A j \in 1..Len(stream[s]) : stream'[s][j] = stream[s][j]
<1>0. PICK k \in Nat, id \in Nat \X Nat :
          LET z == StreamOf(c)
              n == Len(stream[z])
          IN  /\ stream' \in [Streams -> Seq(Entry)]
              /\ \A y \in Streams : y # z => stream'[y] = stream[y]
              /\ k <= n /\ (k = 0 \/ n + 1 - k >= Cap(z))
              /\ Len(stream'[z]) = n + 1 - k /\ n \in Nat
              /\ \A i \in 1..(n + 1 - k) :
                    stream'[z][i] = IF i + k <= n THEN stream[z][i + k]
                                    ELSE [id |-> id, trade |-> c.trade]
              /\ IdLess(LastId(z), id)
              /\ ~ c.auto => id = <<tradedAt[c.trade], 0>>
  BY XaddShape
<1>1. stream' \in [Streams -> Seq(Entry)] /\ stream[s] \in Seq(Entry)
  BY <1>0 DEF TypeOK
<1>2. Len(stream[s]) \in Nat /\ Cap(s) \in Nat
  <2>1. Len(stream[s]) \in Nat
    BY <1>1
  <2> QED  BY <2>1, CapType
<1>3. CASE s # StreamOf(c)
  <2>1. stream'[s] = stream[s]
    BY <1>0, <1>3
  <2>2. \A t : Stored(s, t) => Stored(s, t)'
    BY <1>2, <2>1 DEF Stored
  <2>3. \A i, j \in 1..Len(stream'[s]) : i < j => IdLess(stream'[s][i].id, stream'[s][j].id)
    BY <2>1 DEF StreamInv
  <2>4. \A i \in 1..Len(stream'[s]) : \E j \in 1..Len(stream[s]) : stream'[s][i] = stream[s][j]
    BY <2>1
  <2>5. Len(stream'[s]) = Len(stream[s])
    BY <2>1
  <2>6. \A i \in 1..Len(stream'[s]) :
           \/ \E j \in 1..Len(stream[s]) : stream'[s][i] = stream[s][j]
           \/ /\ stream'[s][i].trade = c.trade
              /\ ~ c.auto => stream'[s][i].id = <<tradedAt[c.trade], 0>>
    BY <2>4
  <2>7. Len(stream'[s]) < Cap(s) =>
           /\ Len(stream[s]) < Cap(s) /\ Len(stream[s]) <= Len(stream'[s])
           /\ \A j \in 1..Len(stream[s]) : stream'[s][j] = stream[s][j]
    <3>1. Len(stream[s]) <= Len(stream'[s])
      BY <1>2, <2>5
    <3> QED  BY <2>1, <2>5, <3>1
  <2> QED  BY <1>1, <1>3, <2>2, <2>3, <2>6, <2>7
<1>4. CASE s = StreamOf(c)
  <2>1. PICK n, m, e : n = Len(stream[s]) /\ m = n + 1 - k /\ e = [id |-> id, trade |-> c.trade]
    OBVIOUS
  <2>2. /\ n \in Nat /\ k <= n /\ (k = 0 \/ m >= Cap(s)) /\ Len(stream'[s]) = m /\ m \in Nat /\ m >= 1
        /\ \A i \in 1..m : stream'[s][i] = IF i + k <= n THEN stream[s][i + k] ELSE e
        /\ IdLess(LastId(s), id)
        /\ ~ c.auto => id = <<tradedAt[c.trade], 0>>
    BY <1>0, <1>4, <2>1
  <2>3. e.id = id /\ e.trade = c.trade
    BY <2>1
  <2>4. /\ LastId(s) \in Nat \X Nat
        /\ \A i \in 1..n : stream[s][i].id = LastId(s) \/ IdLess(stream[s][i].id, LastId(s))
    BY <2>1, LastIdIsLast
  <2>5. ASSUME NEW i \in 1..m, NEW j \in 1..m, i < j
        PROVE  IdLess(stream'[s][i].id, stream'[s][j].id)
    <3>0. n \in Nat /\ m = n + 1 - k
      BY <2>1, <2>2
    <3>1. i + k \in 1..n /\ stream'[s][i] = stream[s][i + k]
      <4>1. i + k \in 1..n /\ i + k <= n
        BY <2>5, <3>0
      <4> QED  BY <2>2, <2>5, <4>1
    <3>2. CASE j + k <= n
      <4>1. j + k \in 1..n /\ stream'[s][j] = stream[s][j + k] /\ i + k < j + k
        BY <2>2, <2>5, <3>2
      <4> QED  BY <2>1, <3>1, <4>1 DEF StreamInv
    <3>3. CASE ~ (j + k <= n)
      <4>1. stream'[s][j] = e
        BY <2>2, <3>3
      <4>2. stream[s][i + k] \in Entry
        BY <1>1, <2>1, <3>1
      <4>3. stream[s][i + k].id \in Nat \X Nat
        BY <4>2 DEF Entry
      <4>4. stream[s][i + k].id = LastId(s) \/ IdLess(stream[s][i + k].id, LastId(s))
        BY <2>4, <3>1
      <4>5. IdLess(stream[s][i + k].id, id)
        BY <2>2, <2>4, <4>3, <4>4, IdOrder
      <4> QED  BY <2>3, <3>1, <4>1, <4>5
    <3> QED  BY <3>2, <3>3
  <2>6. ASSUME NEW i \in 1..m
        PROVE  \/ \E j \in 1..n : stream'[s][i] = stream[s][j]
               \/ /\ stream'[s][i].trade = c.trade
                  /\ ~ c.auto => stream'[s][i].id = <<tradedAt[c.trade], 0>>
    <3>1. CASE i + k <= n
      <4>1. i + k \in 1..n /\ stream'[s][i] = stream[s][i + k]
        BY <2>2, <3>1
      <4> QED  BY <4>1
    <3>2. CASE ~ (i + k <= n)
      BY <2>2, <2>3, <3>2
    <3> QED  BY <3>1, <3>2
  <2>7. m \in 1..m /\ stream'[s][m] = e
    <3>1. n \in Nat /\ m \in Nat /\ m >= 1 /\ m = n + 1 - k
      BY <2>1, <2>2
    <3>2. m \in 1..m /\ ~ (m + k <= n)
      BY <3>1
    <3> QED  BY <2>2, <3>2
  <2>8. Stored(s, c.trade)'
    BY <2>2, <2>3, <2>7 DEF Stored
  <2>9. k = 0 => m = n + 1 /\ \A j \in 1..n : j \in 1..m /\ stream'[s][j] = stream[s][j]
    BY <2>1, <2>2
  <2>10. ASSUME NEW t, Stored(s, t)
         PROVE  Stored(s, t)'
    <3>1. CASE k = 0
      <4>1. CASE n >= Cap(s)
        BY <1>2, <2>2, <2>9, <3>1, <4>1 DEF Stored
      <4>2. CASE \E i \in 1..n : stream[s][i].trade = t
        BY <2>2, <2>9, <3>1, <4>2 DEF Stored
      <4> QED  BY <2>1, <2>10, <4>1, <4>2 DEF Stored
    <3>2. CASE m >= Cap(s)
      BY <1>2, <2>2, <3>2 DEF Stored
    <3> QED  BY <2>2, <3>1, <3>2
  <2>11. m < Cap(s) => n < Cap(s) /\ n <= m /\ \A j \in 1..n : stream'[s][j] = stream[s][j]
    BY <1>2, <2>2, <2>9
  <2> QED  BY <1>1, <1>4, <2>1, <2>2, <2>5, <2>6, <2>8, <2>10, <2>11
<1> QED  BY <1>3, <1>4

-----------------------------------------------------------------------------
(* The command queue *)

\* The next command, and what may take its place at the end of the queue.
LEMMA NextCommand ==
    ASSUME TypeOK, pipe # <<>>
    PROVE  /\ Head(pipe) \in Command /\ Head(pipe) = pipe[1] /\ 1 \in 1..Len(pipe)
           /\ Tail(pipe) \in Seq(Command)
BY DEF TypeOK

LEMMA Replies ==
    ASSUME NEW c \in Command
    PROVE  /\ c.to = "market" \/ c.to = "global"
           /\ c.to = "market" =>
                 AfterSuccess(c) = <<[trade |-> c.trade, to |-> "global", auto |-> c.auto]>>
           /\ c.to = "global" => AfterSuccess(c) = <<>>
           /\ AfterConflict(c) = <<[trade |-> c.trade, to |-> "market", auto |-> TRUE]>>
           /\ [trade |-> c.trade, to |-> "global", auto |-> c.auto] \in Command
           /\ [trade |-> c.trade, to |-> "market", auto |-> TRUE] \in Command
<1>1. /\ c.trade \in Trades /\ c.auto \in BOOLEAN /\ (c.to = "market" \/ c.to = "global")
      /\ c = [trade |-> c.trade, to |-> c.to, auto |-> c.auto]
  BY DEF Command
<1>2. [c EXCEPT !.to = "global"] = [trade |-> c.trade, to |-> "global", auto |-> c.auto]
  BY <1>1
<1>4. /\ [trade |-> c.trade, to |-> "global", auto |-> c.auto] \in Command
      /\ [trade |-> c.trade, to |-> "market", auto |-> TRUE] \in Command
  BY <1>1 DEF Command
<1>5. c.to = "global" => AfterSuccess(c) = <<>>
  BY DEF AfterSuccess
<1>6. c.to = "market" => AfterSuccess(c) = <<[c EXCEPT !.to = "global"]>>
  BY DEF AfterSuccess
<1>7. AfterConflict(c) = <<[trade |-> c.trade, to |-> "market", auto |-> TRUE]>>
  BY DEF AfterConflict
<1> QED  BY <1>1, <1>2, <1>4, <1>5, <1>6, <1>7

\* A command of the next queue is an old one or the one that was added.
LEMMA PopShape ==
    ASSUME TypeOK, pipe # <<>>, NEW q \in Seq(Command), Len(q) <= 1, pipe' = Tail(pipe) \o q
    PROVE  /\ pipe' \in Seq(Command)
           /\ \A i \in 1..Len(pipe') :
                 \/ i + 1 \in 1..Len(pipe) /\ pipe'[i] = pipe[i + 1]
                 \/ i = Len(pipe) /\ Len(q) = 1 /\ pipe'[i] = q[1]
<1>1. pipe \in Seq(Command) /\ Tail(pipe) \in Seq(Command) /\ Len(Tail(pipe)) = Len(pipe) - 1
      /\ Len(pipe) \in Nat /\ Len(q) \in Nat /\ Len(pipe) >= 1
      /\ \A i \in 1..(Len(pipe) - 1) : Tail(pipe)[i] = pipe[i + 1]
  BY DEF TypeOK
<1>2. PICK p : p = Tail(pipe)
  OBVIOUS
<1>3. /\ pipe' \in Seq(Command) /\ Len(pipe') = Len(p) + Len(q)
      /\ \A i \in 1..(Len(p) + Len(q)) : pipe'[i] = IF i <= Len(p) THEN p[i] ELSE q[i - Len(p)]
  BY <1>1, <1>2
<1>4. ASSUME NEW i \in 1..Len(pipe')
      PROVE  \/ i + 1 \in 1..Len(pipe) /\ pipe'[i] = pipe[i + 1]
             \/ i = Len(pipe) /\ Len(q) = 1 /\ pipe'[i] = q[1]
  <2>0. Len(p) = Len(pipe) - 1 /\ i \in Nat /\ i >= 1 /\ i <= Len(p) + Len(q)
    BY <1>1, <1>2, <1>3
  <2>1. CASE i <= Len(p)
    <3>1. i \in 1..(Len(pipe) - 1) /\ i + 1 \in 1..Len(pipe) /\ i \in 1..(Len(p) + Len(q))
      BY <1>1, <2>0, <2>1
    <3>2. pipe'[i] = p[i] /\ p[i] = pipe[i + 1]
      BY <1>1, <1>2, <1>3, <2>1, <3>1
    <3> QED  BY <3>1, <3>2
  <2>2. CASE ~ (i <= Len(p))
    <3>1. PICK n, l : n = Len(pipe) /\ l = Len(q)
      OBVIOUS
    <3>2. n \in Nat /\ l \in Nat /\ l <= 1 /\ ~ (i <= n - 1) /\ i <= n - 1 + l /\ i \in Nat
      BY <1>1, <2>0, <2>2, <3>1
    <3>3. i = n /\ l = 1 /\ i - (n - 1) = 1
      BY <3>2
    <3>4. i \in 1..(Len(p) + Len(q)) /\ i - Len(p) = 1
      BY <2>0, <3>1, <3>3
    <3>5. pipe'[i] = q[1]
      BY <1>3, <2>2, <3>4
    <3> QED  BY <3>1, <3>3, <3>5
  <2> QED  BY <2>1, <2>2
<1> QED  BY <1>3, <1>4

\* The queue keeps one command per trade, and the other commands of the next
\* queue are of other trades.
LEMMA PopDistinct ==
    ASSUME TypeOK, PipeInv, pipe # <<>>, NEW q \in Seq(Command), Len(q) <= 1,
           pipe' = Tail(pipe) \o q, Len(q) = 1 => q[1].trade = Head(pipe).trade
    PROVE  /\ pipe' \in Seq(Command)
           /\ \A i, j \in 1..Len(pipe') : pipe'[i].trade = pipe'[j].trade => i = j
           /\ \A i \in 1..Len(pipe') :
                 \/ /\ CommandInv(pipe'[i]) /\ pipe'[i] \in Command
                    /\ pipe'[i].trade # Head(pipe).trade
                 \/ Len(q) = 1 /\ pipe'[i] = q[1]
<1>1. /\ pipe' \in Seq(Command)
      /\ \A i \in 1..Len(pipe') :
            \/ i + 1 \in 1..Len(pipe) /\ pipe'[i] = pipe[i + 1]
            \/ i = Len(pipe) /\ Len(q) = 1 /\ pipe'[i] = q[1]
  BY PopShape
<1>2. Head(pipe) = pipe[1] /\ 1 \in 1..Len(pipe)
  BY NextCommand
<1>3. \A i, j \in 1..Len(pipe) : pipe[i].trade = pipe[j].trade => i = j
  BY DEF PipeInv
<1>4. ASSUME NEW i \in 1..Len(pipe'), i + 1 \in 1..Len(pipe), pipe'[i] = pipe[i + 1]
      PROVE  /\ CommandInv(pipe'[i]) /\ pipe'[i] \in Command
             /\ pipe'[i].trade # Head(pipe).trade
  <2>1. i + 1 # 1
    BY <1>1
  <2>2. pipe[i + 1] \in Command
    BY <1>4 DEF TypeOK
  <2> QED  BY <1>2, <1>3, <1>4, <2>1, <2>2 DEF PipeInv
<1>5. ASSUME NEW i \in 1..Len(pipe'), NEW j \in 1..Len(pipe'), pipe'[i].trade = pipe'[j].trade
      PROVE  i = j
  <2>1. CASE i + 1 \in 1..Len(pipe) /\ pipe'[i] = pipe[i + 1] /\ j + 1 \in 1..Len(pipe) /\ pipe'[j] = pipe[j + 1]
    <3>1. i + 1 = j + 1
      BY <1>3, <1>5, <2>1
    <3>2. i \in Int /\ j \in Int
      OBVIOUS
    <3> QED  BY <3>1, <3>2
  <2> QED  BY <1>1, <1>4, <1>5, <2>1
<1> QED  BY <1>1, <1>4, <1>5

-----------------------------------------------------------------------------
(* What an XADD and the other steps keep *)

\* Nothing is stored for a trade that was not matched.
LEMMA NoCopies ==
    ASSUME TypeOK, StreamInv, NEW t \in Trades, logged[t] = "no", NEW s \in Streams
    PROVE  Copies(s, t) = 0
<1>1. stream[s] \in Seq(Entry) /\ DOMAIN stream[s] = 1..Len(stream[s])
  BY DEF TypeOK
<1>2. {i \in DOMAIN stream[s] : stream[s][i].trade = t} = {}
  BY <1>1 DEF StreamInv
<1> QED  BY <1>2, FS_EmptySet DEF Copies

LEMMA StreamAfterXadd ==
    ASSUME TypeOK, StreamInv, NEW c \in Command, CommandInv(c), ~ Refused(c), xadd(c),
           tradedAt' = tradedAt, conflicted' = conflicted,
           \A t \in Trades : logged[t] # "no" => logged'[t] # "no"
    PROVE  StreamInv'
<1> SUFFICES ASSUME NEW s \in Streams
             PROVE  /\ \A i, j \in 1..Len(stream'[s]) : i < j => IdLess(stream'[s][i].id, stream'[s][j].id)
                    /\ \A i \in 1..Len(stream'[s]) :
                          /\ logged'[stream'[s][i].trade] # "no"
                          /\ stream'[s][i].trade \notin conflicted' =>
                                stream'[s][i].id = <<tradedAt'[stream'[s][i].trade], 0>>
  BY DEF StreamInv
<1>1. /\ \A i, j \in 1..Len(stream'[s]) : i < j => IdLess(stream'[s][i].id, stream'[s][j].id)
      /\ \A i \in 1..Len(stream'[s]) :
            \/ \E j \in 1..Len(stream[s]) : stream'[s][i] = stream[s][j]
            \/ /\ stream'[s][i].trade = c.trade
               /\ ~ c.auto => stream'[s][i].id = <<tradedAt[c.trade], 0>>
  BY XaddEntries
<1>2. ASSUME NEW i \in 1..Len(stream'[s])
      PROVE  /\ logged'[stream'[s][i].trade] # "no"
             /\ stream'[s][i].trade \notin conflicted' =>
                   stream'[s][i].id = <<tradedAt'[stream'[s][i].trade], 0>>
  <2>1. CASE \E j \in 1..Len(stream[s]) : stream'[s][i] = stream[s][j]
    <3>1. PICK j \in 1..Len(stream[s]) : stream'[s][i] = stream[s][j]
      BY <2>1
    <3>2. stream[s] \in Seq(Entry)
      BY DEF TypeOK
    <3>3. stream[s][j] \in Entry
      BY <3>2
    <3>4. stream[s][j].trade \in Trades
      BY <3>3 DEF Entry
    <3> QED  BY <3>1, <3>4 DEF StreamInv
  <2>2. CASE /\ stream'[s][i].trade = c.trade
             /\ ~ c.auto => stream'[s][i].id = <<tradedAt[c.trade], 0>>
    <3>1. c.trade \in Trades /\ logged[c.trade] = "running" /\ (c.auto <=> c.trade \in conflicted)
      BY StreamNames DEF CommandInv
    <3> QED  BY <2>2, <3>1
  <2> QED  BY <1>1, <2>1, <2>2
<1> QED  BY <1>1, <1>2

LEMMA StreamKept ==
    ASSUME TypeOK, StreamInv, stream' = stream, conflicted \subseteq conflicted',
           \A t \in Trades : logged[t] # "no" => logged'[t] # "no" /\ tradedAt'[t] = tradedAt[t]
    PROVE  StreamInv'
<1>1. ASSUME NEW s \in Streams, NEW i \in 1..Len(stream[s])
      PROVE  stream[s][i].trade \in Trades
  <2>1. stream[s] \in Seq(Entry)
    BY DEF TypeOK
  <2>2. stream[s][i] \in Entry
    BY <2>1
  <2> QED  BY <2>2 DEF Entry
<1> QED  BY <1>1 DEF StreamInv

LEMMA FaultsGrow ==
    ASSUME TypeOK
    PROVE  faults \in Nat /\ (Fault => faults' \in 0..MaxFaults /\ faults' = faults + 1)
<1>1. faults \in 0..MaxFaults /\ MaxFaults \in Nat
  BY ConstantsAssumption DEF TypeOK
<1> QED  BY <1>1 DEF Fault

\* The commands and the trades that an XADD is not about.
LEMMA OtherCommand ==
    ASSUME TypeOK, StreamInv, NEW c \in Command, ~ Refused(c), xadd(c), NEW d \in Command,
           CommandInv(d), d.trade # c.trade,
           logged'[d.trade] = logged[d.trade], conflicted' = conflicted,
           faults' = faults \/ faults' = faults + 1
    PROVE  CommandInv(d)'
<1>1. d.trade \in Trades
  BY StreamNames
<1>2. PICK m : m = getMarketStream(d.trade)
  OBVIOUS
<1>3. m \in Streams /\ "global" \in Streams
  BY <1>1, <1>2, MarketStreams
<1>4. /\ Copies(m, d.trade)' \in Nat /\ Copies(m, d.trade)' <= Copies(m, d.trade)
      /\ Copies("global", d.trade)' \in Nat /\ Copies("global", d.trade)' <= Copies("global", d.trade)
  BY <1>3, XaddCopies
<1>5. Copies(m, d.trade) \in Nat /\ Copies("global", d.trade) \in Nat /\ faults \in Nat
  BY <1>3, CopiesType, FaultsGrow
<1>6. Stored(m, d.trade) => Stored(m, d.trade)'
  BY <1>3, XaddEntries
<1>7. PICK g, h, g2, h2 : /\ g = Copies("global", d.trade) /\ h = Copies(m, d.trade)
                          /\ g2 = Copies("global", d.trade)' /\ h2 = Copies(m, d.trade)'
  OBVIOUS
<1>8. g <= faults /\ h <= faults + (IF d.auto THEN 1 ELSE 0) + (IF d.to = "global" THEN 1 ELSE 0)
  BY <1>2, <1>7 DEF CommandInv
<1>9. g2 <= faults' /\ h2 <= faults' + (IF d.auto THEN 1 ELSE 0) + (IF d.to = "global" THEN 1 ELSE 0)
  BY <1>4, <1>5, <1>7, <1>8
<1> QED  BY <1>2, <1>6, <1>7, <1>9 DEF CommandInv

LEMMA OtherTrade ==
    ASSUME TypeOK, StreamInv, NEW c \in Command, ~ Refused(c), xadd(c), NEW t \in Trades,
           LogInvOf(t), t # c.trade, logged'[t] = logged[t], tradedAt' = tradedAt, conflicted' = conflicted,
           faults' = faults \/ faults' = faults + 1
    PROVE  LogInvOf(t)'
<1>2. PICK m : m = getMarketStream(t)
  OBVIOUS
<1>3. m \in Streams /\ "global" \in Streams
  BY <1>2, MarketStreams
<1>4. /\ Copies(m, t)' \in Nat /\ Copies(m, t)' <= Copies(m, t)
      /\ Copies("global", t)' \in Nat /\ Copies("global", t)' <= Copies("global", t)
  BY <1>3, XaddCopies
<1>5. Copies(m, t) \in Nat /\ Copies("global", t) \in Nat /\ faults \in Nat
  BY <1>3, CopiesType, FaultsGrow
<1>6. (Stored(m, t) => Stored(m, t)') /\ (Stored("global", t) => Stored("global", t)')
  BY <1>3, XaddEntries
<1>7. PICK g, h, g2, h2 : /\ g = Copies("global", t) /\ h = Copies(m, t)
                          /\ g2 = Copies("global", t)' /\ h2 = Copies(m, t)'
  OBVIOUS
<1>8. g <= 1 + faults /\ h <= faults + IF t \in conflicted THEN 2 ELSE 1
  BY <1>2, <1>7 DEF LogInvOf
<1>9. g2 <= 1 + faults' /\ h2 <= faults' + IF t \in conflicted THEN 2 ELSE 1
  BY <1>4, <1>5, <1>7, <1>8
<1> QED  BY <1>2, <1>6, <1>7, <1>9 DEF LogInvOf

\* The trade an XADD is about.
LEMMA XaddedTrade ==
    ASSUME TypeOK, StreamInv, NEW c \in Command, CommandInv(c), ~ Refused(c), xadd(c)
    PROVE  /\ Copies("global", c.trade)' <= faults + (IF c.to = "global" THEN 1 ELSE 0)
           /\ Copies(getMarketStream(c.trade), c.trade)' <= faults + (IF c.auto THEN 1 ELSE 0) + 1
           /\ Stored(getMarketStream(c.trade), c.trade)'
           /\ c.to = "global" => Stored("global", c.trade)'
           /\ Copies("global", c.trade)' \in Nat /\ Copies(getMarketStream(c.trade), c.trade)' \in Nat
<1>1. c.trade \in Trades /\ (c.to = "market" \/ c.to = "global")
  BY StreamNames, Replies
<1>2. PICK m : m = getMarketStream(c.trade)
  OBVIOUS
<1>3. m \in Streams /\ "global" \in Streams /\ m # "global"
  BY <1>1, <1>2, MarketStreams
<1>4. (c.to = "market" => StreamOf(c) = m) /\ (c.to = "global" => StreamOf(c) = "global")
  BY <1>2, StreamNames
<1>5. PICK g, h, g2, h2 : /\ g = Copies("global", c.trade) /\ h = Copies(m, c.trade)
                          /\ g2 = Copies("global", c.trade)' /\ h2 = Copies(m, c.trade)'
  OBVIOUS
<1>6. /\ h2 \in Nat /\ h2 <= h + 1 /\ (m # StreamOf(c) => h2 <= h)
      /\ g2 \in Nat /\ g2 <= g + 1 /\ ("global" # StreamOf(c) => g2 <= g)
  BY <1>3, <1>5, XaddCopies
<1>7. h \in Nat /\ g \in Nat /\ faults \in Nat
  BY <1>3, <1>5, CopiesType, FaultsGrow
<1>8. g <= faults /\ h <= faults + (IF c.auto THEN 1 ELSE 0) + (IF c.to = "global" THEN 1 ELSE 0)
  BY <1>2, <1>5 DEF CommandInv
<1>9. Stored(StreamOf(c), c.trade)' /\ (Stored(m, c.trade) => Stored(m, c.trade)')
  <2>1. StreamOf(c) \in Streams
    BY StreamNames
  <2>2. \A s \in Streams : s = StreamOf(c) => Stored(s, c.trade)'
    BY XaddEntries
  <2> QED  BY <1>3, <2>1, <2>2, XaddEntries
<1>10. c.to = "global" => Stored(m, c.trade)
  BY <1>2 DEF CommandInv
<1>11. CASE c.to = "market"
  <2>1. StreamOf(c) = m /\ "global" # StreamOf(c)
    BY <1>3, <1>4, <1>11
  <2>2. Stored(m, c.trade)'
    BY <1>9, <2>1 DEF Stored
  <2>3. g2 <= faults /\ h2 <= faults + (IF c.auto THEN 1 ELSE 0) + 1
    BY <1>6, <1>7, <1>8, <1>11, <2>1
  <2> QED  BY <1>2, <1>5, <1>6, <1>7, <1>11, <2>2, <2>3
<1>12. CASE c.to = "global"
  <2>1. StreamOf(c) = "global" /\ m # StreamOf(c)
    BY <1>3, <1>4, <1>12
  <2>2. Stored("global", c.trade)' /\ Stored(m, c.trade)'
    BY <1>9, <1>10, <1>12, <2>1 DEF Stored
  <2>3. g2 <= faults + 1 /\ h2 <= faults + (IF c.auto THEN 1 ELSE 0) + 1
    BY <1>6, <1>7, <1>8, <1>12, <2>1
  <2> QED  BY <1>2, <1>5, <1>6, <1>7, <1>12, <2>2, <2>3
<1> QED  BY <1>1, <1>11, <1>12

\* Steps that leave the streams alone.
LEMMA CommandKept ==
    ASSUME TypeOK, NEW d \in Command, CommandInv(d), stream' = stream,
           logged'[d.trade] = logged[d.trade], d.trade \in conflicted' <=> d.trade \in conflicted,
           faults' = faults \/ faults' = faults + 1
    PROVE  CommandInv(d)'
<1>1. d.trade \in Trades
  BY StreamNames
<1>2. PICK m : m = getMarketStream(d.trade)
  OBVIOUS
<1>3. m \in Streams /\ "global" \in Streams
  BY <1>1, <1>2, MarketStreams
<1>4. Copies(m, d.trade)' = Copies(m, d.trade) /\ Copies("global", d.trade)' = Copies("global", d.trade)
  BY DEF Copies
<1>5. Copies(m, d.trade) \in Nat /\ Copies("global", d.trade) \in Nat /\ faults \in Nat
  BY <1>3, CopiesType, FaultsGrow
<1>6. Stored(m, d.trade) => Stored(m, d.trade)'
  BY DEF Stored
<1>7. PICK g, h : g = Copies("global", d.trade) /\ h = Copies(m, d.trade)
  OBVIOUS
<1>8. g <= faults /\ h <= faults + (IF d.auto THEN 1 ELSE 0) + (IF d.to = "global" THEN 1 ELSE 0)
  BY <1>2, <1>7 DEF CommandInv
<1>9. g <= faults' /\ h <= faults' + (IF d.auto THEN 1 ELSE 0) + (IF d.to = "global" THEN 1 ELSE 0)
  BY <1>5, <1>7, <1>8
<1> QED  BY <1>2, <1>4, <1>6, <1>7, <1>9 DEF CommandInv

LEMMA TradeKept ==
    ASSUME TypeOK, NEW t \in Trades, LogInvOf(t), stream' = stream, tradedAt'[t] = tradedAt[t],
           logged'[t] = logged[t], t \in conflicted' <=> t \in conflicted,
           faults' = faults \/ faults' = faults + 1
    PROVE  LogInvOf(t)'
<1>2. PICK m : m = getMarketStream(t)
  OBVIOUS
<1>3. m \in Streams /\ "global" \in Streams
  BY <1>2, MarketStreams
<1>4. Copies(m, t)' = Copies(m, t) /\ Copies("global", t)' = Copies("global", t)
  BY DEF Copies
<1>5. Copies(m, t) \in Nat /\ Copies("global", t) \in Nat /\ faults \in Nat
  BY <1>3, CopiesType, FaultsGrow
<1>6. (Stored(m, t) => Stored(m, t)') /\ (Stored("global", t) => Stored("global", t)')
  BY DEF Stored
<1>7. PICK g, h : g = Copies("global", t) /\ h = Copies(m, t)
  OBVIOUS
<1>8. g <= 1 + faults /\ h <= faults + IF t \in conflicted THEN 2 ELSE 1
  BY <1>2, <1>7 DEF LogInvOf
<1>9. g <= 1 + faults' /\ h <= faults' + IF t \in conflicted THEN 2 ELSE 1
  BY <1>5, <1>7, <1>8
<1> QED  BY <1>2, <1>4, <1>6, <1>7, <1>9 DEF LogInvOf

\* Steps of the API while the backfill stands still.
LEMMA ScriptAfterXadd ==
    ASSUME TypeOK, StreamInv, ScriptInv, NEW c \in Command, ~ Refused(c), xadd(c),
           script' = script, cursor' = cursor, batch' = batch, more' = more, target' = target, table' = table
    PROVE  ScriptInv'
<1>1. script' = "upsert" <=> batch' # <<>>
  BY DEF ScriptInv
<1>2. ASSUME EmptyPrefix, Len(stream'["global"]) < Cap("global"), NEW t \in target \ table
      PROVE  \/ /\ script = "read"
                /\ \E j \in 1..Len(Visible') : Visible'[j].trade = t /\ ~ IdLess(Visible'[j].id, cursor)
             \/ \E i \in 1..Len(batch) : batch[i].trade = t
             \/ /\ batch # <<>> /\ more
                /\ \E j \in 1..Len(Visible') :
                      Visible'[j].trade = t /\ IdLess(batch[Len(batch)].id, Visible'[j].id)
  <2>1. "global" \in Streams
    BY DEF Streams
  <2>2. /\ Len(stream["global"]) < Cap("global") /\ Len(stream["global"]) <= Len(stream'["global"])
        /\ \A j \in 1..Len(stream["global"]) : stream'["global"][j] = stream["global"][j]
        /\ stream' \in [Streams -> Seq(Entry)]
    BY <1>2, <2>1, XaddEntries
  <2>3. Visible = stream["global"] /\ Visible' = stream'["global"]
    BY <1>2 DEF Visible
  <2>4. Len(stream["global"]) \in Nat /\ Len(stream'["global"]) \in Nat
    <3>1. stream["global"] \in Seq(Entry) /\ stream'["global"] \in Seq(Entry)
      BY <2>1, <2>2 DEF TypeOK
    <3> QED  BY <3>1
  <2>5. \A j \in 1..Len(Visible) : j \in 1..Len(Visible') /\ Visible'[j] = Visible[j]
    BY <2>2, <2>3, <2>4
  <2>6. \/ /\ script = "read"
           /\ \E j \in 1..Len(Visible) : Visible[j].trade = t /\ ~ IdLess(Visible[j].id, cursor)
        \/ \E i \in 1..Len(batch) : batch[i].trade = t
        \/ /\ batch # <<>> /\ more
           /\ \E j \in 1..Len(Visible) :
                 Visible[j].trade = t /\ IdLess(batch[Len(batch)].id, Visible[j].id)
    BY <1>2, <2>2 DEF ScriptInv
  <2> QED  BY <2>5, <2>6
<1>3. Cap("global")' = Cap("global")
  BY DEF Cap
<1> QED  BY <1>1, <1>2, <1>3 DEF ScriptInv

LEMMA ScriptKept ==
    ASSUME ScriptInv, stream' = stream,
           script' = script, cursor' = cursor, batch' = batch, more' = more, target' = target, table' = table
    PROVE  ScriptInv'
BY DEF ScriptInv, Visible, Cap

-----------------------------------------------------------------------------
(* The invariant, action by action *)

LEMMA InitInv == Init => IInv
<1> SUFFICES ASSUME Init PROVE IInv
  OBVIOUS
<1>1. TypeOK
  <2>1. 1 \in 1..MaxTime /\ 0 \in 0..MaxTime /\ 0 \in 0..MaxFaults /\ FirstId \in Nat \X Nat
    BY ConstantsAssumption DEF FirstId
  <2>2. <<>> \in Seq(Command) /\ <<>> \in Seq(Entry)
    OBVIOUS
  <2> QED  BY <2>1, <2>2 DEF Init, TypeOK
<1>2. StreamInv
  BY DEF Init, StreamInv
<1>3. PipeInv
  BY DEF Init, PipeInv
<1>4. LogInv
  <2> SUFFICES ASSUME NEW t \in Trades PROVE LogInvOf(t)
    BY DEF LogInv
  <2>1. logged[t] = "no" /\ tradedAt[t] = 0 /\ conflicted = {} /\ faults = 0
    BY DEF Init
  <2>2. Copies("global", t) = 0 /\ Copies(getMarketStream(t), t) = 0
    BY <1>1, <1>2, <2>1, MarketStreams, NoCopies
  <2> QED  BY <2>1, <2>2 DEF LogInvOf
<1>5. ScriptInv
  BY DEF Init, ScriptInv
<1> QED  BY <1>1, <1>2, <1>3, <1>4, <1>5 DEF IInv

\* The API and its streams: what the steps of the backfill leave alone.
LEMMA ApiKept ==
    ASSUME IInv, stream' = stream, tradedAt' = tradedAt, pipe' = pipe, logged' = logged,
           conflicted' = conflicted, faults' = faults \/ faults' = faults + 1
    PROVE  StreamInv' /\ PipeInv' /\ LogInv'
<1>1. StreamInv'
  BY StreamKept DEF IInv
<1>2. LogInv'
  BY TradeKept DEF LogInv, IInv
<1>3. ASSUME NEW i \in 1..Len(pipe) PROVE CommandInv(pipe[i])'
  <2>1. pipe[i] \in Command
    BY DEF IInv, TypeOK
  <2>2. PICK d \in Command : d = pipe[i]
    BY <2>1
  <2>3. CommandInv(d)
    BY <2>2 DEF IInv, PipeInv
  <2>4. CommandInv(d)'
    BY <2>3, CommandKept DEF IInv
  <2> QED  BY <2>2, <2>4 DEF CommandInv
<1>4. PipeInv'
  BY <1>3 DEF PipeInv, IInv
<1> QED  BY <1>1, <1>2, <1>4

LEMMA TickInv == ASSUME IInv, Tick PROVE IInv'
<1>1. TypeOK'
  BY ConstantsAssumption DEF IInv, TypeOK, Tick, redisVars, scriptVars
<1>2. StreamInv' /\ PipeInv' /\ LogInv'
  BY ApiKept DEF Tick, redisVars
<1>3. ScriptInv'
  BY ScriptKept DEF IInv, Tick, redisVars, scriptVars
<1> QED  BY <1>1, <1>2, <1>3 DEF IInv

LEMMA StutterInv == ASSUME IInv, UNCHANGED vars PROVE IInv'
<1>1. TypeOK'
  BY DEF IInv, TypeOK, vars, redisVars, scriptVars
<1>2. StreamInv' /\ PipeInv' /\ LogInv'
  BY ApiKept DEF vars, redisVars
<1>3. ScriptInv'
  BY ScriptKept DEF IInv, vars, redisVars, scriptVars
<1> QED  BY <1>1, <1>2, <1>3 DEF IInv

LEMMA XaddOkInv == ASSUME IInv, XaddOk PROVE IInv'
<1> USE DEF IInv
<1>1. PICK c \in Command : c = Head(pipe)
  BY NextCommand DEF XaddOk
<1>2. PICK q : q = AfterSuccess(c)
  OBVIOUS
<1>3. /\ ~ Refused(c) /\ xadd(c) /\ pipe # <<>> /\ pipe' = Tail(pipe) \o q
      /\ logged' = IF q = <<>> THEN [logged EXCEPT ![c.trade] = "done"] ELSE logged
      /\ now' = now /\ tradedAt' = tradedAt /\ conflicted' = conflicted /\ table' = table /\ faults' = faults
      /\ script' = script /\ cursor' = cursor /\ batch' = batch /\ more' = more /\ target' = target
  BY <1>1, <1>2 DEF XaddOk, scriptVars
<1>4. PICK d \in Command : d = [trade |-> c.trade, to |-> "global", auto |-> c.auto]
  BY Replies
<1>5. (c.to = "market" /\ q = <<d>> /\ q # <<>>) \/ (c.to = "global" /\ q = <<>>)
  <2>1. c.to = "market" \/ c.to = "global"
    BY Replies
  <2>2. c.to = "market" => q = <<d>> /\ <<d>> # <<>>
    BY <1>2, <1>4, Replies
  <2> QED  BY <1>2, <2>1, <2>2, Replies
<1>6. q \in Seq(Command) /\ Len(q) <= 1 /\ (Len(q) = 1 => q[1] = d /\ c.to = "market") /\ d.trade = c.trade
  <2>1. /\ <<d>> \in Seq(Command) /\ Len(<<d>>) = 1 /\ <<d>>[1] = d
        /\ <<>> \in Seq(Command) /\ Len(<<>>) = 0
    OBVIOUS
  <2>2. d.trade = c.trade
    BY <1>4
  <2>3. q = <<d>> => q \in Seq(Command) /\ Len(q) = 1 /\ q[1] = d
    BY <2>1, Zenon
  <2>4. q = <<>> => q \in Seq(Command) /\ Len(q) = 0
    BY <2>1, Zenon
  <2>5. CASE c.to = "market" /\ q = <<d>>
    <3>1. q \in Seq(Command) /\ Len(q) = 1 /\ q[1] = d
      BY <2>3, <2>5, Zenon
    <3> QED  BY <2>2, <2>5, <3>1
  <2>6. CASE q = <<>>
    <3>1. q \in Seq(Command) /\ Len(q) = 0
      BY <2>4, <2>6, Zenon
    <3> QED  BY <2>2, <3>1
  <2> QED  BY <1>5, <2>5, <2>6
<1>7. CommandInv(c) /\ c.trade \in Trades
  BY <1>1, <1>3, NextCommand, StreamNames DEF PipeInv
<1>8. /\ pipe' \in Seq(Command)
      /\ \A i, j \in 1..Len(pipe') : pipe'[i].trade = pipe'[j].trade => i = j
      /\ \A i \in 1..Len(pipe') :
            \/ /\ CommandInv(pipe'[i]) /\ pipe'[i] \in Command
               /\ pipe'[i].trade # c.trade
            \/ Len(q) = 1 /\ pipe'[i] = d
  BY <1>1, <1>3, <1>6, PopDistinct
<1>9. stream' \in [Streams -> Seq(Entry)]
  BY <1>3, <1>7, MarketStreams, XaddEntries
<1>10. TypeOK'
  BY <1>3, <1>7, <1>8, <1>9 DEF TypeOK
<1>11. logged[c.trade] = "running" /\ (c.auto <=> c.trade \in conflicted)
  BY <1>7 DEF CommandInv
<1>12. \A t \in Trades : /\ logged[t] # "no" => logged'[t] # "no"
                         /\ t # c.trade => logged'[t] = logged[t]
  BY <1>3, <1>7 DEF TypeOK
<1>13. StreamInv'
  BY <1>3, <1>7, <1>12, StreamAfterXadd
<1>14. PICK m, g, h : /\ m = getMarketStream(c.trade)
                      /\ g = Copies("global", c.trade)' /\ h = Copies(m, c.trade)'
  OBVIOUS
<1>15. /\ g <= faults + (IF c.to = "global" THEN 1 ELSE 0) /\ g \in Nat
       /\ h <= faults + (IF c.auto THEN 1 ELSE 0) + 1 /\ h \in Nat
       /\ Stored(m, c.trade)' /\ (c.to = "global" => Stored("global", c.trade)') /\ faults \in Nat
  BY <1>3, <1>7, <1>14, XaddedTrade, FaultsGrow
<1>16. c.to = "market" => CommandInv(d)'
  <2> SUFFICES ASSUME c.to = "market" PROVE CommandInv(d)'
    OBVIOUS
  <2>1. d.trade = c.trade /\ d.to = "global" /\ d.auto = c.auto
    BY <1>4
  <2>2. logged'[c.trade] = "running"
    BY <1>3, <1>5, <1>11
  <2>3. g <= faults' /\ h <= faults' + (IF d.auto THEN 1 ELSE 0) + 1
    BY <1>3, <1>15, <2>1
  <2> QED  BY <1>3, <1>11, <1>14, <1>15, <2>1, <2>2, <2>3 DEF CommandInv
<1>17. ASSUME NEW i \in 1..Len(pipe') PROVE CommandInv(pipe[i])'
  <2>1. CASE CommandInv(pipe'[i]) /\ pipe'[i] \in Command /\ pipe'[i].trade # c.trade
    <3>1. PICK e \in Command : e = pipe'[i]
      BY <2>1
    <3>2. CommandInv(e)'
      <4>1. CommandInv(e) /\ e.trade # c.trade /\ e.trade \in Trades
        BY <2>1, <3>1, StreamNames
      <4> QED  BY <1>3, <1>12, <4>1, OtherCommand
    <3> QED  BY <3>1, <3>2 DEF CommandInv
  <2>2. CASE Len(q) = 1 /\ pipe'[i] = d
    BY <1>6, <1>16, <2>2 DEF CommandInv
  <2> QED  BY <1>8, <2>1, <2>2
<1>18. PipeInv'
  BY <1>8, <1>17 DEF PipeInv
<1>19. ASSUME NEW t \in Trades PROVE LogInvOf(t)'
  <2>1. CASE t # c.trade
    BY <1>3, <1>12, <2>1, OtherTrade DEF LogInv
  <2>2. CASE t = c.trade
    <3>1. logged'[t] = "running" \/ (logged'[t] = "done" /\ c.to = "global")
      BY <1>3, <1>5, <1>7, <1>11, <2>2 DEF TypeOK
    <3>2. tradedAt[t] # 0
      BY <1>11, <2>2 DEF LogInv, LogInvOf
    <3>3. g <= 1 + faults' /\ h <= faults' + IF t \in conflicted' THEN 2 ELSE 1
      BY <1>3, <1>11, <1>15, <2>2
    <3> QED  BY <1>3, <1>14, <1>15, <2>2, <3>1, <3>2, <3>3 DEF LogInvOf
  <2> QED  BY <2>1, <2>2
<1>20. LogInv'
  BY <1>19 DEF LogInv
<1>21. ScriptInv'
  BY <1>3, ScriptAfterXadd
<1> QED  BY <1>10, <1>13, <1>18, <1>20, <1>21

LEMMA XaddConflictInv == ASSUME IInv, XaddConflict PROVE IInv'
<1> USE DEF IInv
<1>1. PICK c \in Command : c = Head(pipe)
  BY NextCommand DEF XaddConflict
<1>2. PICK d \in Command : d = [trade |-> c.trade, to |-> "market", auto |-> TRUE]
  BY Replies
<1>3. PICK q : q = <<d>>
  OBVIOUS
<1>4. /\ Refused(c) /\ pipe # <<>> /\ pipe' = Tail(pipe) \o q
      /\ conflicted' = conflicted \cup {c.trade}
      /\ now' = now /\ tradedAt' = tradedAt /\ logged' = logged /\ stream' = stream
      /\ table' = table /\ faults' = faults
      /\ script' = script /\ cursor' = cursor /\ batch' = batch /\ more' = more /\ target' = target
  BY <1>1, <1>2, <1>3, Replies DEF XaddConflict, scriptVars
<1>5. q \in Seq(Command) /\ Len(q) = 1 /\ q[1] = d /\ d.trade = c.trade
  BY <1>2, <1>3
<1>6. CommandInv(c) /\ c.trade \in Trades /\ ~ c.auto
  BY <1>1, <1>4, NextCommand, StreamNames DEF PipeInv, Refused
<1>7. /\ pipe' \in Seq(Command)
      /\ \A i, j \in 1..Len(pipe') : pipe'[i].trade = pipe'[j].trade => i = j
      /\ \A i \in 1..Len(pipe') :
            \/ /\ CommandInv(pipe'[i]) /\ pipe'[i] \in Command
               /\ pipe'[i].trade # c.trade
            \/ Len(q) = 1 /\ pipe'[i] = q[1]
  <2>1. Len(q) <= 1 /\ q[1].trade = Head(pipe).trade
    BY <1>1, <1>5
  <2> QED  BY <1>1, <1>4, <1>5, <2>1, PopDistinct
<1>8. TypeOK'
  BY <1>4, <1>6, <1>7 DEF TypeOK
<1>9. StreamInv'
  BY <1>4, StreamKept
<1>10. PICK m, g, h : /\ m = getMarketStream(c.trade)
                      /\ g = Copies("global", c.trade) /\ h = Copies(m, c.trade)
  OBVIOUS
<1>11. g \in Nat /\ h \in Nat /\ faults \in Nat
  BY <1>6, <1>10, CopiesType, MarketStreams, FaultsGrow
<1>12. /\ logged[c.trade] = "running" /\ c.trade \notin conflicted
       /\ g <= faults /\ h <= faults + (IF c.to = "global" THEN 1 ELSE 0)
  BY <1>6, <1>10, <1>11 DEF CommandInv
<1>13. Copies("global", c.trade)' = g /\ Copies(m, c.trade)' = h
  BY <1>4, <1>10 DEF Copies
<1>14. CommandInv(d)'
  <2>1. d.trade = c.trade /\ d.to = "market" /\ d.auto = TRUE
    BY <1>2
  <2>2. g <= faults' /\ h <= faults' + 1
    BY <1>4, <1>11, <1>12
  <2>3. c.trade \in conflicted' /\ logged'[c.trade] = "running"
    BY <1>4, <1>12
  <2>4. faults' + (IF d.auto THEN 1 ELSE 0) + (IF d.to = "global" THEN 1 ELSE 0) = faults' + 1
    BY <1>4, <1>11, <2>1
  <2> QED  BY <1>10, <1>13, <2>1, <2>2, <2>3, <2>4 DEF CommandInv
<1>15. ASSUME NEW i \in 1..Len(pipe') PROVE CommandInv(pipe[i])'
  <2>1. CASE CommandInv(pipe'[i]) /\ pipe'[i] \in Command /\ pipe'[i].trade # c.trade
    <3>1. PICK e \in Command : e = pipe'[i]
      BY <2>1
    <3>2. CommandInv(e)'
      <4>1. CommandInv(e) /\ e.trade # c.trade /\ (e.trade \in conflicted' <=> e.trade \in conflicted)
        BY <1>4, <2>1, <3>1
      <4> QED  BY <1>4, <4>1, CommandKept
    <3> QED  BY <3>1, <3>2 DEF CommandInv
  <2>2. CASE pipe'[i] = q[1]
    BY <1>5, <1>14, <2>2 DEF CommandInv
  <2> QED  BY <1>7, <2>1, <2>2
<1>16. PipeInv'
  BY <1>7, <1>15 DEF PipeInv
<1>17. ASSUME NEW t \in Trades PROVE LogInvOf(t)'
  <2>1. CASE t # c.trade
    <3>1. t \in conflicted' <=> t \in conflicted
      BY <1>4, <2>1
    <3> QED  BY <1>4, <3>1, TradeKept DEF LogInv
  <2>2. CASE t = c.trade
    <3>1. logged'[t] = "running" /\ tradedAt'[t] # 0 /\ t \in conflicted'
      BY <1>4, <1>12, <2>2 DEF LogInv, LogInvOf
    <3>2. g <= 1 + faults' /\ h <= faults' + 2
      BY <1>4, <1>11, <1>12
    <3> QED  BY <1>10, <1>13, <2>2, <3>1, <3>2 DEF LogInvOf
  <2> QED  BY <2>1, <2>2
<1>18. LogInv'
  BY <1>17 DEF LogInv
<1>19. ScriptInv'
  BY <1>4, ScriptKept
<1> QED  BY <1>8, <1>9, <1>16, <1>18, <1>19

LEMMA XaddFailsInv == ASSUME IInv, XaddFails PROVE IInv'
<1> USE DEF IInv
<1>1. PICK c \in Command : c = Head(pipe)
  BY NextCommand DEF XaddFails
<1>2. PICK q : q = <<>>
  OBVIOUS
<1>3. /\ stream' = stream \/ (~ Refused(c) /\ xadd(c))
      /\ pipe # <<>> /\ pipe' = Tail(pipe) /\ logged' = [logged EXCEPT ![c.trade] = "failed"]
      /\ now' = now /\ tradedAt' = tradedAt /\ conflicted' = conflicted /\ table' = table /\ Fault
      /\ script' = script /\ cursor' = cursor /\ batch' = batch /\ more' = more /\ target' = target
  BY <1>1 DEF XaddFails, scriptVars
<1>4. q \in Seq(Command) /\ Len(q) = 0 /\ Tail(pipe) \in Seq(Command) /\ Tail(pipe) \o q = Tail(pipe)
  <2>1. Tail(pipe) \in Seq(Command)
    BY <1>3, NextCommand
  <2> QED  BY <1>2, <2>1
<1>5. CommandInv(c) /\ c.trade \in Trades
  BY <1>1, <1>3, NextCommand, StreamNames DEF PipeInv
<1>6. /\ pipe' \in Seq(Command)
      /\ \A i, j \in 1..Len(pipe') : pipe'[i].trade = pipe'[j].trade => i = j
      /\ \A i \in 1..Len(pipe') :
            /\ CommandInv(pipe'[i]) /\ pipe'[i] \in Command
            /\ pipe'[i].trade # c.trade
  <2>1. Len(q) <= 1 /\ Len(q) # 1
    BY <1>4
  <2>2. pipe' = Tail(pipe) \o q
    BY <1>3, <1>4, Zenon
  <2> QED  BY <1>1, <1>3, <1>4, <2>1, <2>2, PopDistinct
<1>7. stream' \in [Streams -> Seq(Entry)]
  BY <1>3, <1>5, MarketStreams, XaddEntries DEF TypeOK
<1>8. faults \in Nat /\ faults' \in 0..MaxFaults /\ faults' = faults + 1
  BY <1>3, FaultsGrow
<1>9. TypeOK'
  BY <1>3, <1>5, <1>6, <1>7, <1>8 DEF TypeOK
<1>10. logged[c.trade] = "running" /\ (c.auto <=> c.trade \in conflicted)
  BY <1>5 DEF CommandInv
<1>11. /\ \A t \in Trades : /\ logged[t] # "no" => logged'[t] # "no"
                            /\ t # c.trade => logged'[t] = logged[t]
       /\ logged'[c.trade] = "failed"
  BY <1>3, <1>5 DEF TypeOK
<1>12. StreamInv'
  BY <1>3, <1>5, <1>11, StreamAfterXadd, StreamKept
<1>13. PICK m, g, h : /\ m = getMarketStream(c.trade)
                      /\ g = Copies("global", c.trade)' /\ h = Copies(m, c.trade)'
  OBVIOUS
<1>14. g <= faults + 1 /\ h <= faults + 2 /\ (~ c.auto => h <= faults + 1) /\ g \in Nat /\ h \in Nat
  <2>1. CASE stream' = stream
    <3>1. g = Copies("global", c.trade) /\ h = Copies(m, c.trade)
      BY <1>13, <2>1 DEF Copies
    <3>2. g \in Nat /\ h \in Nat
      BY <1>5, <1>13, <3>1, CopiesType, MarketStreams
    <3>3. g <= faults /\ h <= faults + (IF c.auto THEN 1 ELSE 0) + (IF c.to = "global" THEN 1 ELSE 0)
      BY <1>5, <1>13, <3>1 DEF CommandInv
    <3> QED  BY <1>8, <3>2, <3>3
  <2>2. CASE ~ Refused(c) /\ xadd(c)
    <3>1. /\ g <= faults + (IF c.to = "global" THEN 1 ELSE 0) /\ g \in Nat
          /\ h <= faults + (IF c.auto THEN 1 ELSE 0) + 1 /\ h \in Nat
      BY <1>5, <1>13, <2>2, XaddedTrade
    <3> QED  BY <1>8, <3>1
  <2> QED  BY <1>3, <2>1, <2>2
<1>15. ASSUME NEW i \in 1..Len(pipe') PROVE CommandInv(pipe[i])'
  <2>1. PICK e \in Command : e = pipe'[i]
    BY <1>6
  <2>2. CommandInv(e) /\ e.trade # c.trade /\ e.trade \in Trades
    BY <1>6, <2>1, StreamNames
  <2>3. logged'[e.trade] = logged[e.trade]
    BY <1>11, <2>2
  <2>4. CASE stream' = stream
    <3>1. CommandInv(e)'
      BY <1>3, <1>8, <2>2, <2>3, <2>4, CommandKept
    <3> QED  BY <2>1, <3>1 DEF CommandInv
  <2>5. CASE ~ Refused(c) /\ xadd(c)
    <3>1. CommandInv(e)'
      BY <1>3, <1>8, <2>2, <2>3, <2>5, OtherCommand
    <3> QED  BY <2>1, <3>1 DEF CommandInv
  <2> QED  BY <1>3, <2>4, <2>5
<1>16. PipeInv'
  BY <1>6, <1>15 DEF PipeInv
<1>17. ASSUME NEW t \in Trades PROVE LogInvOf(t)'
  <2>1. CASE t # c.trade
    BY <1>3, <1>8, <1>11, <2>1, OtherTrade, TradeKept DEF LogInv
  <2>2. CASE t = c.trade
    <3>1. logged'[t] = "failed" /\ tradedAt'[t] # 0
      BY <1>3, <1>10, <1>11, <2>2 DEF LogInv, LogInvOf
    <3>2. g <= 1 + faults' /\ h <= faults' + IF t \in conflicted' THEN 2 ELSE 1
      BY <1>3, <1>8, <1>10, <1>14, <2>2
    <3> QED  BY <1>13, <2>2, <3>1, <3>2 DEF LogInvOf
  <2> QED  BY <2>1, <2>2
<1>18. LogInv'
  BY <1>17 DEF LogInv
<1>19. ScriptInv'
  BY <1>3, ScriptAfterXadd, ScriptKept
<1> QED  BY <1>9, <1>12, <1>16, <1>18, <1>19

LEMMA XaddResentInv == ASSUME IInv, XaddResent PROVE IInv'
<1> USE DEF IInv
<1>1. PICK c \in Command : c = Head(pipe)
  BY NextCommand DEF XaddResent
<1>2. /\ ~ Refused(c) /\ xadd(c) /\ pipe # <<>> /\ pipe' = pipe /\ logged' = logged
      /\ now' = now /\ tradedAt' = tradedAt /\ conflicted' = conflicted /\ table' = table /\ Fault
      /\ script' = script /\ cursor' = cursor /\ batch' = batch /\ more' = more /\ target' = target
  BY <1>1 DEF XaddResent, scriptVars
<1>3. CommandInv(c) /\ c.trade \in Trades /\ c = pipe[1] /\ 1 \in 1..Len(pipe)
  BY <1>1, <1>2, NextCommand, StreamNames DEF PipeInv
<1>4. stream' \in [Streams -> Seq(Entry)]
  BY <1>2, <1>3, MarketStreams, XaddEntries
<1>5. faults \in Nat /\ faults' \in 0..MaxFaults /\ faults' = faults + 1
  BY <1>2, FaultsGrow
<1>6. TypeOK'
  BY <1>2, <1>4, <1>5 DEF TypeOK
<1>7. StreamInv'
  BY <1>2, <1>3, StreamAfterXadd
<1>8. logged[c.trade] = "running" /\ (c.auto <=> c.trade \in conflicted) /\ (c.to = "market" \/ c.to = "global")
  BY <1>3, Replies DEF CommandInv
<1>9. PICK m, g, h : /\ m = getMarketStream(c.trade)
                     /\ g = Copies("global", c.trade)' /\ h = Copies(m, c.trade)'
  OBVIOUS
<1>10. /\ g <= faults + (IF c.to = "global" THEN 1 ELSE 0) /\ g \in Nat
       /\ h <= faults + (IF c.auto THEN 1 ELSE 0) + 1 /\ h \in Nat
       /\ Stored(m, c.trade)'
  BY <1>2, <1>3, <1>9, XaddedTrade
<1>11. CommandInv(c)'
  <2>1. g <= faults'
    BY <1>5, <1>10
  <2>2. h <= faults' + (IF c.auto THEN 1 ELSE 0) + (IF c.to = "global" THEN 1 ELSE 0)
    BY <1>5, <1>10
  <2> QED  BY <1>2, <1>8, <1>9, <1>10, <2>1, <2>2 DEF CommandInv
<1>12. ASSUME NEW i \in 1..Len(pipe') PROVE CommandInv(pipe[i])'
  <2>1. PICK e \in Command : e = pipe[i]
    BY <1>2 DEF TypeOK
  <2>2. CommandInv(e) /\ e.trade \in Trades
    BY <1>2, <2>1, StreamNames DEF PipeInv
  <2>3. CASE e.trade # c.trade
    <3>1. CommandInv(e)'
      BY <1>2, <1>5, <2>2, <2>3, OtherCommand
    <3> QED  BY <1>2, <2>1, <3>1 DEF CommandInv
  <2>4. CASE e.trade = c.trade
    <3>1. i = 1
      BY <1>2, <1>3, <2>1, <2>4 DEF PipeInv
    <3> QED  BY <1>2, <1>3, <1>11, <3>1 DEF CommandInv
  <2> QED  BY <2>3, <2>4
<1>13. PipeInv'
  BY <1>2, <1>12 DEF PipeInv
<1>14. ASSUME NEW t \in Trades PROVE LogInvOf(t)'
  <2>1. CASE t # c.trade
    BY <1>2, <1>5, <2>1, OtherTrade DEF LogInv
  <2>2. CASE t = c.trade
    <3>1. logged'[t] = "running" /\ tradedAt'[t] # 0
      BY <1>2, <1>8, <2>2 DEF LogInv, LogInvOf
    <3>2. g <= 1 + faults' /\ h <= faults' + IF t \in conflicted' THEN 2 ELSE 1
      BY <1>2, <1>5, <1>8, <1>10, <2>2
    <3> QED  BY <1>9, <2>2, <3>1, <3>2 DEF LogInvOf
  <2> QED  BY <2>1, <2>2
<1>15. LogInv'
  BY <1>14 DEF LogInv
<1>16. ScriptInv'
  BY <1>2, ScriptAfterXadd
<1> QED  BY <1>6, <1>7, <1>13, <1>15, <1>16

LEMMA Concatenation ==
    ASSUME NEW S, NEW a \in Seq(S), NEW b \in Seq(S), NEW r, r = a \o b
    PROVE  /\ r \in Seq(S) /\ Len(r) = Len(a) + Len(b)
           /\ \A i \in 1..(Len(a) + Len(b)) : r[i] = IF i <= Len(a) THEN a[i] ELSE b[i - Len(a)]
OBVIOUS

LEMMA MatchInv == ASSUME IInv, Match PROVE IInv'
<1> USE DEF IInv
<1>1. PICK s \in {<<t>> : t \in Trades} \cup (Trades \X Trades) :
          /\ \A t \in RangeOf(s) : tradedAt[t] = 0 /\ MarketOf[t] = MarketOf[s[1]]
          /\ \A i, j \in DOMAIN s : i < j => s[i] < s[j]
          /\ tradedAt' = [t \in Trades |-> IF t \in RangeOf(s) THEN now ELSE tradedAt[t]]
          /\ pipe' = pipe \o [i \in DOMAIN s |-> FirstCommand(s[i])]
          /\ logged' = [t \in Trades |-> IF t \in RangeOf(s) THEN "running" ELSE logged[t]]
  BY DEF Match
<1>2. /\ now' = now /\ stream' = stream /\ conflicted' = conflicted /\ table' = table /\ faults' = faults
      /\ script' = script /\ cursor' = cursor /\ batch' = batch /\ more' = more /\ target' = target
  BY DEF Match, scriptVars
<1>3. s \in Seq(Trades) /\ \A i, j \in DOMAIN s : s[i] = s[j] => i = j
  <2>1. s \in Seq(Trades)
    <3>1. CASE s \in {<<t>> : t \in Trades}
      BY <3>1
    <3>2. CASE s \in (Trades \X Trades)
      <4>1. PICK t \in Trades, u \in Trades : s = <<t, u>>
        BY <3>2
      <4> QED  BY <4>1
    <3> QED  BY <1>1, <3>1, <3>2
  <2>2. DOMAIN s = 1..Len(s) /\ \A i \in DOMAIN s : s[i] \in Int
    BY <2>1, ConstantsAssumption
  <2>3. \A i, j \in DOMAIN s : i < j => s[i] < s[j]
    BY <1>1
  <2>4. ASSUME NEW i \in DOMAIN s, NEW j \in DOMAIN s, s[i] = s[j] PROVE i = j
    <3>1. i \in Int /\ j \in Int /\ s[i] \in Int
      BY <2>2
    <3>2. ~ (i < j) /\ ~ (j < i)
      BY <2>3, <2>4, <3>1
    <3> QED  BY <3>1, <3>2
  <2> QED  BY <2>1, <2>4
<1>4. PICK q : q = [i \in DOMAIN s |-> FirstCommand(s[i])]
  OBVIOUS
<1>5. /\ q \in Seq(Command) /\ Len(q) = Len(s) /\ Len(s) \in Nat /\ DOMAIN s = 1..Len(s)
      /\ \A i \in 1..Len(s) : q[i] = FirstCommand(s[i]) /\ s[i] \in Trades /\ s[i] \in RangeOf(s)
  <2>1. DOMAIN s = 1..Len(s) /\ Len(s) \in Nat /\ \A i \in 1..Len(s) : s[i] \in Trades
    BY <1>3
  <2>2. \A i \in 1..Len(s) : FirstCommand(s[i]) \in Command
    BY <2>1 DEF FirstCommand, Command
  <2>3. q \in [1..Len(s) -> Command] /\ \A i \in 1..Len(s) : q[i] = FirstCommand(s[i])
    BY <1>4, <2>1, <2>2
  <2>4. q \in Seq(Command) /\ Len(q) = Len(s)
    BY <2>1, <2>3
  <2> QED  BY <2>1, <2>3, <2>4 DEF RangeOf
<1>6. pipe \in Seq(Command) /\ Len(pipe) \in Nat /\ pipe' = pipe \o q
  BY <1>1, <1>4 DEF TypeOK
<1>7. /\ pipe' \in Seq(Command) /\ Len(pipe') = Len(pipe) + Len(s)
      /\ \A i \in 1..(Len(pipe) + Len(s)) : pipe'[i] = IF i <= Len(pipe) THEN pipe[i] ELSE q[i - Len(pipe)]
  <2>1. q \in Seq(Command) /\ Len(q) = Len(s) /\ Len(s) \in Nat
    BY <1>5
  <2>2. /\ pipe' \in Seq(Command) /\ Len(pipe') = Len(pipe) + Len(q)
        /\ \A i \in 1..(Len(pipe) + Len(q)) : pipe'[i] = IF i <= Len(pipe) THEN pipe[i] ELSE q[i - Len(pipe)]
    <3>1. PICK p, r : p = pipe /\ r = pipe'
      OBVIOUS
    <3>2. p \in Seq(Command) /\ q \in Seq(Command) /\ r = p \o q
      BY <1>6, <2>1, <3>1
    <3>3. /\ r \in Seq(Command) /\ Len(r) = Len(p) + Len(q)
          /\ \A i \in 1..(Len(p) + Len(q)) : r[i] = IF i <= Len(p) THEN p[i] ELSE q[i - Len(p)]
      BY <3>2, Concatenation
    <3> QED  BY <3>1, <3>3
  <2> QED  BY <2>1, <2>2
<1>8. \A t \in Trades : t \in RangeOf(s) => tradedAt[t] = 0 /\ logged[t] = "no"
  BY <1>1 DEF LogInv, LogInvOf
<1>9. now \in 1..MaxTime /\ now # 0 /\ now \in 0..MaxTime
  BY DEF TypeOK
<1>10. TypeOK'
  <2>1. tradedAt' \in [Trades -> 0..MaxTime]
    BY <1>1, <1>9 DEF TypeOK
  <2>2. logged' \in [Trades -> {"no", "running", "done", "failed"}]
    BY <1>1 DEF TypeOK
  <2> QED  BY <1>2, <1>7, <2>1, <2>2 DEF TypeOK
<1>11. \A t \in Trades : t \notin RangeOf(s) => logged'[t] = logged[t] /\ tradedAt'[t] = tradedAt[t]
  BY <1>1
<1>12. \A t \in Trades : t \in RangeOf(s) => logged'[t] = "running" /\ tradedAt'[t] = now
  BY <1>1
<1>13. StreamInv'
  <2>1. \A t \in Trades : logged[t] # "no" => logged'[t] # "no" /\ tradedAt'[t] = tradedAt[t]
    BY <1>8, <1>11
  <2> QED  BY <1>2, <2>1, StreamKept
<1>14. faults \in Nat
  BY FaultsGrow
<1>15. ASSUME NEW t \in Trades, t \in RangeOf(s)
       PROVE  /\ Copies("global", t)' = 0 /\ Copies(getMarketStream(t), t)' = 0
              /\ t \notin conflicted'
  <2>1. logged[t] = "no"
    BY <1>8, <1>15
  <2>2. Copies("global", t) = 0 /\ Copies(getMarketStream(t), t) = 0
    BY <2>1, NoCopies, MarketStreams
  <2>3. t \notin conflicted
    BY <2>1 DEF LogInv, LogInvOf
  <2> QED  BY <1>2, <2>2, <2>3 DEF Copies
<1>16. ASSUME NEW t \in Trades PROVE LogInvOf(t)'
  <2>1. CASE t \notin RangeOf(s)
    BY <1>2, <1>11, <2>1, TradeKept DEF LogInv
  <2>2. CASE t \in RangeOf(s)
    <3>1. logged'[t] = "running" /\ tradedAt'[t] # 0
      BY <1>9, <1>12, <2>2
    <3>2. 0 <= 1 + faults' /\ 0 <= faults' + IF t \in conflicted' THEN 2 ELSE 1
      BY <1>2, <1>14
    <3> QED  BY <1>15, <2>2, <3>1, <3>2 DEF LogInvOf
  <2> QED  BY <2>1, <2>2
<1>17. LogInv'
  BY <1>16 DEF LogInv
<1>18. ASSUME NEW i \in 1..Len(pipe'), i <= Len(pipe)
       PROVE  /\ i \in 1..Len(pipe) /\ pipe'[i] = pipe[i]
              /\ pipe[i].trade \in Trades /\ pipe[i].trade \notin RangeOf(s) /\ CommandInv(pipe[i])'
  <2>1. i \in 1..Len(pipe) /\ pipe'[i] = pipe[i]
    BY <1>5, <1>6, <1>7, <1>18
  <2>2. PICK e \in Command : e = pipe[i]
    BY <1>6, <2>1
  <2>3. CommandInv(e) /\ e.trade \in Trades
    BY <2>1, <2>2, StreamNames DEF PipeInv
  <2>4. e.trade \notin RangeOf(s)
    BY <1>8, <2>3 DEF CommandInv
  <2>5. CommandInv(e)'
    BY <1>2, <1>11, <2>3, <2>4, CommandKept
  <2> QED  BY <2>1, <2>2, <2>3, <2>4, <2>5 DEF CommandInv
<1>19. ASSUME NEW i \in 1..Len(pipe'), ~ (i <= Len(pipe))
       PROVE  /\ i - Len(pipe) \in 1..Len(s) /\ pipe'[i].trade = s[i - Len(pipe)]
              /\ s[i - Len(pipe)] \in RangeOf(s) /\ CommandInv(pipe[i])'
  <2>1. PICK j : j = i - Len(pipe)
    OBVIOUS
  <2>2. j \in 1..Len(s) /\ i \in 1..(Len(pipe) + Len(s))
    BY <1>5, <1>6, <1>7, <1>19, <2>1
  <2>3. pipe'[i] = FirstCommand(s[j]) /\ s[j] \in Trades /\ s[j] \in RangeOf(s)
    BY <1>5, <1>7, <1>19, <2>1, <2>2
  <2>4. pipe'[i].trade = s[j] /\ pipe'[i].to = "market" /\ pipe'[i].auto = FALSE
    BY <2>3 DEF FirstCommand
  <2>5. PICK e : e = FirstCommand(s[j])
    OBVIOUS
  <2>6. e.trade = s[j] /\ e.to = "market" /\ e.auto = FALSE
    BY <2>5 DEF FirstCommand
  <2>7. 0 <= faults' /\ 0 <= faults' + (IF e.auto THEN 1 ELSE 0) + (IF e.to = "global" THEN 1 ELSE 0)
    BY <1>2, <1>14
  <2>8. CommandInv(e)'
    BY <1>12, <1>15, <2>3, <2>6, <2>7 DEF CommandInv
  <2> QED  BY <2>1, <2>2, <2>3, <2>4, <2>5, <2>8 DEF CommandInv
<1>20. ASSUME NEW i \in 1..Len(pipe'), NEW j \in 1..Len(pipe'), pipe'[i].trade = pipe'[j].trade
       PROVE  i = j
  <2>1. CASE i <= Len(pipe) /\ j <= Len(pipe)
    BY <1>18, <1>20, <2>1 DEF PipeInv
  <2>2. CASE ~ (i <= Len(pipe)) /\ ~ (j <= Len(pipe))
    <3>1. i - Len(pipe) = j - Len(pipe)
      BY <1>3, <1>5, <1>19, <1>20, <2>2
    <3>2. i \in Int /\ j \in Int
      BY <1>7
    <3> QED  BY <1>6, <3>1, <3>2
  <2>3. CASE i <= Len(pipe) /\ ~ (j <= Len(pipe))
    BY <1>18, <1>19, <1>20, <2>3
  <2>4. CASE ~ (i <= Len(pipe)) /\ j <= Len(pipe)
    BY <1>18, <1>19, <1>20, <2>4
  <2> QED  BY <2>1, <2>2, <2>3, <2>4
<1>21. PipeInv'
  BY <1>18, <1>19, <1>20 DEF PipeInv
<1>22. ScriptInv'
  BY <1>2, ScriptKept
<1> QED  BY <1>10, <1>13, <1>17, <1>21, <1>22

\* The stream the backfill reads.
LEMMA VisibleStream ==
    ASSUME TypeOK, StreamInv
    PROVE  /\ Visible \in Seq(Entry) /\ DOMAIN Visible = 1..Len(Visible) /\ Len(Visible) \in Nat
           /\ \A i \in 1..Len(Visible) : Visible[i].trade \in Trades /\ Visible[i].id \in Nat \X Nat
           /\ \A i, j \in 1..Len(Visible) : i < j => IdLess(Visible[i].id, Visible[j].id)
<1>1. "global" \in Streams
  BY DEF Streams
<1>2. Visible \in Seq(Entry)
  BY <1>1 DEF Visible, TypeOK
<1>3. DOMAIN Visible = 1..Len(Visible) /\ Len(Visible) \in Nat
  BY <1>2
<1>4. ASSUME NEW i \in 1..Len(Visible)
      PROVE  Visible[i].trade \in Trades /\ Visible[i].id \in Nat \X Nat
  <2>1. Visible[i] \in Entry
    BY <1>2
  <2> QED  BY <2>1 DEF Entry
<1>5. \A i, j \in 1..Len(Visible) : i < j => IdLess(Visible[i].id, Visible[j].id)
  <2>1. CASE EmptyPrefix
    BY <1>1, <2>1 DEF Visible, StreamInv
  <2>2. CASE ~ EmptyPrefix
    BY <2>2 DEF Visible
  <2> QED  BY <2>1, <2>2
<1> QED  BY <1>2, <1>3, <1>4, <1>5

LEMMA BackfillStartInv == ASSUME IInv, BackfillStart PROVE IInv'
<1> USE DEF IInv
<1>1. /\ script \in {"idle", "done"} /\ script' = "read" /\ cursor' = FirstId
      /\ target' = {e.trade : e \in RangeOf(Visible)} /\ batch' = batch /\ more' = more /\ now' = now
      /\ tradedAt' = tradedAt /\ table' = table /\ faults' = faults
      /\ pipe' = pipe /\ logged' = logged /\ stream' = stream /\ conflicted' = conflicted
  BY DEF BackfillStart, redisVars
<1>2. ASSUME NEW t \in target'
      PROVE  \E j \in 1..Len(Visible) : Visible[j].trade = t /\ ~ IdLess(Visible[j].id, FirstId)
  <2>1. PICK j \in 1..Len(Visible) : Visible[j].trade = t
    BY <1>1, <1>2, VisibleStream DEF RangeOf
  <2>2. ~ IdLess(Visible[j].id, FirstId)
    BY VisibleStream, IdOrder
  <2> QED  BY <2>1, <2>2
<1>3. target' \subseteq Trades
  BY <1>2, VisibleStream
<1>4. FirstId \in Nat \X Nat
  BY DEF FirstId
<1>5. TypeOK'
  BY <1>1, <1>3, <1>4 DEF TypeOK
<1>6. StreamInv' /\ PipeInv' /\ LogInv'
  BY <1>1, ApiKept
<1>7. batch = <<>>
  BY <1>1 DEF ScriptInv
<1>8. Visible' = Visible
  BY <1>1 DEF Visible
<1>9. ScriptInv'
  BY <1>1, <1>2, <1>7, <1>8 DEF ScriptInv
<1> QED  BY <1>5, <1>6, <1>9

\* A batch holds the entries from the cursor on, to its end.
LEMMA BatchShape ==
    ASSUME TypeOK, StreamInv, NEW k \in 0..Len(Visible), NEW r, r = xrange(k)
    PROVE  /\ r \in Seq(Entry) /\ Len(r) \in Nat /\ Len(r) <= BatchSize /\ k + Len(r) <= Len(Visible)
           /\ Len(r) < BatchSize => k + Len(r) = Len(Visible)
           /\ \A i \in 1..Len(r) : r[i] = Visible[k + i]
<1>1. Visible \in Seq(Entry) /\ Len(Visible) \in Nat /\ BatchSize \in Nat
  BY VisibleStream, ConstantsAssumption
<1>2. PICK V, n, hi : /\ V = Visible /\ n = Len(V)
                      /\ hi = IF k + BatchSize < n THEN k + BatchSize ELSE n
  OBVIOUS
<1>3. /\ V \in Seq(Entry) /\ n \in Nat /\ k \in Nat /\ hi \in Nat /\ k <= hi /\ hi <= n
      /\ hi <= k + BatchSize /\ (hi < k + BatchSize => hi = n)
  BY <1>1, <1>2
<1>4. r = SubSeq(V, k + 1, hi)
  BY <1>2 DEF xrange
<1>5. r \in Seq(Entry) /\ Len(r) = hi - k /\ \A i \in 1..(hi - k) : r[i] = V[k + i]
  BY <1>2, <1>3, <1>4
<1> QED  BY <1>1, <1>2, <1>3, <1>5

LEMMA BackfillReadInv == ASSUME IInv, BackfillRead PROVE IInv'
<1> USE DEF IInv
<1>1. PICK k \in 0..Len(Visible) :
          /\ BelowCursor(k)
          /\ batch' = xrange(k)
          /\ IF xrange(k) = <<>>
             THEN script' = "done" /\ cursor' = FirstId /\ more' = FALSE
             ELSE script' = "upsert" /\ cursor' = cursor /\ more' = (Len(xrange(k)) = BatchSize)
  BY DEF BackfillRead
<1>2. /\ script = "read" /\ target' = target /\ now' = now
      /\ tradedAt' = tradedAt /\ table' = table /\ faults' = faults
      /\ pipe' = pipe /\ logged' = logged /\ stream' = stream /\ conflicted' = conflicted
  BY DEF BackfillRead, redisVars
<1>3. PICK r : r = xrange(k)
  OBVIOUS
<1>4. /\ r \in Seq(Entry) /\ Len(r) \in Nat /\ Len(r) <= BatchSize /\ k + Len(r) <= Len(Visible)
      /\ Len(r) < BatchSize => k + Len(r) = Len(Visible)
      /\ \A i \in 1..Len(r) : r[i] = Visible[k + i]
  BY <1>3, BatchShape
<1>5. FirstId \in Nat \X Nat
  BY DEF FirstId
<1>6. TypeOK'
  BY <1>1, <1>2, <1>3, <1>4, <1>5 DEF TypeOK
<1>7. StreamInv' /\ PipeInv' /\ LogInv'
  BY <1>2, ApiKept
<1>8. Visible' = Visible
  BY <1>2 DEF Visible
<1>9. batch = <<>>
  BY <1>2 DEF ScriptInv
<1>10. BatchSize \in Nat /\ BatchSize >= 1 /\ k \in Nat /\ Len(Visible) \in Nat
  BY ConstantsAssumption, VisibleStream
<1>11. ASSUME EmptyPrefix, Len(stream["global"]) < Cap("global"), NEW t \in target \ table
       PROVE  \/ \E i \in 1..Len(r) : r[i].trade = t
              \/ /\ r # <<>> /\ Len(r) = BatchSize
                 /\ \E j \in 1..Len(Visible) :
                       Visible[j].trade = t /\ IdLess(r[Len(r)].id, Visible[j].id)
  <2>1. PICK j \in 1..Len(Visible) : Visible[j].trade = t /\ ~ IdLess(Visible[j].id, cursor)
    BY <1>2, <1>9, <1>11 DEF ScriptInv
  <2>2. j > k
    BY <1>1, <1>10, <2>1, VisibleStream DEF BelowCursor
  <2>3. CASE j <= k + Len(r)
    <3>1. j - k \in 1..Len(r) /\ k + (j - k) = j
      BY <1>4, <1>10, <2>2, <2>3
    <3>2. r[j - k] = Visible[j]
      BY <1>4, <3>1
    <3> QED  BY <2>1, <3>1, <3>2
  <2>4. CASE ~ (j <= k + Len(r))
    <3>1. Len(r) = BatchSize /\ j \in Int
      BY <1>4, <1>10, <2>4
    <3>2. Len(r) \in 1..Len(r) /\ k + Len(r) \in 1..Len(Visible) /\ k + Len(r) < j
      BY <1>4, <1>10, <2>4, <3>1
    <3>3. r[Len(r)] = Visible[k + Len(r)]
      BY <1>4, <3>2
    <3>4. IdLess(Visible[k + Len(r)].id, Visible[j].id)
      BY <3>2, VisibleStream
    <3>5. r # <<>>
      BY <1>10, <3>1
    <3> QED  BY <2>1, <3>1, <3>3, <3>4, <3>5
  <2> QED  BY <2>3, <2>4
<1>12. r = <<>> => script' = "done" /\ batch' = r
  BY <1>1, <1>3
<1>13. r # <<>> => script' = "upsert" /\ batch' = r /\ more' = (Len(r) = BatchSize)
  BY <1>1, <1>3
<1>14. ScriptInv'
  <2>1. script' = "upsert" <=> batch' # <<>>
    BY <1>12, <1>13
  <2>2. ASSUME EmptyPrefix, Len(stream'["global"]) < Cap("global"), NEW t \in target' \ table'
        PROVE  \/ \E i \in 1..Len(batch') : batch'[i].trade = t
               \/ /\ batch' # <<>> /\ more'
                  /\ \E j \in 1..Len(Visible') :
                        Visible'[j].trade = t /\ IdLess(batch'[Len(batch')].id, Visible'[j].id)
    <3>1. /\ batch' = r
          /\ \/ \E i \in 1..Len(r) : r[i].trade = t
             \/ /\ r # <<>> /\ Len(r) = BatchSize
                /\ \E j \in 1..Len(Visible) :
                      Visible[j].trade = t /\ IdLess(r[Len(r)].id, Visible[j].id)
      BY <1>2, <1>11, <1>12, <1>13, <2>2
    <3> QED  BY <1>8, <1>13, <3>1
  <2>3. Cap("global")' = Cap("global")
    BY DEF Cap
  <2> QED  BY <2>1, <2>2, <2>3 DEF ScriptInv
<1> QED  BY <1>6, <1>7, <1>14

LEMMA BackfillUpsertInv == ASSUME IInv, BackfillUpsert PROVE IInv'
<1> USE DEF IInv
<1>1. PICK b, h : b = Tail(batch) /\ h = Head(batch)
  OBVIOUS
<1>2. /\ script = "upsert" /\ table' = table \cup {h.trade} /\ batch' = b
      /\ IF b = <<>>
         THEN IF more
              THEN script' = "read" /\ cursor' = Successor(h.id)
              ELSE script' = "done" /\ cursor' = FirstId
         ELSE cursor' = cursor /\ script' = script
      /\ more' = (more /\ b # <<>>)
      /\ target' = target /\ now' = now /\ tradedAt' = tradedAt /\ faults' = faults
      /\ pipe' = pipe /\ logged' = logged /\ stream' = stream /\ conflicted' = conflicted
  BY <1>1 DEF BackfillUpsert, AdvanceCursor, redisVars
<1>3. batch # <<>> /\ batch \in Seq(Entry)
  BY <1>2 DEF ScriptInv, TypeOK
<1>4. /\ h = batch[1] /\ h \in Entry /\ b \in Seq(Entry) /\ Len(batch) \in Nat /\ Len(batch) >= 1
      /\ Len(b) = Len(batch) - 1 /\ \A i \in 1..(Len(batch) - 1) : b[i] = batch[i + 1]
  BY <1>1, <1>3
<1>5. (b = <<>> <=> Len(batch) = 1) /\ h.trade \in Trades /\ h.id \in Nat \X Nat
  <2>1. b = <<>> <=> Len(b) = 0
    BY <1>4
  <2> QED  BY <1>4, <2>1 DEF Entry
<1>6. Successor(h.id) \in Nat \X Nat /\ FirstId \in Nat \X Nat
  BY <1>5, IdOrder DEF FirstId
<1>7. TypeOK'
  <2>1. more' \in BOOLEAN
    BY <1>2
  <2>2. table' \subseteq Trades
    BY <1>2, <1>5 DEF TypeOK
  <2>3. script' \in {"idle", "read", "upsert", "done"} /\ cursor' \in Nat \X Nat
    BY <1>2, <1>6 DEF TypeOK
  <2> QED  BY <1>2, <1>4, <2>1, <2>2, <2>3 DEF TypeOK
<1>8. StreamInv' /\ PipeInv' /\ LogInv'
  BY <1>2, ApiKept
<1>9. Visible' = Visible
  BY <1>2 DEF Visible
<1>10. ASSUME EmptyPrefix, Len(stream["global"]) < Cap("global"), NEW t \in target \ table'
       PROVE  \/ /\ script' = "read"
                 /\ \E j \in 1..Len(Visible) : Visible[j].trade = t /\ ~ IdLess(Visible[j].id, cursor')
              \/ \E i \in 1..Len(b) : b[i].trade = t
              \/ /\ b # <<>> /\ more'
                 /\ \E j \in 1..Len(Visible) : Visible[j].trade = t /\ IdLess(b[Len(b)].id, Visible[j].id)
  <2>1. t \in target \ table /\ t # h.trade
    BY <1>2, <1>10
  <2>2. \/ \E i \in 1..Len(batch) : batch[i].trade = t
        \/ more /\ \E j \in 1..Len(Visible) : Visible[j].trade = t /\ IdLess(batch[Len(batch)].id, Visible[j].id)
    BY <1>2, <1>10, <2>1 DEF ScriptInv
  <2>3. CASE \E i \in 1..Len(batch) : batch[i].trade = t
    <3>1. PICK i \in 1..Len(batch) : batch[i].trade = t
      BY <2>3
    <3>2. i # 1
      BY <1>4, <2>1, <3>1
    <3>3. i - 1 \in 1..Len(b) /\ i - 1 \in 1..(Len(batch) - 1) /\ (i - 1) + 1 = i
      BY <1>4, <3>2
    <3>4. b[i - 1] = batch[i]
      BY <1>4, <3>3
    <3> QED  BY <3>1, <3>3, <3>4
  <2>4. CASE more /\ \E j \in 1..Len(Visible) : Visible[j].trade = t /\ IdLess(batch[Len(batch)].id, Visible[j].id)
    <3>1. PICK j \in 1..Len(Visible) : Visible[j].trade = t /\ IdLess(batch[Len(batch)].id, Visible[j].id)
      BY <2>4
    <3>2. CASE b = <<>>
      <4>1. script' = "read" /\ cursor' = Successor(h.id) /\ batch[Len(batch)] = h
        BY <1>2, <1>4, <1>5, <2>4, <3>2
      <4>2. Visible[j].id \in Nat \X Nat
        BY VisibleStream
      <4>3. ~ IdLess(Visible[j].id, Successor(h.id))
        BY <1>5, <3>1, <4>1, <4>2, IdOrder
      <4> QED  BY <3>1, <4>1, <4>3
    <3>3. CASE b # <<>>
      <4>1. Len(b) \in 1..(Len(batch) - 1) /\ Len(b) + 1 = Len(batch)
        BY <1>4, <1>5, <3>3
      <4>2. b[Len(b)] = batch[Len(batch)]
        BY <1>4, <4>1
      <4>3. more'
        BY <1>2, <2>4, <3>3
      <4> QED  BY <3>1, <3>3, <4>2, <4>3
    <3> QED  BY <3>2, <3>3
  <2> QED  BY <2>2, <2>3, <2>4
<1>11. ScriptInv'
  <2>1. script' = "upsert" <=> batch' # <<>>
    BY <1>2
  <2>2. Cap("global")' = Cap("global")
    BY DEF Cap
  <2>3. ASSUME EmptyPrefix, Len(stream'["global"]) < Cap("global"), NEW t \in target' \ table'
        PROVE  \/ /\ script' = "read"
                  /\ \E j \in 1..Len(Visible') : Visible'[j].trade = t /\ ~ IdLess(Visible'[j].id, cursor')
               \/ \E i \in 1..Len(batch') : batch'[i].trade = t
               \/ /\ batch' # <<>> /\ more'
                  /\ \E j \in 1..Len(Visible') :
                        Visible'[j].trade = t /\ IdLess(batch'[Len(batch')].id, Visible'[j].id)
    <3>1. t \in target \ table' /\ batch' = b /\ Len(stream["global"]) < Cap("global")
      BY <1>2, <2>3
    <3> QED  BY <1>9, <1>10, <2>3, <3>1
  <2> QED  BY <2>1, <2>2, <2>3 DEF ScriptInv
<1> QED  BY <1>7, <1>8, <1>11

LEMMA BackfillCrashInv == ASSUME IInv, BackfillCrash PROVE IInv'
<1> USE DEF IInv
<1>1. /\ Fault /\ script' = "idle" /\ batch' = <<>> /\ cursor' = FirstId /\ more' = FALSE /\ target' = {}
      /\ table' = table \/ (script = "upsert" /\ table' = table \cup {Head(batch).trade})
      /\ now' = now /\ tradedAt' = tradedAt
      /\ pipe' = pipe /\ logged' = logged /\ stream' = stream /\ conflicted' = conflicted
  BY DEF BackfillCrash, redisVars
<1>2. faults' \in 0..MaxFaults /\ faults' = faults + 1
  BY <1>1, FaultsGrow
<1>3. script = "upsert" => Head(batch).trade \in Trades
  <2>1. script = "upsert" => batch # <<>> /\ batch \in Seq(Entry)
    BY DEF ScriptInv, TypeOK
  <2>2. script = "upsert" => Head(batch) \in Entry
    BY <2>1
  <2> QED  BY <2>2 DEF Entry
<1>4. table' \subseteq Trades /\ FirstId \in Nat \X Nat /\ <<>> \in Seq(Entry)
  BY <1>1, <1>3 DEF TypeOK, FirstId
<1>5. TypeOK'
  BY <1>1, <1>2, <1>4 DEF TypeOK
<1>6. StreamInv' /\ PipeInv' /\ LogInv'
  BY <1>1, <1>2, ApiKept
<1>7. ScriptInv'
  BY <1>1 DEF ScriptInv
<1> QED  BY <1>5, <1>6, <1>7

-----------------------------------------------------------------------------
(* Theorems *)

\* IInv holds in every reachable state: through every order in which Redis
\* executes the commands of concurrent logOrderMatch calls, refused ids, failed
\* and repeated commands, trimming, and crashes and reruns of the backfill.
THEOREM InductiveInvariant == Spec => []IInv
<1>1. ASSUME IInv, [Next]_vars PROVE IInv'
  BY <1>1, TickInv, MatchInv, XaddOkInv, XaddConflictInv, XaddFailsInv, XaddResentInv,
     BackfillStartInv, BackfillReadInv, BackfillUpsertInv, BackfillCrashInv, StutterInv
     DEF Next, ScriptStep
<1> QED  BY <1>1, InitInv, PTL DEF Spec

\* A trade whose logOrderMatch resolved is in both streams, unless a stream at
\* its cap was trimmed (audit.ts:73-131): its command went to the global stream
\* only once the stream of its market had it, on the first attempt and on the
\* fallback.
THEOREM ResolvedIsLogged == Spec => []LoggedInBoth
<1>1. ASSUME IInv PROVE LoggedInBoth
  <2> SUFFICES ASSUME NEW t \in Trades, NEW s \in {"global", getMarketStream(t)}, logged[t] = "done"
               PROVE  Copies(s, t) > 0 \/ Len(stream[s]) >= Cap(s)
    BY DEF LoggedInBoth
  <2>1. Stored(s, t)
    BY <1>1 DEF IInv, LogInv, LogInvOf
  <2>2. s \in Streams
    BY MarketStreams
  <2> QED  BY <1>1, <2>1, <2>2, CopiesType DEF IInv, Stored
<1> QED  BY <1>1, InductiveInvariant, PTL

\* Copies of a trade stand for a refused id or for failed and repeated calls,
\* and a trade without a conflict is found at its time (audit.ts:73-131,
\* 277-300): the copies a running call has made are bounded by the place of its
\* command, the fallback starting once per trade.
THEOREM CopiesAreExplained == Spec => []CopiesNeedConflicts
<1>1. ASSUME IInv PROVE CopiesNeedConflicts
  <2> SUFFICES ASSUME NEW t \in Trades
               PROVE  /\ Copies("global", t) <= 1 + faults
                      /\ Copies(getMarketStream(t), t) <= faults + IF t \in conflicted THEN 2 ELSE 1
                      /\ t \notin conflicted /\ Copies(getMarketStream(t), t) > 0 =>
                            t \in getAuditLogRange(getMarketStream(t), tradedAt[t], tradedAt[t])
    BY DEF CopiesNeedConflicts
  <2>1. LogInvOf(t)
    BY <1>1 DEF IInv, LogInv
  <2>2. ASSUME t \notin conflicted, Copies(getMarketStream(t), t) > 0
        PROVE  t \in getAuditLogRange(getMarketStream(t), tradedAt[t], tradedAt[t])
    <3>1. PICK m : m = getMarketStream(t)
      OBVIOUS
    <3>2. m \in Streams
      BY <3>1, MarketStreams
    <3>3. {i \in DOMAIN stream[m] : stream[m][i].trade = t} # {}
      BY <2>2, <3>1, FS_EmptySet DEF Copies
    <3>4. PICK i \in DOMAIN stream[m] : stream[m][i].trade = t
      BY <3>3
    <3>5. stream[m] \in Seq(Entry)
      BY <1>1, <3>2 DEF IInv, TypeOK
    <3>6. i \in 1..Len(stream[m])
      BY <3>4, <3>5
    <3>7. stream[m][i].id = <<tradedAt[t], 0>>
      BY <1>1, <2>2, <3>2, <3>4, <3>6 DEF IInv, StreamInv
    <3>8. tradedAt[t] \in 0..MaxTime /\ MaxTime \in Nat
      BY <1>1, ConstantsAssumption DEF IInv, TypeOK
    <3>9. tradedAt[t] <= stream[m][i].id[1] /\ stream[m][i].id[1] <= tradedAt[t]
      BY <3>7, <3>8
    <3>10. stream[m][i] \in {f \in RangeOf(stream[m]) : tradedAt[t] <= f.id[1] /\ f.id[1] <= tradedAt[t]}
      BY <3>4, <3>9 DEF RangeOf
    <3> QED  BY <3>1, <3>4, <3>10 DEF getAuditLogRange
  <2> QED  BY <2>1, <2>2 DEF LogInvOf
<1> QED  BY <1>1, InductiveInvariant, PTL

\* A backfill that ended has put every trade it started on into the table
\* (backfill-trades.ts:23-65): what it has not written is in its batch or above
\* the cursor, and the stream only grows at its end while it is below its cap.
THEOREM BackfillIsComplete == Spec => []BackfillComplete
<1>1. ASSUME IInv PROVE BackfillComplete
  BY <1>1 DEF IInv, ScriptInv, BackfillComplete
<1> QED  BY <1>1, InductiveInvariant, PTL

=============================================================================
