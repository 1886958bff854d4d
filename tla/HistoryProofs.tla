--------------------------- MODULE HistoryProofs ---------------------------
(***************************************************************************)
(* Proofs about History: paging by a cursor shows every steady order once, *)
(* paging by offset errs at most once for every row inserted under it.     *)
(***************************************************************************)
EXTENDS History, FiniteSetTheorems, TLAPS

-----------------------------------------------------------------------------
(* Ranks in a finite set *)

\* A nonempty set of numbers has a least one.
LEMMA LeastOf ==
    ASSUME NEW T, T \subseteq Nat, T # {}
    PROVE  \E x \in T : \A y \in T : x <= y
<1>1. IsWellFoundedOn(OpToRel(<, Nat), Nat)
  BY NatLessThanWellFounded
<1>2. PICK x \in T : \A y \in T : ~ (<<y, x>> \in OpToRel(<, Nat))
  BY <1>1, WFMin
<1>3. \A y \in T : ~ (y < x)
  BY <1>2 DEF OpToRel
<1> QED  BY <1>3

\* The elements with fewer than n ahead of them are n at least, or all.
LEMMA Ranked ==
    ASSUME NEW M, IsFiniteSet(M), NEW ahead \in [M -> SUBSET M], NEW n \in Nat,
           \A r \in M : r \notin ahead[r],
           \A r \in M : \A q \in ahead[r] : ahead[q] \subseteq ahead[r],
           NEW T, T = {r \in M : Cardinality(ahead[r]) < n}
    PROVE  T = M \/ Cardinality(T) >= n
<1> SUFFICES ASSUME T # M
             PROVE  Cardinality(T) >= n
  OBVIOUS
<1>1. \A r \in M : IsFiniteSet(ahead[r]) /\ Cardinality(ahead[r]) \in Nat
  <2> SUFFICES ASSUME NEW r \in M
               PROVE  IsFiniteSet(ahead[r]) /\ Cardinality(ahead[r]) \in Nat
    OBVIOUS
  <2>1. ahead[r] \in SUBSET M
    OBVIOUS
  <2>2. IsFiniteSet(ahead[r])
    BY <2>1, FS_Subset
  <2> QED  BY <2>2, FS_CardinalityType
<1> DEFINE C == {Cardinality(ahead[r]) : r \in M \ T}
<1>2. C \subseteq Nat /\ C # {}
  BY <1>1
<1>3. PICK x \in C : \A y \in C : x <= y
  BY <1>2, LeastOf
<1>4. PICK r \in M \ T : x = Cardinality(ahead[r])
  OBVIOUS
<1>5. ASSUME NEW q \in ahead[r]
      PROVE  q \in T
  <2>1. q \in M /\ ahead[q] \subseteq ahead[r] \ {q} /\ IsFiniteSet(ahead[r])
    BY <1>1
  <2>2. /\ IsFiniteSet(ahead[r] \ {q})
        /\ Cardinality(ahead[r] \ {q}) = Cardinality(ahead[r]) - 1
    BY <2>1, FS_RemoveElement
  <2>3. Cardinality(ahead[q]) <= Cardinality(ahead[r] \ {q})
    BY <2>1, <2>2, FS_Subset
  <2>4. ~ (x <= Cardinality(ahead[q]))
    BY <1>1, <1>4, <2>1, <2>2, <2>3
  <2> QED  BY <1>3, <2>1, <2>4
<1>6. ahead[r] \subseteq T /\ IsFiniteSet(T)
  BY <1>5, FS_Subset
<1>7. Cardinality(ahead[r]) <= Cardinality(T) /\ Cardinality(T) \in Nat
  BY <1>6, FS_Subset, FS_CardinalityType
<1>8. ~ (Cardinality(ahead[r]) < n) /\ Cardinality(ahead[r]) \in Nat
  BY <1>1
<1> QED  BY <1>7, <1>8

\* Facts about cardinalities the proofs keep needing.
LEMMA UnionBound ==
    ASSUME NEW S, NEW T, NEW U, IsFiniteSet(S), IsFiniteSet(T), U \subseteq S \cup T
    PROVE  /\ Cardinality(U) \in Nat /\ Cardinality(S) \in Nat /\ Cardinality(T) \in Nat
           /\ Cardinality(U) <= Cardinality(S) + Cardinality(T)
<1>1. /\ IsFiniteSet(S \cup T)
      /\ Cardinality(S \cup T) = Cardinality(S) + Cardinality(T) - Cardinality(S \cap T)
  BY FS_Union
<1>2. IsFiniteSet(S \cap T)
  BY FS_Intersection
<1>3. /\ Cardinality(S) \in Nat /\ Cardinality(T) \in Nat /\ Cardinality(S \cap T) \in Nat
      /\ Cardinality(S \cup T) \in Nat
  BY <1>1, <1>2, FS_CardinalityType
<1>4. IsFiniteSet(U) /\ Cardinality(U) <= Cardinality(S \cup T)
  BY <1>1, FS_Subset
<1>5. Cardinality(U) \in Nat
  BY <1>4, FS_CardinalityType
<1> QED  BY <1>1, <1>3, <1>4, <1>5

LEMMA DisjointSum ==
    ASSUME NEW S, NEW T, IsFiniteSet(S), IsFiniteSet(T), S \cap T = {}
    PROVE  /\ IsFiniteSet(S \cup T)
           /\ Cardinality(S) \in Nat /\ Cardinality(T) \in Nat
           /\ Cardinality(S \cup T) = Cardinality(S) + Cardinality(T)
<1>1. /\ IsFiniteSet(S \cup T)
      /\ Cardinality(S \cup T) = Cardinality(S) + Cardinality(T) - Cardinality({})
  BY FS_Union
<1> QED  BY <1>1, FS_EmptySet, FS_CardinalityType

\* Repeated rows.  S are the rows shown and R those shown again, on n places;
\* the rows O that were there from the start and are not shown have n newer
\* rows in front of them.
LEMMA RepeatsBounded ==
    ASSUME NEW M, IsFiniteSet(M), NEW newer \in [M -> SUBSET M], NEW n \in Nat,
           \A r \in M : r \notin newer[r],
           \A r \in M : \A q \in newer[r] : newer[q] \subseteq newer[r],
           NEW O, O \subseteq M, NEW S, IsFiniteSet(S), NEW R, IsFiniteSet(R),
           Cardinality(S) + Cardinality(R) <= n,
           Cardinality(S) + Cardinality(R) <= Cardinality(M),
           \A r \in O \ S : Cardinality(newer[r]) >= n
    PROVE  Cardinality(R) <= Cardinality(M \ O)
<1>0. \A r \in M : Cardinality(newer[r]) \in Nat
  <2> SUFFICES ASSUME NEW r \in M PROVE Cardinality(newer[r]) \in Nat
    OBVIOUS
  <2>1. newer[r] \in SUBSET M
    OBVIOUS
  <2> QED  BY <2>1, FS_Subset, FS_CardinalityType
<1>1. PICK T : T = {r \in M : Cardinality(newer[r]) < n}
  OBVIOUS
<1>2. T = M \/ Cardinality(T) >= n
  BY <1>1, Ranked
<1>3. T \subseteq S \cup (M \ O)
  BY <1>0, <1>1
<1>4. IsFiniteSet(M \ O)
  BY FS_Difference
<1>5. /\ Cardinality(T) \in Nat /\ Cardinality(S) \in Nat /\ Cardinality(M \ O) \in Nat
      /\ Cardinality(T) <= Cardinality(S) + Cardinality(M \ O)
  BY <1>3, <1>4, UnionBound
<1>6. Cardinality(R) \in Nat /\ Cardinality(M) \in Nat
  BY FS_CardinalityType
<1>7. Cardinality(S) + Cardinality(R) <= Cardinality(T)
  BY <1>2, <1>5, <1>6
<1> QED  BY <1>5, <1>6, <1>7

\* Missed rows, when the pages have places for all of O.
LEMMA MissedBounded ==
    ASSUME NEW M, IsFiniteSet(M), NEW newer \in [M -> SUBSET M], NEW n \in Nat,
           \A r \in M : r \notin newer[r],
           \A r \in M : \A q \in newer[r] : newer[q] \subseteq newer[r],
           NEW O, O \subseteq M, Cardinality(O) <= n, NEW S,
           \A r \in O \ S : Cardinality(newer[r]) >= n
    PROVE  Cardinality(O \ S) <= Cardinality(M \ O)
<1>0. \A r \in M : Cardinality(newer[r]) \in Nat
  <2> SUFFICES ASSUME NEW r \in M PROVE Cardinality(newer[r]) \in Nat
    OBVIOUS
  <2>1. newer[r] \in SUBSET M
    OBVIOUS
  <2> QED  BY <2>1, FS_Subset, FS_CardinalityType
<1>1. PICK T : T = {r \in M : Cardinality(newer[r]) < n}
  OBVIOUS
<1>2. T = M \/ Cardinality(T) >= n
  BY <1>1, Ranked
<1>3. T \cap (O \ S) = {} /\ T \subseteq M
  BY <1>0, <1>1
<1>4. IsFiniteSet(O) /\ IsFiniteSet(T)
  BY <1>3, FS_Subset
<1>5. IsFiniteSet(O \ S) /\ IsFiniteSet(M \ O)
  BY <1>4, FS_Difference
<1>6. CASE T = M
  <2>1. O \ S = {}
    BY <1>3, <1>6
  <2> QED  BY <1>5, <2>1, FS_EmptySet, FS_CardinalityType
<1>7. CASE Cardinality(T) >= n
  <2>1. /\ IsFiniteSet(T \cup (O \ S)) /\ Cardinality(T) \in Nat /\ Cardinality(O \ S) \in Nat
        /\ Cardinality(T \cup (O \ S)) = Cardinality(T) + Cardinality(O \ S)
    BY <1>3, <1>4, <1>5, DisjointSum
  <2>2. Cardinality(T \cup (O \ S)) <= Cardinality(M)
    BY <1>3, FS_Subset
  <2>3. O \cap (M \ O) = {} /\ M = O \cup (M \ O)
    OBVIOUS
  <2>4. /\ Cardinality(M) = Cardinality(O) + Cardinality(M \ O)
        /\ Cardinality(O) \in Nat /\ Cardinality(M \ O) \in Nat
    BY <1>4, <1>5, <2>3, DisjointSum
  <2> QED  BY <1>7, <2>1, <2>2, <2>4
<1> QED  BY <1>2, <1>6, <1>7

-----------------------------------------------------------------------------
(* Before and First *)

\* Sets of rows are finite.
LEMMA RowsFinite ==
    ASSUME NEW S, S \subseteq Rows
    PROVE  IsFiniteSet(S) /\ Cardinality(S) \in Nat
BY ConstantsAssumption, FS_Subset, FS_CardinalityType

\* The order of the query is strict and total.
LEMMA BeforeOrder ==
    ASSUME time \in [Rows -> 1..MaxTime], NEW q \in Rows, NEW r \in Rows, NEW s \in Rows
    PROVE  /\ ~ Before(r, r)
           /\ Before(q, r) /\ Before(r, s) => Before(q, s)
           /\ Before(q, r) => ~ Before(r, q)
           /\ q = r \/ Before(q, r) \/ Before(r, q)
<1>1. /\ time[q] \in Int /\ time[r] \in Int /\ time[s] \in Int
      /\ q \in Int /\ r \in Int /\ s \in Int
  BY ConstantsAssumption
<1> QED  BY <1>1 DEF Before

\* Rows of S ahead of r.
Ahead(S, r) == {q \in S : Before(q, r)}

LEMMA FirstDef ==
    ASSUME NEW S, NEW n
    PROVE  First(S, n) = {r \in S : Cardinality(Ahead(S, r)) < n}
BY DEF First, Ahead

\* First(S, n) with fewer than n rows is all of S.
LEMMA FirstAll ==
    ASSUME time \in [Rows -> 1..MaxTime], NEW S, S \subseteq Rows, NEW n \in Nat,
           Cardinality(First(S, n)) < n
    PROVE  First(S, n) = S
<1> DEFINE ahead == [r \in S |-> Ahead(S, r)]
<1>1. ahead \in [S -> SUBSET S]
  BY DEF Ahead
<1>2. \A r \in S : r \notin ahead[r]
  BY BeforeOrder DEF Ahead
<1>3. \A r \in S : \A q \in ahead[r] : ahead[q] \subseteq ahead[r]
  BY BeforeOrder DEF Ahead
<1>4. First(S, n) = {r \in S : Cardinality(ahead[r]) < n}
  BY FirstDef
<1>5. IsFiniteSet(S) /\ First(S, n) \subseteq Rows
  BY <1>4, RowsFinite
<1>6. Cardinality(First(S, n)) \in Nat
  BY <1>5, RowsFinite
<1> HIDE DEF ahead
<1>7. First(S, n) = S \/ Cardinality(First(S, n)) >= n
  BY <1>1, <1>2, <1>3, <1>4, <1>5, Ranked
<1> QED  BY <1>6, <1>7

\* What is before a row of First(S, n) is in it.
LEMMA FirstUp ==
    ASSUME time \in [Rows -> 1..MaxTime], NEW S, S \subseteq Rows, NEW n \in Nat,
           NEW l \in First(S, n), NEW r \in S, Before(r, l)
    PROVE  r \in First(S, n)
<1>1. l \in S /\ Cardinality(Ahead(S, l)) < n
  BY FirstDef
<1>2. Ahead(S, r) \subseteq Ahead(S, l)
  BY <1>1, BeforeOrder DEF Ahead
<1>3. IsFiniteSet(Ahead(S, l)) /\ Cardinality(Ahead(S, l)) \in Nat
  BY RowsFinite DEF Ahead
<1>4. Cardinality(Ahead(S, r)) <= Cardinality(Ahead(S, l)) /\ Cardinality(Ahead(S, r)) \in Nat
  BY <1>2, <1>3, FS_Subset, FS_CardinalityType
<1>5. Cardinality(Ahead(S, r)) < n
  BY <1>1, <1>3, <1>4
<1> QED  BY <1>5, FirstDef

\* A set of n rows at most is its own First.
LEMMA FirstWhole ==
    ASSUME time \in [Rows -> 1..MaxTime], NEW S, S \subseteq Rows, NEW n \in Nat,
           Cardinality(S) <= n
    PROVE  First(S, n) = S
<1>1. ASSUME NEW r \in S
      PROVE  Cardinality(Ahead(S, r)) < n
  <2>1. Ahead(S, r) \subseteq S \ {r}
    BY BeforeOrder DEF Ahead
  <2>2. IsFiniteSet(S) /\ Cardinality(S) \in Nat
    BY RowsFinite
  <2>3. IsFiniteSet(S \ {r}) /\ Cardinality(S \ {r}) = Cardinality(S) - 1
    BY <2>2, FS_RemoveElement
  <2>4. Cardinality(Ahead(S, r)) <= Cardinality(S \ {r}) /\ Cardinality(Ahead(S, r)) \in Nat
    BY <2>1, <2>3, FS_Subset, FS_CardinalityType
  <2> QED  BY <2>2, <2>3, <2>4
<1> QED  BY <1>1, FirstDef

-----------------------------------------------------------------------------
(* Types *)

\* The initial states satisfy the invariant.
LEMMA InitInv == Init => IInv
<1> SUFFICES ASSUME Init PROVE IInv
  OBVIOUS
<1>1. TypeOK
  BY ConstantsAssumption DEF Init, TypeOK, Statuses, Pending
<1>2. IdleInv /\ OrderInv /\ TradeInv /\ DoneInv
  BY DEF Init, IdleInv, OrderInv, TradeInv, DoneInv
<1> QED  BY <1>1, <1>2 DEF IInv

\* What the where clause selects are rows.
LEMMA MatchingType ==
    ASSUME TypeOK
    PROVE  /\ Matching \subseteq Rows /\ IsFiniteSet(Matching) /\ Cardinality(Matching) \in Nat
           /\ steady \subseteq Rows /\ IsFiniteSet(steady) /\ Cardinality(steady) \in Nat
BY RowsFinite DEF TypeOK, Matching

\* It is the same when table and filter are.
LEMMA MatchingSame ==
    ASSUME UNCHANGED <<filterVars, tableVars>>
    PROVE  Matching' = Matching
BY DEF Matching, filterVars, tableVars

\* seen counts the rows shown.
LEMMA ShownType ==
    ASSUME TypeOK, NEW S, S \subseteq Rows, seen' = Shown(S)
    PROVE  /\ seen' \in [Rows -> Nat]
           /\ \A r \in Rows : seen'[r] = IF r \in S THEN seen[r] + 1 ELSE seen[r]
<1>1. \A r \in Rows : seen[r] \in Nat
  BY DEF TypeOK
<1> QED  BY <1>1 DEF Shown

\* The rows of the orders' page.
LEMMA PageOfOrders ==
    ASSUME TypeOK, NEW n \in Nat, NEW k \in Nat
    PROVE  /\ First(Matching \cap cursor, n) \subseteq Matching \cap cursor
           /\ First(First(Matching \cap cursor, n), k) \subseteq Matching \cap cursor
           /\ Matching \cap cursor \subseteq Rows
BY MatchingType DEF First

\* Types are kept.
LEMMA TypeStep ==
    ASSUME IInv, [Next]_vars
    PROVE  TypeOK'
<1> USE DEF filterVars, tableVars
<1>0. TypeOK /\ OrderInv /\ IdleInv
  BY DEF IInv
<1>1. CASE Insert
  <2>1. steady' \subseteq Matching'
    BY <1>0, <1>1 DEF TypeOK, Insert, Matching
  <2> QED  BY <1>0, <1>1, <2>1 DEF TypeOK, Insert
<1>2. CASE Fill
  <2>1. PICK r \in stored : \E s \in {"PARTIALLY_FILLED", "FILLED"} \ {status[r]} :
            /\ status' = [status EXCEPT ![r] = s]
            /\ steady' = IF s \in wanted THEN steady ELSE steady \ {r}
    BY <1>2 DEF Fill
  <2>2. PICK s \in {"PARTIALLY_FILLED", "FILLED"} :
            /\ status' = [status EXCEPT ![r] = s]
            /\ steady' = IF s \in wanted THEN steady ELSE steady \ {r}
    BY <2>1
  <2>3. UNCHANGED <<route, time, stored, wanted, from, to, walk, cursor, page, rows, total, seen>>
    BY <1>2 DEF Fill
  <2>4. status' \in [Rows -> Statuses]
    BY <1>0, <2>2 DEF TypeOK, Statuses
  <2>5. \A q \in stored : q # r => status'[q] = status[q]
    BY <1>0, <2>2 DEF TypeOK
  <2>6. status'[r] = s
    BY <1>0, <2>2 DEF TypeOK
  <2>7. steady \subseteq Matching
    BY <1>0 DEF TypeOK
  <2>8. steady' \subseteq Matching'
    <3>1. ASSUME NEW q \in steady'
          PROVE  q \in Matching'
      <4>1. q \in steady /\ (q = r => s \in wanted)
        BY <2>2
      <4>2. q \in stored /\ status[q] \in wanted /\ from <= time[q] /\ time[q] <= to
        BY <2>7, <4>1 DEF Matching
      <4>3. status'[q] \in wanted
        BY <2>5, <2>6, <4>1, <4>2
      <4> QED  BY <2>3, <4>2, <4>3 DEF Matching
    <3> QED  BY <3>1
  <2> QED  BY <1>0, <2>3, <2>4, <2>8 DEF TypeOK
<1>3. CASE WalkStart
  <2>1. wanted' \subseteq Statuses /\ from' \in 1..MaxTime /\ to' \in 1..MaxTime
    BY <1>0, <1>3 DEF WalkStart, TypeOK
  <2>2. steady' \subseteq Matching'
    BY <1>3 DEF WalkStart
  <2> QED  BY <1>0, <1>3, <2>1, <2>2 DEF TypeOK, WalkStart
<1>4. CASE GetUserOrders
  <2>1. PICK S : /\ S = First(First(Matching \cap cursor, Limit + 1), Limit)
                 /\ seen' = Shown(S)
    BY <1>4 DEF GetUserOrders
  <2>a. Limit \in Nat /\ Limit + 1 \in Nat
    BY ConstantsAssumption
  <2>b. S \subseteq Rows
    BY <1>0, <2>1, <2>a, PageOfOrders
  <2>2. seen' \in [Rows -> Nat]
    BY <1>0, <2>1, <2>b, ShownType
  <2>3. walk' \in {"idle", "page", "done"}
    BY <1>4 DEF GetUserOrders
  <2>4. cursor' \subseteq Rows
    BY <1>0, <1>4 DEF GetUserOrders, cursorWhere, TypeOK
  <2>5. Matching' = Matching /\ UNCHANGED <<filterVars, tableVars, page, rows, total, steady>>
    BY <1>4, MatchingSame DEF GetUserOrders
  <2> QED  BY <1>0, <2>2, <2>3, <2>4, <2>5 DEF TypeOK
<1>5. CASE FindMany
  <2>1. rows' \subseteq Rows
    BY <1>0, <1>5, MatchingType DEF FindMany, Pages
  <2>2. Matching' = Matching
    BY <1>5, MatchingSame DEF FindMany
  <2> QED  BY <1>0, <1>5, <2>1, <2>2 DEF TypeOK, FindMany
<1>6. CASE Count
  <2>1. total' \in Nat
    BY <1>0, <1>6, MatchingType DEF Count
  <2>2. Matching' = Matching
    BY <1>6, MatchingSame DEF Count
  <2> QED  BY <1>0, <1>6, <2>1, <2>2 DEF TypeOK, Count
<1>7. CASE Respond
  <2>1. rows \subseteq Rows
    BY <1>0, <1>7 DEF Respond, TypeOK
  <2>2. seen' \in [Rows -> Nat]
    BY <1>0, <1>7, <2>1, ShownType DEF Respond
  <2>3. walk' \in {"idle", "page", "done"} /\ page' \in Nat \ {0}
    BY <1>0, <1>7 DEF Respond, TypeOK
  <2>4. Matching' = Matching
    BY <1>7, MatchingSame DEF Respond
  <2> QED  BY <1>0, <1>7, <2>2, <2>3, <2>4 DEF TypeOK, Respond
<1>8. CASE Quiescent \/ UNCHANGED vars
  <2>1. UNCHANGED vars
    BY <1>8 DEF Quiescent
  <2>2. Matching' = Matching
    BY <2>1, MatchingSame DEF vars
  <2> QED  BY <1>0, <2>1, <2>2 DEF TypeOK, vars
<1> QED  BY <1>1, <1>2, <1>3, <1>4, <1>5, <1>6, <1>7, <1>8 DEF Next

\* Nothing has been asked before the walk starts.
LEMMA IdleStep ==
    ASSUME IInv, [Next]_vars
    PROVE  IdleInv'
<1> USE DEF IInv, IdleInv, TypeOK
<1>1. CASE Insert
  BY <1>1 DEF Insert
<1>2. CASE Fill
  BY <1>2 DEF Fill
<1>3. CASE WalkStart \/ GetUserOrders \/ FindMany \/ Count \/ Respond
  BY <1>3 DEF WalkStart, GetUserOrders, FindMany, Count, Respond
<1>4. CASE Quiescent \/ UNCHANGED vars
  BY <1>4 DEF Quiescent, vars
<1> QED  BY <1>1, <1>2, <1>3, <1>4 DEF Next

-----------------------------------------------------------------------------
(* Paging by a cursor *)

\* A page of the orders: the rows it shows come from behind the cursor, and
\* every matching row there that it does not show is behind its last row, or
\* there is none when it is the last page.
LEMMA OrderPage ==
    ASSUME IInv, GetUserOrders
    PROVE  \E shown \in SUBSET (Matching \cap cursor) :
              /\ seen' = Shown(shown)
              /\ \/ /\ walk' = "page"
                    /\ \E last \in shown :
                          /\ cursor' = {r \in Rows : Before(last, r)}
                          /\ \A r \in shown : r # last => Before(r, last)
                          /\ \A r \in Matching \cap cursor : Before(r, last) => r \in shown
                 \/ walk' = "done" /\ cursor' = cursor /\ shown = Matching \cap cursor
<1>0. TypeOK /\ time \in [Rows -> 1..MaxTime] /\ Limit \in Nat /\ Limit + 1 \in Nat
  BY ConstantsAssumption DEF IInv, TypeOK
<1> DEFINE M == Matching \cap cursor
           orders == First(M, Limit + 1)
           shown == First(orders, Limit)
<1>1. /\ walk = "page" /\ seen' = Shown(shown)
      /\ IF Cardinality(orders) > Limit
         THEN /\ walk' = walk
              /\ \E last \in shown :
                    /\ \A r \in shown : r # last => Before(r, last)
                    /\ cursor' = cursorWhere(last)
         ELSE walk' = "done" /\ cursor' = cursor
  BY DEF GetUserOrders
<1>2. orders \subseteq M /\ shown \subseteq orders /\ M \subseteq Rows
  BY <1>0, MatchingType DEF First
<1> HIDE DEF M
<1>3. CASE Cardinality(orders) > Limit
  <2>1. PICK last \in shown : /\ \A r \in shown : r # last => Before(r, last)
                              /\ cursor' = cursorWhere(last)
    BY <1>1, <1>3
  <2>2. cursor' = {r \in Rows : Before(last, r)}
    <3>0. last \in Rows
      BY <1>2, Zenon
    <3>1. last \in Rows /\ time[last] \in Int /\ last \in Int
      BY <1>0, <3>0, ConstantsAssumption
    <3>2. \A r \in Rows : time[r] \in Int /\ r \in Int
      BY <1>0, ConstantsAssumption
    <3> QED  BY <2>1, <3>1, <3>2 DEF cursorWhere, Before
  <2>3. ASSUME NEW r \in M, Before(r, last)
        PROVE  r \in shown
    <3>1. last \in First(M, Limit + 1)
      BY <1>2
    <3>2. r \in orders
      BY <1>0, <1>2, <2>3, <3>1, FirstUp
    <3> QED  BY <1>0, <1>2, <2>3, <3>2, FirstUp
  <2> QED  BY <1>1, <1>2, <1>3, <2>1, <2>2, <2>3 DEF M
<1>4. CASE ~ (Cardinality(orders) > Limit)
  <2>1. Cardinality(orders) \in Nat
    BY <1>2, RowsFinite
  <2>2. Cardinality(orders) < Limit + 1 /\ Cardinality(orders) <= Limit
    BY <1>0, <1>4, <2>1
  <2>3. orders = M
    BY <1>0, <1>2, <2>2, FirstAll
  <2>4. shown = M
    BY <1>0, <1>2, <2>2, <2>3, FirstWhole
  <2> QED  BY <1>1, <1>2, <1>4, <2>4 DEF M
<1> QED  BY <1>3, <1>4

\* The walk through the orders keeps its invariant.
LEMMA OrderStep ==
    ASSUME IInv, [Next]_vars
    PROVE  OrderInv'
<1> USE DEF filterVars, tableVars
<1>0. TypeOK /\ OrderInv /\ IdleInv /\ route' = route /\ time' = time
  BY DEF IInv, Next, Insert, Fill, WalkStart, GetUserOrders, FindMany, Count, Respond,
         Quiescent, vars
<1> SUFFICES ASSUME route = "orders"
             PROVE  OrderInv'
  BY <1>0 DEF OrderInv
<1>1. /\ rows = {Pending}
      /\ \A q \in cursor, r \in Rows : Before(q, r) => r \in cursor
      /\ \A r \in Rows : seen[r] <= 1
      /\ walk # "done" => \A r \in cursor : seen[r] = 0
      /\ \A r \in steady : r \notin cursor \/ walk = "done" => seen[r] = 1
  BY <1>0 DEF OrderInv
<1>2. \A q, r \in Rows : Before(q, r)' <=> Before(q, r)
  BY <1>0 DEF Before
<1>3. CASE Insert \/ Fill \/ Quiescent \/ UNCHANGED vars
  <2>1. /\ rows' = rows /\ cursor' = cursor /\ seen' = seen /\ walk' = walk
        /\ steady' \subseteq steady
    BY <1>3 DEF Insert, Fill, Quiescent, vars
  <2> QED  BY <1>0, <1>1, <1>2, <2>1 DEF OrderInv, TypeOK
<1>4. CASE WalkStart
  <2>1. /\ rows' = rows /\ cursor' = cursor /\ seen' = seen /\ walk' = "page" /\ walk = "idle"
    BY <1>4 DEF WalkStart
  <2>2. cursor' = Rows /\ steady' \subseteq Rows
    BY <1>0, <1>4, <2>1, TypeStep DEF IdleInv, TypeOK, WalkStart, Matching
  <2> QED  BY <1>0, <1>1, <1>2, <2>1, <2>2 DEF OrderInv, TypeOK
<1>5. CASE FindMany \/ Count \/ Respond
  BY <1>1, <1>5 DEF FindMany, Count, Respond
<1>6. CASE GetUserOrders
  <2>0. rows' = rows /\ steady' = steady /\ walk = "page"
    BY <1>6 DEF GetUserOrders
  <2>1. PICK shown \in SUBSET (Matching \cap cursor) :
              /\ seen' = Shown(shown)
              /\ \/ /\ walk' = "page"
                    /\ \E last \in shown :
                          /\ cursor' = {r \in Rows : Before(last, r)}
                          /\ \A r \in shown : r # last => Before(r, last)
                          /\ \A r \in Matching \cap cursor : Before(r, last) => r \in shown
                 \/ walk' = "done" /\ cursor' = cursor /\ shown = Matching \cap cursor
    BY <1>6, OrderPage
  <2>2. shown \subseteq Rows /\ Matching \subseteq Rows /\ steady \subseteq Matching
    BY <1>0, MatchingType DEF TypeOK
  <2>3. \A r \in Rows : seen'[r] = IF r \in shown THEN seen[r] + 1 ELSE seen[r]
    BY <1>0, <2>1, <2>2, ShownType
  <2>4. \A r \in shown : r \in cursor /\ seen[r] = 0 /\ seen'[r] = 1
    BY <1>1, <2>0, <2>2, <2>3
  <2>5. \A r \in Rows : seen'[r] <= 1
    BY <1>1, <2>3, <2>4
  <2>6. CASE walk' = "done" /\ cursor' = cursor /\ shown = Matching \cap cursor
    <3>1. \A r \in steady : seen'[r] = 1
      BY <1>1, <2>2, <2>3, <2>4, <2>6
    <3> QED  BY <1>0, <1>1, <1>2, <2>0, <2>5, <2>6, <3>1 DEF OrderInv, TypeOK
  <2>7. ASSUME walk' = "page", NEW last \in shown,
               cursor' = {r \in Rows : Before(last, r)},
               \A r \in shown : r # last => Before(r, last),
               \A r \in Matching \cap cursor : Before(r, last) => r \in shown
        PROVE  OrderInv'
    <3>1. last \in Rows /\ last \in cursor /\ time \in [Rows -> 1..MaxTime]
      BY <1>0, <2>2, <2>4, <2>7 DEF TypeOK
    <3>2. \A q \in cursor', r \in Rows : Before(q, r) => r \in cursor'
      BY <2>7, <3>1, BeforeOrder
    <3>3. ASSUME NEW r \in cursor'
          PROVE  seen'[r] = 0
      <4>1. r \in Rows /\ Before(last, r) /\ r \in cursor
        BY <1>1, <2>7, <3>1
      <4>2. r \notin shown
        BY <2>7, <3>1, <4>1, BeforeOrder
      <4> QED  BY <1>1, <2>0, <2>3, <4>1, <4>2
    <3>4. ASSUME NEW r \in steady, r \notin cursor'
          PROVE  seen'[r] = 1
      <4>0. r \in Rows /\ r \in Matching
        BY <2>2
      <4>1. CASE r \in cursor
        <5>1. r = last \/ Before(r, last)
          BY <2>7, <3>1, <3>4, <4>0, BeforeOrder
        <5>2. r \in shown
          BY <2>7, <4>0, <4>1, <5>1
        <5> QED  BY <2>4, <5>2
      <4>2. CASE r \notin cursor
        <5>1. r \notin shown /\ seen[r] = 1
          BY <1>1, <2>4, <4>2
        <5> QED  BY <2>3, <4>0, <5>1
      <4> QED  BY <4>1, <4>2
    <3>5. \A q \in cursor', r \in Rows : Before(q, r)' => r \in cursor'
      BY <1>2, <2>7, <3>2
    <3> QED  BY <1>1, <2>0, <2>5, <2>7, <3>3, <3>4, <3>5 DEF OrderInv
  <2> QED  BY <2>1, <2>6, <2>7
<1> QED  BY <1>3, <1>4, <1>5, <1>6 DEF Next

-----------------------------------------------------------------------------
(* Paging by offset *)

\* The rows newer than each matching row, as the lemmas above want them.
NewerThan == [r \in Matching |-> Newer(r)]

LEMMA NewerOrder ==
    ASSUME TypeOK
    PROVE  /\ NewerThan \in [Matching -> SUBSET Matching]
           /\ \A r \in Matching : NewerThan[r] = Newer(r)
           /\ \A r \in Matching : r \notin NewerThan[r]
           /\ \A r \in Matching : \A q \in NewerThan[r] : NewerThan[q] \subseteq NewerThan[r]
<1>1. \A r \in Matching : time[r] \in Int
  BY MatchingType DEF TypeOK
<1> QED  BY <1>1 DEF NewerThan, Newer

\* The sets the invariant counts.
LEMMA TradeSets ==
    ASSUME TypeOK
    PROVE  /\ IsFiniteSet(Seen) /\ Cardinality(Seen) \in Nat
           /\ IsFiniteSet(Repeats) /\ Cardinality(Repeats) \in Nat
           /\ InHand \subseteq Rows /\ IsFiniteSet(InHand) /\ Cardinality(InHand) \in Nat
           /\ IsFiniteSet(Inserted) /\ Cardinality(Inserted) \in Nat
           /\ Skip \in Nat /\ Room \in Nat
<1>1. Seen \subseteq Rows /\ Repeats \subseteq Rows
  BY DEF Seen, Repeats
<1>2. InHand \subseteq Rows
  BY DEF InHand, TypeOK
<1>3. Inserted \subseteq Rows
  BY MatchingType DEF Inserted
<1>4. Skip \in Nat /\ Room \in Nat
  <2>1. page - 1 \in Nat /\ Limit \in Nat
    BY ConstantsAssumption DEF TypeOK
  <2>2. Skip \in Nat
    BY <2>1 DEF Skip
  <2> QED  BY <2>1, <2>2 DEF Room
<1> QED  BY <1>1, <1>2, <1>3, <1>4, RowsFinite

\* Counts of the pages, for any places n that hold what was shown.
LEMMA ErrorsBounded ==
    ASSUME TypeOK, NEW n \in Nat, NEW S, IsFiniteSet(S), NEW R, IsFiniteSet(R),
           Cardinality(S) + Cardinality(R) <= n,
           Cardinality(S) + Cardinality(R) <= Cardinality(Matching),
           \A r \in steady \ S : Cardinality(Newer(r)) >= n
    PROVE  /\ Cardinality(R) <= Cardinality(Matching \ steady)
           /\ Cardinality(steady) <= n =>
                 Cardinality(steady \ S) <= Cardinality(Matching \ steady)
<1>1. IsFiniteSet(Matching) /\ steady \subseteq Matching
  BY MatchingType DEF TypeOK
<1>2. /\ NewerThan \in [Matching -> SUBSET Matching]
      /\ \A r \in Matching : r \notin NewerThan[r]
      /\ \A r \in Matching : \A q \in NewerThan[r] : NewerThan[q] \subseteq NewerThan[r]
  BY NewerOrder
<1>3. \A r \in steady \ S : Cardinality(NewerThan[r]) >= n
  BY <1>1, NewerOrder
<1>4. Cardinality(R) <= Cardinality(Matching \ steady)
  <2>1. PICK M, O, newer : M = Matching /\ O = steady /\ newer = NewerThan
    OBVIOUS
  <2>2. /\ IsFiniteSet(M) /\ O \subseteq M /\ newer \in [M -> SUBSET M]
        /\ \A r \in M : r \notin newer[r]
        /\ \A r \in M : \A q \in newer[r] : newer[q] \subseteq newer[r]
        /\ Cardinality(S) + Cardinality(R) <= Cardinality(M)
        /\ \A r \in O \ S : Cardinality(newer[r]) >= n
    BY <1>1, <1>2, <1>3, <2>1
  <2>3. Cardinality(R) <= Cardinality(M \ O)
    BY <2>2, RepeatsBounded
  <2> QED  BY <2>1, <2>3
<1>5. Cardinality(steady) <= n => Cardinality(steady \ S) <= Cardinality(Matching \ steady)
  BY <1>1, <1>2, <1>3, MissedBounded
<1> QED  BY <1>4, <1>5

\* While pages are asked for, repeats are paid for by inserts.
LEMMA PageErrors ==
    ASSUME TypeOK, IdleInv, TradeInv, DoneInv
    PROVE  TradeWalkErrorsNeedInserts
<1> SUFFICES ASSUME route = "trades", NoTies, walk # "done"
             PROVE  Cardinality(Repeats) <= Cardinality(Inserted)
  BY DEF TradeWalkErrorsNeedInserts, DoneInv
<1>0. /\ IsFiniteSet(Seen) /\ IsFiniteSet(Repeats) /\ IsFiniteSet(InHand)
      /\ Cardinality(Repeats) \in Nat /\ Room \in Nat
      /\ Cardinality(Inserted) \in Nat
  BY TradeSets
<1>1. CASE walk = "idle"
  <2>1. Repeats = {}
    BY <1>1 DEF IdleInv, Repeats
  <2> QED  BY <1>0, <2>1, FS_EmptySet
<1>2. CASE walk = "page"
  <2>1. /\ Cardinality(Seen) + Cardinality(Repeats) + Cardinality(InHand) <= Room
        /\ Cardinality(Seen) + Cardinality(Repeats) + Cardinality(InHand) <= Cardinality(Matching)
        /\ \A r \in steady \ (Seen \cup InHand) : Cardinality(Newer(r)) >= Room
    BY <1>2 DEF TradeInv
  <2>2. /\ Cardinality(Seen \cup InHand) \in Nat /\ IsFiniteSet(Seen \cup InHand)
        /\ Cardinality(Seen) \in Nat /\ Cardinality(InHand) \in Nat
        /\ Cardinality(Seen \cup InHand) <= Cardinality(Seen) + Cardinality(InHand)
    BY <1>0, UnionBound, FS_Union
  <2>3. Cardinality(Matching) \in Nat
    BY MatchingType
  <2>4. /\ Cardinality(Seen \cup InHand) + Cardinality(Repeats) <= Room
        /\ Cardinality(Seen \cup InHand) + Cardinality(Repeats) <= Cardinality(Matching)
    BY <1>0, <2>1, <2>2, <2>3
  <2> QED  BY <1>0, <2>1, <2>2, <2>4, ErrorsBounded DEF Inserted
<1> QED  BY <1>1, <1>2 DEF TypeOK

\* An insert moves rows down and pages nowhere.
LEMMA TradeInsert ==
    ASSUME IInv, TypeOK', Insert, route = "trades"
    PROVE  TradeInv' /\ DoneInv'
<1> USE DEF filterVars, tableVars
<1>0. /\ TypeOK /\ TradeInv /\ DoneInv
      /\ UNCHANGED <<filterVars, status, walk, cursor, page, rows, total, seen, steady>>
      /\ stored \subseteq stored'
  BY DEF IInv, Insert
<1>1. Matching \subseteq Matching' /\ Matching' \subseteq Rows
  BY <1>0 DEF Matching, TypeOK
<1>2. /\ IsFiniteSet(Matching') /\ Cardinality(Matching') \in Nat
      /\ Cardinality(Matching) <= Cardinality(Matching') /\ Cardinality(Matching) \in Nat
  BY <1>0, <1>1, RowsFinite, FS_Subset, MatchingType
<1>3. NoTies' => NoTies
  BY <1>0, <1>1 DEF NoTies
<1>4. ASSUME NEW r \in Rows
      PROVE  /\ Cardinality(Newer(r)) <= Cardinality(Newer(r)')
             /\ Cardinality(Newer(r)) \in Nat /\ Cardinality(Newer(r)') \in Nat
  <2>1. Newer(r) \subseteq Newer(r)' /\ Newer(r)' \subseteq Rows
    BY <1>0, <1>1 DEF Newer
  <2> QED  BY <2>1, RowsFinite, FS_Subset
<1>5. /\ Seen' = Seen /\ Repeats' = Repeats /\ InHand' = InHand /\ Room' = Room
      /\ Missed' = Missed
  BY <1>0 DEF Seen, Repeats, InHand, Room, Missed, Skip
<1>6. TradeInv'
  <2>1. wanted' = Statuses /\ (total' # Pending => total' >= Cardinality(steady'))
    BY <1>0 DEF TradeInv
  <2>2. ASSUME walk = "page"
        PROVE  /\ Cardinality(Seen) + Cardinality(Repeats) + Cardinality(InHand) <= Room
               /\ Cardinality(Seen) + Cardinality(Repeats) + Cardinality(InHand)
                     <= Cardinality(Matching')
               /\ Cardinality(InHand) <= Limit
               /\ NoTies' => \A r \in steady \ (Seen \cup InHand) : Cardinality(Newer(r)') >= Room
    <3>1. Cardinality(Seen) + Cardinality(Repeats) + Cardinality(InHand) <= Cardinality(Matching')
      BY <1>0, <1>2, <2>2, TradeSets DEF TradeInv
    <3>2. ASSUME NoTies', NEW r \in steady \ (Seen \cup InHand)
          PROVE  Cardinality(Newer(r)') >= Room
      <4>1. Cardinality(Newer(r)) >= Room /\ r \in Rows /\ Room \in Nat
        BY <1>0, <1>3, <2>2, <3>2, MatchingType, TradeSets DEF TradeInv
      <4> QED  BY <1>4, <4>1
    <3> QED  BY <1>0, <2>2, <3>1, <3>2 DEF TradeInv
  <2>3. /\ walk' = walk /\ steady' = steady
    BY <1>0
  <2> QED  BY <1>5, <2>1, <2>2, <2>3 DEF TradeInv
<1>7. DoneInv'
  <2>1. Inserted \subseteq Inserted' /\ Inserted' \subseteq Rows
    BY <1>0, <1>1 DEF Inserted
  <2>2. /\ Cardinality(Inserted) <= Cardinality(Inserted')
        /\ Cardinality(Inserted) \in Nat /\ Cardinality(Inserted') \in Nat
    BY <2>1, RowsFinite, FS_Subset
  <2>3. Cardinality(Repeats) \in Nat /\ Cardinality(Missed) \in Nat
    BY <1>0, TradeSets, RowsFinite, MatchingType DEF Missed
  <2>4. walk' = walk /\ route' = route
    BY <1>0
  <2> QED  BY <1>0, <1>3, <1>5, <2>2, <2>3, <2>4 DEF DoneInv, TradeWalkErrorsNeedInserts
<1> QED  BY <1>6, <1>7

\* The page findMany returns: it holds Limit rows at most, all of them have a
\* place, and an old row that is still not shown is behind it.
LEMMA TradePage ==
    ASSUME IInv, FindMany
    PROVE  /\ rows' \subseteq Matching /\ Cardinality(rows') <= Limit
           /\ Cardinality(Seen) + Cardinality(Repeats) + Cardinality(rows') <= Skip + Limit
           /\ Cardinality(Seen) + Cardinality(Repeats) + Cardinality(rows') <= Cardinality(Matching)
           /\ NoTies => \A r \in steady \ (Seen \cup rows') : Cardinality(Newer(r)) >= Skip + Limit
<1>0. /\ TypeOK /\ TradeInv /\ route = "trades" /\ walk = "page" /\ rows = {Pending}
      /\ rows' \in Pages
  BY DEF IInv, FindMany
<1>1. PICK A \in SUBSET (Matching \ rows') :
          /\ rows' \subseteq Matching
          /\ Cardinality(A) = Least(Skip, Cardinality(Matching))
          /\ Cardinality(A \cup rows') = Least(Skip + Limit, Cardinality(Matching))
          /\ MayComeFirst(A) /\ MayComeFirst(A \cup rows')
  BY <1>0 DEF Pages
<1>2. /\ IsFiniteSet(Matching) /\ Cardinality(Matching) \in Nat /\ Matching \subseteq Rows
      /\ Skip \in Nat /\ Limit \in Nat /\ Limit # 0
      /\ Cardinality(Seen) \in Nat /\ Cardinality(Repeats) \in Nat
  BY <1>0, MatchingType, TradeSets, ConstantsAssumption
<1>3. IsFiniteSet(A) /\ IsFiniteSet(rows') /\ A \cap rows' = {}
  BY <1>1, <1>2, FS_Subset
<1>4. /\ Cardinality(A) \in Nat /\ Cardinality(rows') \in Nat
      /\ Cardinality(A \cup rows') = Cardinality(A) + Cardinality(rows')
  BY <1>3, DisjointSum
<1>5. /\ InHand = {} /\ Room = Skip /\ Cardinality(InHand) = 0
  BY <1>0, FS_EmptySet DEF InHand, Room
<1>6. /\ Cardinality(Seen) + Cardinality(Repeats) <= Skip
      /\ Cardinality(Seen) + Cardinality(Repeats) <= Cardinality(Matching)
      /\ NoTies => \A r \in steady \ Seen : Cardinality(Newer(r)) >= Skip
  BY <1>0, <1>2, <1>5 DEF TradeInv
<1>7. Cardinality(rows') <= Limit
  BY <1>1, <1>2, <1>4 DEF Least
<1>8. Cardinality(Seen) + Cardinality(Repeats) + Cardinality(rows') <= Skip + Limit
  BY <1>2, <1>4, <1>6, <1>7
<1>9. Cardinality(Seen) + Cardinality(Repeats) + Cardinality(rows') <= Cardinality(Matching)
  BY <1>1, <1>2, <1>4, <1>6 DEF Least
<1>10. ASSUME NoTies, NEW r \in steady \ (Seen \cup rows')
       PROVE  Cardinality(Newer(r)) >= Skip + Limit
  <2>1. r \in Matching /\ r \in Rows /\ time[r] \in Int
    BY <1>0, <1>2 DEF TypeOK
  <2>2. \A q \in Matching : time[q] \in Int
    BY <1>0, <1>2 DEF TypeOK
  <2>3. IsFiniteSet(Newer(r)) /\ Cardinality(Newer(r)) \in Nat /\ Cardinality(Newer(r)) >= Skip
    <3>1. Newer(r) \subseteq Rows
      BY <1>2 DEF Newer
    <3> QED  BY <1>6, <1>10, <3>1, RowsFinite
  <2>4. r \notin A
    <3> SUFFICES ASSUME r \in A PROVE FALSE
      OBVIOUS
    <3>1. Newer(r) \subseteq A \ {r}
      BY <1>1, <2>1, <2>2 DEF Newer, MayComeFirst
    <3>2. IsFiniteSet(A \ {r}) /\ Cardinality(A \ {r}) = Cardinality(A) - 1
      BY <1>3, FS_RemoveElement
    <3>3. Cardinality(Newer(r)) <= Cardinality(A) - 1
      BY <3>1, <3>2, FS_Subset
    <3>4. Cardinality(A) <= Skip
      BY <1>1, <1>2 DEF Least
    <3> QED  BY <1>2, <1>4, <2>3, <3>3, <3>4
  <2>5. A \cup rows' \subseteq Newer(r)
    <3>1. ASSUME NEW a \in A \cup rows'
          PROVE  time[a] > time[r]
      <4>1. a \in Matching /\ a # r /\ r \in Matching \ (A \cup rows')
        BY <1>1, <1>10, <2>1, <2>4
      <4>2. time[a] >= time[r]
        BY <1>1, <4>1 DEF MayComeFirst
      <4>3. time[a] # time[r]
        BY <1>10, <4>1 DEF NoTies
      <4> QED  BY <2>1, <2>2, <4>1, <4>2, <4>3
    <3> QED  BY <1>1, <3>1 DEF Newer
  <2>6. Cardinality(A \cup rows') <= Cardinality(Newer(r))
    BY <2>3, <2>5, FS_Subset
  <2>7. CASE Skip + Limit <= Cardinality(Matching)
    BY <1>1, <1>2, <2>3, <2>6, <2>7 DEF Least
  <2>8. CASE ~ (Skip + Limit <= Cardinality(Matching))
    <3>1. Cardinality(A \cup rows') = Cardinality(Matching)
      BY <1>1, <1>2, <2>8 DEF Least
    <3>2. A \cup rows' = Matching
      BY <1>1, <1>2, <3>1, FS_Subset
    <3> QED  BY <1>10, <2>1, <2>4, <3>2
  <2> QED  BY <2>7, <2>8
<1> QED  BY <1>1, <1>7, <1>8, <1>9, <1>10

\* findMany and count.
LEMMA TradeQueries ==
    ASSUME IInv, TypeOK', FindMany \/ Count
    PROVE  TradeInv' /\ DoneInv'
<1> USE DEF filterVars, tableVars
<1>0. /\ TypeOK /\ TradeInv /\ walk = "page" /\ walk' = walk /\ route = "trades"
      /\ UNCHANGED <<filterVars, tableVars, page, seen, steady>>
  BY DEF IInv, FindMany, Count
<1>1. /\ Matching' = Matching /\ Seen' = Seen /\ Repeats' = Repeats /\ Skip' = Skip
      /\ (NoTies' <=> NoTies) /\ \A r \in Rows : Newer(r)' = Newer(r)
  <2>1. Matching' = Matching
    BY <1>0, MatchingSame
  <2> QED  BY <1>0, <2>1 DEF Seen, Repeats, Skip, NoTies, Newer
<1>2. DoneInv'
  BY <1>0 DEF DoneInv
<1>3. CASE FindMany
  <2>1. rows' \subseteq Rows /\ rows' # {Pending} /\ total' = total
    <3>1. rows' \subseteq Matching /\ total' = total
      BY <1>3, TradePage DEF FindMany
    <3>2. rows' \subseteq Rows
      BY <1>0, <3>1, MatchingType
    <3>3. Pending \notin Rows
      BY ConstantsAssumption DEF Pending
    <3> QED  BY <3>1, <3>2, <3>3
  <2>2. InHand' = rows' /\ Room' = Skip + Limit
    BY <1>1, <2>1 DEF InHand, Room
  <2>3. /\ Cardinality(Seen') + Cardinality(Repeats') + Cardinality(InHand') <= Room'
        /\ Cardinality(Seen') + Cardinality(Repeats') + Cardinality(InHand') <= Cardinality(Matching')
        /\ Cardinality(InHand') <= Limit
    BY <1>1, <1>3, <2>2, TradePage
  <2>4. NoTies' => \A r \in steady' \ (Seen' \cup InHand') : Cardinality(Newer(r)') >= Room'
    <3>1. steady' = steady /\ steady \subseteq Rows
      BY <1>0, MatchingType
    <3>2. NoTies => \A r \in steady \ (Seen \cup rows') : Cardinality(Newer(r)) >= Skip + Limit
      BY <1>3, TradePage
    <3> QED  BY <1>1, <2>2, <3>1, <3>2
  <2> QED  BY <1>0, <1>2, <2>1, <2>3, <2>4 DEF TradeInv
<1>4. CASE Count
  <2>1. rows' = rows /\ total' = Cardinality(Matching)
    BY <1>4 DEF Count
  <2>2. InHand' = InHand /\ Room' = Room
    BY <1>1, <2>1 DEF InHand, Room
  <2>3. Cardinality(steady) <= Cardinality(Matching) /\ Cardinality(steady) \in Nat
        /\ Cardinality(Matching) \in Nat
    BY <1>0, MatchingType, FS_Subset DEF TypeOK
  <2>4. total' >= Cardinality(steady')
    BY <1>0, <2>1, <2>3
  <2>5. NoTies' => \A r \in steady' \ (Seen' \cup InHand') : Cardinality(Newer(r)') >= Room'
    <3>1. steady' = steady /\ steady \subseteq Rows
      BY <1>0, MatchingType
    <3> QED  BY <1>0, <1>1, <2>2, <3>1 DEF TradeInv
  <2> QED  BY <1>0, <1>1, <1>2, <2>2, <2>4, <2>5 DEF TradeInv
<1> QED  BY <1>3, <1>4

\* A page is shown: what it shows again was seen, and the rest is seen now.
LEMMA ShownCounts ==
    ASSUME TypeOK, rows \subseteq Rows, seen' = Shown(rows)
    PROVE  /\ Seen' = Seen \cup rows
           /\ IsFiniteSet(Seen') /\ IsFiniteSet(Repeats')
           /\ Cardinality(Seen') \in Nat /\ Cardinality(Repeats') \in Nat
           /\ Cardinality(Seen') + Cardinality(Repeats')
                 <= Cardinality(Seen) + Cardinality(Repeats) + Cardinality(rows)
<1>1. \A r \in Rows : seen[r] \in Nat /\ seen'[r] = IF r \in rows THEN seen[r] + 1 ELSE seen[r]
  BY ShownType DEF TypeOK
<1>2. Seen' = Seen \cup rows
  BY <1>1 DEF Seen
<1>3. Repeats' \subseteq Repeats \cup (Seen \cap rows)
  BY <1>1 DEF Seen, Repeats
<1>4. /\ IsFiniteSet(Seen) /\ IsFiniteSet(Repeats) /\ Cardinality(Seen) \in Nat
      /\ Cardinality(Repeats) \in Nat /\ IsFiniteSet(rows) /\ Cardinality(rows) \in Nat
  BY TradeSets, RowsFinite
<1>5. /\ IsFiniteSet(Seen \cup rows) /\ IsFiniteSet(Seen \cap rows)
      /\ Cardinality(Seen \cup rows)
            = Cardinality(Seen) + Cardinality(rows) - Cardinality(Seen \cap rows)
  BY <1>4, FS_Union, FS_Intersection
<1>6. /\ Cardinality(Seen \cup rows) \in Nat /\ Cardinality(Seen \cap rows) \in Nat
  BY <1>5, FS_CardinalityType
<1>7. /\ Cardinality(Repeats') \in Nat
      /\ Cardinality(Repeats') <= Cardinality(Repeats) + Cardinality(Seen \cap rows)
  BY <1>3, <1>4, <1>5, UnionBound
<1>8. IsFiniteSet(Repeats')
  <2>1. Repeats' \subseteq Rows
    BY DEF Repeats
  <2> QED  BY <2>1, RowsFinite
<1>9. Cardinality(Seen') = Cardinality(Seen \cup rows) /\ IsFiniteSet(Seen')
  BY <1>2, <1>5
<1> QED  BY <1>2, <1>4, <1>5, <1>6, <1>7, <1>8, <1>9

\* The answer.
LEMMA TradeAnswer ==
    ASSUME IInv, TypeOK', Respond
    PROVE  TradeInv' /\ DoneInv'
<1> USE DEF filterVars, tableVars
<1>0. /\ TypeOK /\ TradeInv /\ OrderInv /\ walk = "page" /\ rows # {Pending} /\ total # Pending
      /\ UNCHANGED <<filterVars, tableVars, steady>>
      /\ seen' = Shown(rows) /\ rows' = {Pending} /\ total' = Pending
      /\ \/ hasNext /\ walk' = "page" /\ page' = page + 1
         \/ ~ hasNext /\ walk' = "done" /\ page' = page
  BY DEF IInv, Respond
<1>1. route = "trades" /\ route' = route /\ rows \subseteq Rows
  BY <1>0 DEF OrderInv, TypeOK
<1>2. /\ InHand = rows /\ Room = Skip + Limit /\ InHand' = {}
  BY <1>0 DEF InHand, Room
<1>3. /\ Matching' = Matching /\ (NoTies' <=> NoTies) /\ \A r \in Rows : Newer(r)' = Newer(r)
  <2>1. Matching' = Matching
    BY <1>0, MatchingSame
  <2> QED  BY <1>0, <2>1 DEF NoTies, Newer
<1>4. /\ Seen' = Seen \cup rows
      /\ IsFiniteSet(Seen') /\ IsFiniteSet(Repeats')
      /\ Cardinality(Seen') \in Nat /\ Cardinality(Repeats') \in Nat
      /\ Cardinality(Seen') + Cardinality(Repeats')
            <= Cardinality(Seen) + Cardinality(Repeats) + Cardinality(rows)
  BY <1>0, <1>1, ShownCounts
<1>5. /\ Cardinality(Matching) \in Nat /\ Skip \in Nat /\ Room \in Nat /\ Limit \in Nat
      /\ Cardinality(Seen) \in Nat /\ Cardinality(Repeats) \in Nat /\ Cardinality(rows) \in Nat
      /\ Cardinality(steady) \in Nat
  BY <1>0, <1>1, MatchingType, TradeSets, RowsFinite, ConstantsAssumption
<1>6. /\ Cardinality(Seen') + Cardinality(Repeats') <= Room
      /\ Cardinality(Seen') + Cardinality(Repeats') <= Cardinality(Matching)
      /\ Cardinality(rows) <= Limit
      /\ NoTies => \A r \in steady \ Seen' : Cardinality(Newer(r)) >= Room
  BY <1>0, <1>1, <1>2, <1>4, <1>5 DEF TradeInv
<1>7. CASE hasNext /\ walk' = "page" /\ page' = page + 1
  <2>1. Skip' = Room
    <3>1. page \in Int /\ Limit \in Int
      BY <1>0, <1>5 DEF TypeOK
    <3>2. page * Limit = (page - 1) * Limit + Limit
      BY <3>1
    <3>3. Skip' = page * Limit
      BY <1>7, <3>1 DEF Skip
    <3> QED  BY <1>2, <3>2, <3>3 DEF Skip
  <2>2. Room' = Room
    BY <1>0, <2>1 DEF Room
  <2>3. Cardinality(InHand') = 0
    BY <1>2, FS_EmptySet
  <2>4. /\ Cardinality(Seen') + Cardinality(Repeats') + Cardinality(InHand') <= Room'
        /\ Cardinality(Seen') + Cardinality(Repeats') + Cardinality(InHand') <= Cardinality(Matching')
        /\ Cardinality(InHand') <= Limit
    BY <1>3, <1>4, <1>5, <1>6, <2>2, <2>3
  <2>5. NoTies' => \A r \in steady' \ (Seen' \cup InHand') : Cardinality(Newer(r)') >= Room'
    <3>1. steady' = steady /\ steady \subseteq Rows
      BY <1>0, MatchingType
    <3> QED  BY <1>2, <1>3, <1>6, <2>2, <3>1
  <2>6. TradeInv'
    BY <1>0, <2>4, <2>5 DEF TradeInv
  <2> QED  BY <1>7, <2>6 DEF DoneInv
<1>8. CASE ~ hasNext /\ walk' = "done" /\ page' = page
  <2>1. TradeInv'
    BY <1>0, <1>8 DEF TradeInv
  <2>2. ASSUME NoTies
        PROVE  /\ Cardinality(Repeats') <= Cardinality(Matching \ steady)
               /\ Cardinality(steady \ Seen') <= Cardinality(Matching \ steady)
    <3>1. total \in Nat /\ total >= Cardinality(steady)
      BY <1>0, <1>1 DEF TradeInv, TypeOK
    <3>2. Skip + Cardinality(rows) >= total
      BY <1>5, <1>8, <3>1 DEF hasNext
    <3>3. Cardinality(steady) <= Room
      BY <1>2, <1>5, <1>6, <3>1, <3>2
    <3>4. \A r \in steady \ Seen' : Cardinality(Newer(r)) >= Room
      BY <1>6, <2>2
    <3>5. PICK S, R : S = Seen' /\ R = Repeats'
      OBVIOUS
    <3>6. /\ IsFiniteSet(S) /\ IsFiniteSet(R)
          /\ Cardinality(S) + Cardinality(R) <= Room
          /\ Cardinality(S) + Cardinality(R) <= Cardinality(Matching)
          /\ \A r \in steady \ S : Cardinality(Newer(r)) >= Room
      BY <1>4, <1>6, <3>4, <3>5
    <3>7. /\ Cardinality(R) <= Cardinality(Matching \ steady)
          /\ Cardinality(steady \ S) <= Cardinality(Matching \ steady)
      BY <1>0, <1>5, <3>3, <3>6, ErrorsBounded
    <3> QED  BY <3>5, <3>7
  <2>3. Inserted' = Matching \ steady /\ Missed' = steady \ Seen'
    <3>1. \A r \in Rows : seen'[r] \in Nat
      BY DEF TypeOK
    <3>2. steady' = steady /\ steady \subseteq Rows
      BY <1>0, MatchingType
    <3>3. Inserted' = Matching \ steady
      BY <1>3, <3>2 DEF Inserted
    <3>4. Missed' = steady \ Seen'
      BY <3>1, <3>2 DEF Missed, Seen
    <3> QED  BY <3>3, <3>4
  <2>4. DoneInv'
    BY <1>3, <2>2, <2>3 DEF DoneInv, TradeWalkErrorsNeedInserts
  <2> QED  BY <2>1, <2>4
<1> QED  BY <1>0, <1>7, <1>8

\* Every step.
LEMMA TradeStep ==
    ASSUME IInv, [Next]_vars
    PROVE  TradeInv' /\ DoneInv'
<1> USE DEF filterVars, tableVars
<1>0. TypeOK /\ TypeOK' /\ TradeInv /\ DoneInv /\ IdleInv /\ route' = route
  BY TypeStep DEF IInv, Next, Insert, Fill, WalkStart, GetUserOrders, FindMany, Count, Respond,
                  Quiescent, vars
<1>1. CASE route # "trades"
  BY <1>0, <1>1 DEF TradeInv, DoneInv, TradeWalkErrorsNeedInserts
<1>2. CASE route = "trades"
  <2>1. CASE Insert
    BY <1>0, <1>2, <2>1, TradeInsert
  <2>2. CASE Fill \/ GetUserOrders
    BY <1>2, <2>2 DEF Fill, GetUserOrders
  <2>3. CASE WalkStart
    <3>1. /\ seen = [r \in Rows |-> 0] /\ seen' = seen /\ page = 1 /\ page' = page
          /\ rows' = {Pending} /\ total' = Pending /\ walk' = "page" /\ wanted' = wanted
      BY <1>0, <1>2, <2>3 DEF WalkStart, IdleInv
    <3>2. Seen' = {} /\ Repeats' = {} /\ InHand' = {} /\ Skip' = 0 /\ Room' = 0
      <4>1. 0 * Limit = 0
        BY ConstantsAssumption
      <4>2. Skip' = 0
        BY <3>1, <4>1 DEF Skip
      <4>3. Seen' = {} /\ Repeats' = {}
        BY <3>1 DEF Seen, Repeats
      <4> QED  BY <3>1, <4>2, <4>3 DEF InHand, Room
    <3>3. Matching' \subseteq Rows
      BY <1>0 DEF Matching, TypeOK
    <3>4. Cardinality(Matching') \in Nat /\ Limit \in Nat
      BY <3>3, RowsFinite, ConstantsAssumption
    <3>5. /\ Cardinality(Seen') + Cardinality(Repeats') + Cardinality(InHand') <= Room'
          /\ Cardinality(Seen') + Cardinality(Repeats') + Cardinality(InHand') <= Cardinality(Matching')
          /\ Cardinality(InHand') <= Limit
      BY <3>2, <3>4, FS_EmptySet
    <3>6. ASSUME NEW r \in Rows PROVE Cardinality(Newer(r)') >= Room'
      <4>1. Newer(r)' \subseteq Rows
        BY <3>3 DEF Newer
      <4>2. Cardinality(Newer(r)') \in Nat
        BY <4>1, RowsFinite
      <4> QED  BY <3>2, <4>2
    <3>7. steady' \subseteq Rows
      BY <1>0, <3>3 DEF TypeOK
    <3>8. wanted' = Statuses
      BY <1>0, <1>2, <3>1 DEF TradeInv
    <3> QED  BY <3>1, <3>5, <3>6, <3>7, <3>8 DEF TradeInv, DoneInv
  <2>4. CASE FindMany \/ Count
    BY <1>0, <2>4, TradeQueries
  <2>5. CASE Respond
    BY <1>0, <2>5, TradeAnswer
  <2>6. CASE Quiescent \/ UNCHANGED vars
    <3>1. UNCHANGED vars
      BY <2>6 DEF Quiescent
    <3>2. /\ Matching' = Matching /\ Seen' = Seen /\ Repeats' = Repeats /\ Skip' = Skip
          /\ InHand' = InHand /\ Room' = Room /\ (NoTies' <=> NoTies)
          /\ \A r \in Rows : Newer(r)' = Newer(r)
      BY <3>1 DEF vars, Matching, Seen, Repeats, Skip, InHand, Room, NoTies, Newer
    <3>3. Inserted' = Inserted /\ Missed' = Missed
      BY <3>1, <3>2 DEF vars, Inserted, Missed
    <3>4. DoneInv'
      BY <1>0, <3>1, <3>2, <3>3 DEF vars, DoneInv, TradeWalkErrorsNeedInserts
    <3>5. steady \subseteq Rows
      BY <1>0, MatchingType
    <3>6. TradeInv'
      BY <1>0, <3>1, <3>2, <3>5 DEF vars, TradeInv
    <3> QED  BY <3>4, <3>6
  <2> QED  BY <2>1, <2>2, <2>3, <2>4, <2>5, <2>6 DEF Next
<1> QED  BY <1>1, <1>2

-----------------------------------------------------------------------------
(* Theorems *)

\* The inductive invariant holds in every reachable state.
THEOREM InductiveInvariant == Spec => []IInv
<1>1. ASSUME IInv, [Next]_vars PROVE IInv'
  BY <1>1, TypeStep, IdleStep, OrderStep, TradeStep DEF IInv
<1> QED  BY InitInv, <1>1, PTL DEF Spec

\* However many orders a wallet has, whatever the page size and whatever is
\* inserted or filled meanwhile, the cursor of GET /orders/user/:address shows
\* every steady order exactly once.
THEOREM CursorPagingIsExact == Spec => []OrderWalkExact
<1>1. IInv => OrderWalkExact
  BY DEF IInv, OrderInv, OrderWalkExact
<1> QED  BY InductiveInvariant, <1>1, PTL

\* The offsets of GET /trades/user/:address repeat or miss at most one trade
\* for every trade inserted during the walk.
THEOREM OffsetErrorsNeedInserts == Spec => []TradeWalkErrorsNeedInserts
<1>1. IInv => TradeWalkErrorsNeedInserts
  BY PageErrors DEF IInv
<1> QED  BY InductiveInvariant, <1>1, PTL
=============================================================================
