--------------------------- MODULE FloodGuard_proofs ---------------------------
(***************************************************************************)
(* Proofs about FloodGuard, for any types, limits and number of events:    *)
(* its types; that the latest state of a type is never dropped; that every *)
(* event is counted once; and that a day's events exceed their share by    *)
(* one burst at most.                                                      *)
(*                                                                         *)
(* The invariant behind the latest state: a held event is the last of its  *)
(* type, and where none is held the last row of the type says what the     *)
(* last event did.  The guard compares an event with the row it remembers, *)
(* so that row has to be the last of its type too.                         *)
(*                                                                         *)
(* The count rests on the same: two types never remember the same row, so  *)
(* a count written for one type overwrites no other's.                     *)
(***************************************************************************)
EXTENDS FloodGuard, SequenceTheorems, FiniteSetTheorems, WellFoundedInduction, TLAPS

RowType(D) == [event : D, repeats : Nat]
NewestType(n) == [row : 0 .. n, repeats : Nat, unwritten : BOOLEAN, fresh : BOOLEAN]

-----------------------------------------------------------------------------
(* The operators of the model.                                             *)

LEMMA MaxIs ==
  ASSUME NEW n \in Nat, NEW S \in SUBSET (0 .. n), S # {}
  PROVE  Max(S) \in S /\ \A y \in S : Max(S) >= y
<1> DEFINE T == {d \in 0 .. n : n - d \in S}
<1>1. T # {}
  <2>1. PICK x \in S : TRUE
    OBVIOUS
  <2>2. n - x \in 0 .. n /\ n - (n - x) = x
    BY <2>1
  <2> QED
    BY <2>1, <2>2
<1>2. PICK d \in T : \A y \in T : ~ (<<y, d>> \in {ss \in Nat \X Nat : ss[1] < ss[2]})
  <2>1. T \subseteq Nat
    OBVIOUS
  <2>2. IsWellFoundedOn({ss \in Nat \X Nat : ss[1] < ss[2]}, Nat)
    BY NatLessThanWellFounded DEF OpToRel
  <2> HIDE DEF T
  <2> QED
    BY <1>1, <2>1, <2>2, WFMin
<1>3. \A y \in T : y >= d
  <2> SUFFICES ASSUME NEW y \in T PROVE y >= d
    OBVIOUS
  <2>1. y \in Nat /\ d \in Nat
    OBVIOUS
  <2>2. ~ (<<y, d>> \in {ss \in Nat \X Nat : ss[1] < ss[2]})
    <3> HIDE DEF T
    <3> QED
      BY <1>2
  <2>3. <<y, d>> \in Nat \X Nat /\ <<y, d>>[1] = y /\ <<y, d>>[2] = d
    BY <2>1
  <2> HIDE DEF T
  <2>4. ~ (<<y, d>>[1] < <<y, d>>[2])
    BY <2>2, <2>3
  <2> QED
    BY <2>1, <2>3, <2>4
<1>4. \A y \in S : n - d >= y
  <2> SUFFICES ASSUME NEW y \in S PROVE n - d >= y
    OBVIOUS
  <2>1. n - y \in T
    <3>1. n - y \in 0 .. n /\ n - (n - y) = y
      OBVIOUS
    <3> QED
      BY <3>1
  <2> QED
    <3>1. n - y >= d
      <4> HIDE DEF T
      <4> QED
        BY <1>3, <2>1
    <3> QED
      BY <3>1, <1>2
<1>5. \E x \in S : \A y \in S : x >= y
  BY <1>2, <1>4
<1> QED
  BY <1>5 DEF Max

LEMMA MaxOfTwo ==
  ASSUME NEW a \in Int, NEW b \in Int
  PROVE  Max({a, b}) = IF b > a THEN b ELSE a
<1> DEFINE top == IF b > a THEN b ELSE a
<1>1. top \in {a, b} /\ \A y \in {a, b} : top >= y
  OBVIOUS
<1>2. \A x \in {a, b} : (\A y \in {a, b} : x >= y) => x = top
  OBVIOUS
<1> HIDE DEF top
<1> QED
  BY <1>1, <1>2 DEF Max

\* A set's elements, each once.
LEMMA Enumerated ==
  ASSUME NEW E, IsFiniteSet(E)
  PROVE  /\ Cardinality(E) \in Nat
         /\ SetToSeq(E) \in [1 .. Cardinality(E) -> E]
         /\ \A e \in E : \E i \in 1 .. Cardinality(E) : SetToSeq(E)[i] = e
         /\ \A i, j \in 1 .. Cardinality(E) : SetToSeq(E)[i] = SetToSeq(E)[j] => i = j
<1> DEFINE n == Cardinality(E)
           f == SetToSeq(E)
<1>1. n \in Nat /\ \E g \in [1 .. n -> E] : IsInjective(g)
  BY FS_CardinalityType DEF ExistsBijection, Bijection, Injection
<1>2. f \in [1 .. n -> E] /\ IsInjective(f)
  BY <1>1 DEF SetToSeq
<1>3. f \in Injection(1 .. n, E)
  BY <1>2 DEF Injection
<1>4. Cardinality(1 .. n) = n
  BY <1>1, FS_Interval
<1>5. f \in Surjection(1 .. n, E)
  <2> HIDE DEF n, f
  <2> QED
    BY <1>3, <1>4, FS_Injection DEF n
<1> QED
  BY <1>1, <1>2, <1>5 DEF IsInjective, Surjection

\* The elements of E have become rows behind those of t.
Added(D, t, E) ==
  /\ WithRows(t, E) \in Seq(RowType(D))
  /\ Cardinality(E) \in Nat
  /\ Len(WithRows(t, E)) = Len(t) + Cardinality(E)
  /\ \A i \in 1 .. Len(t) : WithRows(t, E)[i] = t[i]
  /\ \A i \in Len(t) + 1 .. Len(t) + Cardinality(E) : WithRows(t, E)[i].event \in E
  /\ \A e \in E : \E i \in Len(t) + 1 .. Len(t) + Cardinality(E) : WithRows(t, E)[i].event = e

LEMMA RowsAdded ==
  ASSUME NEW D, NEW t \in Seq(RowType(D)), NEW E \in SUBSET D, IsFiniteSet(E)
  PROVE  Added(D, t, E)
<1> DEFINE n == Cardinality(E)
           f == SetToSeq(E)
           row(i) == [event |-> f[i], repeats |-> 1]
           new == [i \in 1 .. n |-> row(i)]
<1>1. /\ n \in Nat /\ f \in [1 .. n -> E]
      /\ \A e \in E : \E i \in 1 .. n : f[i] = e
  BY Enumerated
<1>2. \A i \in 1 .. n : row(i) \in RowType(D) /\ row(i).event = f[i]
  BY <1>1 DEF RowType
<1>3. /\ new \in Seq(RowType(D)) /\ Len(new) = n
      /\ \A i \in 1 .. n : new[i] = row(i)
  <2> HIDE DEF n, f, row
  <2>1. new \in [1 .. n -> RowType(D)]
    BY <1>2
  <2> QED
    BY <1>1, <2>1
<1>4. WithRows(t, E) = t \o new
  BY DEF WithRows
<1>5. /\ t \o new \in Seq(RowType(D)) /\ Len(t) \in Nat
      /\ Len(t \o new) = Len(t) + n
      /\ \A i \in 1 .. Len(t) + n : (t \o new)[i] = IF i <= Len(t) THEN t[i] ELSE new[i - Len(t)]
  <2> HIDE DEF n, new
  <2> QED
    BY <1>3, ConcatProperties, LenProperties
<1>6. \A i \in 1 .. Len(t) : i \in 1 .. Len(t) + n /\ i <= Len(t)
  BY <1>1, <1>5
<1>7. \A i \in Len(t) + 1 .. Len(t) + n :
        i \in 1 .. Len(t) + n /\ ~ (i <= Len(t)) /\ i - Len(t) \in 1 .. n
  BY <1>1, <1>5
<1>8. \A i \in 1 .. n : Len(t) + i \in Len(t) + 1 .. Len(t) + n /\ (Len(t) + i) - Len(t) = i
  BY <1>1, <1>5
<1>9. \A i \in Len(t) + 1 .. Len(t) + n : (t \o new)[i].event = f[i - Len(t)]
  <2> HIDE DEF n, f, row, new
  <2> QED
    BY <1>2, <1>3, <1>5, <1>7
<1>10. \A i \in Len(t) + 1 .. Len(t) + n : (t \o new)[i].event \in E
  <2> HIDE DEF n, f, row, new
  <2> QED
    BY <1>1, <1>7, <1>9
<1>11. \A e \in E : \E i \in Len(t) + 1 .. Len(t) + n : (t \o new)[i].event = e
  <2> SUFFICES ASSUME NEW e \in E
               PROVE  \E i \in Len(t) + 1 .. Len(t) + n : (t \o new)[i].event = e
    OBVIOUS
  <2>1. PICK j \in 1 .. n : f[j] = e
    BY <1>1
  <2> HIDE DEF n, f, row, new
  <2>2. Len(t) + j \in Len(t) + 1 .. Len(t) + n /\ (t \o new)[Len(t) + j].event = f[j]
    <3>1. Len(t) + j \in Len(t) + 1 .. Len(t) + n /\ (Len(t) + j) - Len(t) = j
      BY <1>8
    <3>2. (t \o new)[Len(t) + j].event = f[(Len(t) + j) - Len(t)]
      BY <1>9, <3>1
    <3> QED
      BY <3>1, <3>2
  <2> QED
    BY <2>1, <2>2
<1>12. \A i \in 1 .. Len(t) : (t \o new)[i] = t[i]
  <2> HIDE DEF n, new
  <2> QED
    BY <1>5, <1>6
<1> HIDE DEF n, f, new
<1> QED
  BY <1>1, <1>4, <1>5, <1>10, <1>11, <1>12 DEF n, Added

LEMMA CountsWritten ==
  ASSUME NEW D, store \in Seq(RowType(D)), NEW K \in SUBSET Kind, NEW newest,
         \A k \in K : newest[k].repeats \in Nat
  PROVE  /\ Written(K, newest) \in Seq(RowType(D))
         /\ Len(Written(K, newest)) = Len(store)
         /\ \A i \in DOMAIN store : Written(K, newest)[i].event = store[i].event
<1> DEFINE mine(i) == {k \in K : newest[k].row = i /\ i > floor}
           count(i) == IF mine(i) = {} THEN store[i].repeats
                       ELSE newest[CHOOSE k \in mine(i) : TRUE].repeats
           row(i) == [store[i] EXCEPT !.repeats = count(i)]
<1>1. Len(store) \in Nat /\ DOMAIN store = 1 .. Len(store)
      /\ \A i \in DOMAIN store : store[i] \in RowType(D)
  BY LenProperties
<1>2. \A i \in DOMAIN store : count(i) \in Nat
  <2> SUFFICES ASSUME NEW i \in DOMAIN store PROVE count(i) \in Nat
    OBVIOUS
  <2>1. CASE mine(i) = {}
    BY <1>1, <2>1 DEF RowType
  <2>2. CASE mine(i) # {}
    <3>1. (CHOOSE k \in mine(i) : TRUE) \in K
      BY <2>2
    <3> QED
      BY <2>2, <3>1
  <2> QED
    BY <2>1, <2>2
<1>3. \A i \in DOMAIN store : row(i) \in RowType(D) /\ row(i).event = store[i].event
  <2> HIDE DEF count
  <2> QED
    BY <1>1, <1>2 DEF RowType
<1>4. Written(K, newest) = [i \in DOMAIN store |-> row(i)]
  BY DEF Written
<1> HIDE DEF row
<1>5. [i \in DOMAIN store |-> row(i)] \in [1 .. Len(store) -> RowType(D)]
  BY <1>1, <1>3
<1> QED
  BY <1>1, <1>3, <1>4, <1>5

-----------------------------------------------------------------------------
(* What the steps do, for the types and the order of rows and events.      *)

NewRows(t, E) == Len(t) + 1 .. Len(t) + Cardinality(E)

LEMMA NewestFound ==
  ASSUME NEW D, NEW t \in Seq(RowType(D)), NEW E \in SUBSET D, IsFiniteSet(E),
         NEW newest, NEW l, NEW k \in Kind, NEW e \in E, l[e].kind = k
  PROVE  LET new == WithNewest(newest, t, E, l)[k] IN
         /\ new \in NewestType(Len(t) + Cardinality(E))
         /\ new.row \in NewRows(t, E) /\ l[WithRows(t, E)[new.row].event].kind = k
         /\ \A j \in NewRows(t, E) : l[WithRows(t, E)[j].event].kind = k => j <= new.row
<1> DEFINE mine == {i \in NewRows(t, E) : l[WithRows(t, E)[i].event].kind = k}
           found == [row |-> Max(mine), repeats |-> 1, unwritten |-> FALSE, fresh |-> TRUE]
<1>1. WithNewest(newest, t, E, l)[k] = IF mine = {} THEN newest[k] ELSE found
  BY DEF WithNewest, NewRows
<1>2. \E i \in NewRows(t, E) : WithRows(t, E)[i].event = e
  BY RowsAdded DEF NewRows, Added
<1>7. Len(t) \in Nat /\ Cardinality(E) \in Nat
  BY RowsAdded, LenProperties DEF Added
<1>3. mine # {}
  BY <1>2
<1>4. mine # {} => Max(mine) \in mine /\ \A j \in mine : Max(mine) >= j
  <2>1. mine \subseteq 0 .. Len(t) + Cardinality(E) /\ Len(t) + Cardinality(E) \in Nat
    BY <1>7 DEF NewRows
  <2> HIDE DEF mine
  <2> QED
    BY <2>1, MaxIs
<1>5. ASSUME mine # {}
      PROVE  /\ Max(mine) \in NewRows(t, E)
             /\ l[WithRows(t, E)[Max(mine)].event].kind = k
             /\ \A j \in NewRows(t, E) : l[WithRows(t, E)[j].event].kind = k => j <= Max(mine)
  <2>1. Max(mine) \in mine /\ \A j \in mine : Max(mine) >= j
    BY <1>4, <1>5
  <2>2. Max(mine) \in NewRows(t, E) /\ l[WithRows(t, E)[Max(mine)].event].kind = k
    BY <2>1
  <2>3. ASSUME NEW j \in NewRows(t, E), l[WithRows(t, E)[j].event].kind = k
        PROVE  j <= Max(mine)
    <3>1. j \in mine
      BY <2>3
    <3>0. NewRows(t, E) \subseteq Int
      BY <1>7 DEF NewRows
    <3> HIDE DEF mine
    <3>2. j \in Int /\ Max(mine) \in Int
      BY <2>2, <3>0
    <3>3. Max(mine) >= j
      BY <2>1, <3>1
    <3> QED
      BY <3>2, <3>3
  <2> QED
    BY <2>2, <2>3
<1>6. found \in NewestType(Len(t) + Cardinality(E)) /\ found.row = Max(mine)
  <2>0. NewRows(t, E) \subseteq 0 .. Len(t) + Cardinality(E)
    BY <1>7 DEF NewRows
  <2> HIDE DEF mine
  <2>1. Max(mine) \in 0 .. Len(t) + Cardinality(E)
    BY <1>3, <1>5, <2>0
  <2> QED
    BY <2>1 DEF NewestType
<1> HIDE DEF mine
<1>8. WithNewest(newest, t, E, l)[k] = found
  BY <1>1, <1>3
<1> HIDE DEF found
<1> QED
  BY <1>3, <1>5, <1>6, <1>8

LEMMA NewestStays ==
  ASSUME NEW D, NEW t \in Seq(RowType(D)), NEW E \in SUBSET D, IsFiniteSet(E),
         NEW newest, NEW l, NEW k \in Kind, \A e \in E : l[e].kind # k
  PROVE  WithNewest(newest, t, E, l)[k] = newest[k]
<1>1. \A i \in NewRows(t, E) : WithRows(t, E)[i].event \in E
  BY RowsAdded DEF NewRows, Added
<1> QED
  BY <1>1 DEF WithNewest, NewRows

LEMMA NewestTyped ==
  ASSUME NEW D, NEW t \in Seq(RowType(D)), NEW E \in SUBSET D, IsFiniteSet(E), NEW l,
         NEW newest \in [Kind -> NewestType(Len(t))]
  PROVE  WithNewest(newest, t, E, l) \in [Kind -> NewestType(Len(t) + Cardinality(E))]
<1>1. Len(t) \in Nat /\ Cardinality(E) \in Nat
  BY FS_CardinalityType, LenProperties
<1>2. ASSUME NEW k \in Kind
      PROVE  WithNewest(newest, t, E, l)[k] \in NewestType(Len(t) + Cardinality(E))
  <2>1. CASE \A e \in E : l[e].kind # k
    <3>1. WithNewest(newest, t, E, l)[k] = newest[k]
      BY <2>1, NewestStays
    <3> QED
      BY <1>1, <3>1 DEF NewestType
  <2>2. CASE \E e \in E : l[e].kind = k
    <3> PICK e \in E : l[e].kind = k
      BY <2>2
    <3> QED
      BY NewestFound
  <2> QED
    BY <2>1, <2>2
<1>3. \E f : WithNewest(newest, t, E, l) = [k \in Kind |-> f[k]]
  <2> DEFINE g == [k \in Kind |-> WithNewest(newest, t, E, l)[k]]
  <2>1. WithNewest(newest, t, E, l) = [k \in Kind |-> g[k]]
    BY DEF WithNewest
  <2> QED
    BY <2>1
<1> QED
  BY <1>2, <1>3

LEMMA TypesAre ==
  ASSUME GuardAssumption, TypeOK
  PROVE  /\ Len(log) \in Nat /\ DOMAIN log = 1 .. Len(log)
         /\ Len(store) \in Nat /\ DOMAIN store = 1 .. Len(store)
         /\ store \in Seq(RowType(1 .. Len(log)))
         /\ latest \in [Kind -> NewestType(Len(store))]
         /\ \A i \in 1 .. Len(store) : store[i].event \in 1 .. Len(log)
         /\ \A i \in 1 .. Len(log) : log[i] \in Event /\ log[i].kind \in Kind
         /\ at \in 0 .. Len(log) /\ held \in [Kind -> 0 .. Len(log)]
         /\ Guard \in Nat \cup {Unguarded} /\ RowsToday \in Nat /\ RowsToday <= rows
<1>1. Len(log) \in Nat /\ DOMAIN log = 1 .. Len(log) /\ \A i \in 1 .. Len(log) : log[i] \in Event
  BY LenProperties DEF TypeOK
<1>2. store \in Seq(RowType(1 .. Len(log)))
  BY <1>1 DEF TypeOK, RowType
<1>3. /\ Len(store) \in Nat /\ DOMAIN store = 1 .. Len(store)
      /\ \A i \in 1 .. Len(store) : store[i] \in RowType(1 .. Len(log))
  BY <1>2, LenProperties
<1>4. \A i \in 1 .. Len(log) : log[i].kind \in Kind
  BY <1>1 DEF Event
<1>5. \A i \in 1 .. Len(store) : store[i].event \in 1 .. Len(log)
  BY <1>3 DEF RowType
<1>6. latest \in [Kind -> NewestType(Len(store))] /\ at \in 0 .. Len(log)
      /\ held \in [Kind -> 0 .. Len(log)]
  BY DEF TypeOK, NewestType
<1>7. Guard \in Nat \cup {Unguarded} /\ RowsToday \in Nat /\ RowsToday <= rows
  BY DEF TypeOK, Guard, RowsToday
<1> QED
  BY <1>1, <1>2, <1>3, <1>4, <1>5, <1>6, <1>7

\* A post's next event: one the producer has emitted, or the next it does.
LEMMA ArrivalIs ==
  ASSUME GuardAssumption, TypeOK, Arrives
  PROVE  /\ log' \in Seq(Event) /\ Len(log') \in Nat /\ DOMAIN log' = 1 .. Len(log')
         /\ at' = at + 1 /\ at' \in 1 .. Len(log') /\ Len(log) <= Len(log')
         /\ \A i \in 1 .. Len(log) : log'[i] = log[i]
         /\ at = Len(log) => Len(log') = at + 1
         /\ log'[at + 1].kind \in Kind
         /\ Ingest(at + 1) /\ acked' = acked /\ replays' = replays
<1>1. /\ Len(log) \in Nat /\ log \in Seq(Event) /\ at \in 0 .. Len(log)
  BY TypesAre DEF TypeOK
<1>2. /\ log' \in Seq(Event) /\ Len(log') \in Nat /\ at + 1 \in 1 .. Len(log')
      /\ Len(log) <= Len(log') /\ \A i \in 1 .. Len(log) : log'[i] = log[i]
      /\ at = Len(log) => Len(log') = at + 1
  <2>1. CASE at < Len(log) /\ log' = log
    BY <1>1, <2>1
  <2>2. CASE at = Len(log) /\ \E e \in Event : log' = Append(log, e)
    <3>1. PICK e \in Event : log' = Append(log, e)
      BY <2>2
    <3>2. /\ Append(log, e) \in Seq(Event) /\ Len(Append(log, e)) = Len(log) + 1
          /\ \A i \in 1 .. Len(log) : Append(log, e)[i] = log[i]
      BY <1>1, AppendProperties
    <3> QED
      BY <1>1, <2>2, <3>1, <3>2
  <2> QED
    BY <2>1, <2>2 DEF Arrives
<1>3. DOMAIN log' = 1 .. Len(log') /\ log'[at + 1] \in Event
  BY <1>2, LenProperties
<1> QED
  BY <1>2, <1>3 DEF Arrives, Event

\* Nothing but the log becomes longer, and with it what may be in a row.
LEMMA LongerLog ==
  ASSUME NEW m \in Nat, NEW n \in Nat, m <= n
  PROVE  /\ \A t \in Seq(RowType(1 .. m)) : t \in Seq(RowType(1 .. n))
         /\ [Kind -> 0 .. m] \subseteq [Kind -> 0 .. n]
<1>1. 1 .. m \subseteq 1 .. n /\ 0 .. m \subseteq 0 .. n
  OBVIOUS
<1>2. RowType(1 .. m) \subseteq RowType(1 .. n)
  BY <1>1 DEF RowType
<1>3. [Kind -> 0 .. m] \subseteq [Kind -> 0 .. n]
  BY <1>1
<1>4. ASSUME NEW t \in Seq(RowType(1 .. m)) PROVE t \in Seq(RowType(1 .. n))
  <2>1. Len(t) \in Nat /\ t \in [1 .. Len(t) -> RowType(1 .. m)]
    BY LenProperties
  <2>2. t \in [1 .. Len(t) -> RowType(1 .. n)]
    BY <1>2, <2>1
  <2> QED
    BY <2>1, <2>2
<1> QED
  BY <1>3, <1>4

LEMMA EpisodeTyped ==
  ASSUME GuardAssumption, TypeOK, NEW k \in Kind
  PROVE  Thinned(k) \in Nat \cup {Unguarded}
BY TypesAre DEF Thinned, Unguarded

\* An event counted onto the row that its type is remembered by.
LEMMA CountsIs ==
  ASSUME GuardAssumption, TypeOK, Arrives, Repeated(at + 1), Counts(at + 1)
  PROVE  LET k == log'[at + 1].kind IN
         /\ store' \in Seq(RowType(1 .. Len(log'))) /\ Len(store') = Len(store)
         /\ \A i \in 1 .. Len(store) : store'[i].event = store[i].event
         /\ latest' \in [Kind -> NewestType(Len(store))]
         /\ \A j \in Kind : latest'[j].row = latest[j].row
         /\ held' = [held EXCEPT ![k] = 0]
         /\ episode' \in Nat \cup {Unguarded} /\ rows' = RowsToday
         /\ latest[k].row \in 1 .. Len(store)
         /\ log'[at + 1].what = log'[store[latest[k].row].event].what
<1> DEFINE k == log'[at + 1].kind
           l == latest[k]
           new == [l EXCEPT !.repeats = @ + 1, !.unwritten = @ \/ Guard # Unguarded]
<1>1. /\ k \in Kind /\ Len(log) <= Len(log') /\ Len(log') \in Nat
  BY ArrivalIs
<1>2. /\ store \in Seq(RowType(1 .. Len(log))) /\ Len(store) \in Nat /\ Len(log) \in Nat
      /\ DOMAIN store = 1 .. Len(store) /\ latest \in [Kind -> NewestType(Len(store))]
  BY TypesAre
<1>3. l \in NewestType(Len(store))
  BY <1>1, <1>2
<1>4. latest' = [latest EXCEPT ![k] = new]
  BY <1>1, <1>2 DEF Counts
<1>5. new \in NewestType(Len(store)) /\ new.row = l.row
  <2> DEFINE unwritten == l.unwritten \/ Guard # Unguarded
             repeats == l.repeats + 1
  <2>1. unwritten \in BOOLEAN
    OBVIOUS
  <2>2. repeats \in Nat
    BY <1>3 DEF NewestType
  <2>3. new = [l EXCEPT !.repeats = repeats, !.unwritten = unwritten]
    OBVIOUS
  <2> HIDE DEF l, new, unwritten, repeats
  <2> QED
    BY <1>3, <2>1, <2>2, <2>3 DEF NewestType
<1>6. latest' \in [Kind -> NewestType(Len(store))] /\ \A j \in Kind : latest'[j].row = latest[j].row
  <2> HIDE DEF new, k
  <2> QED
    BY <1>1, <1>2, <1>4, <1>5 DEF l
<1>7. store \in Seq(RowType(1 .. Len(log')))
  BY <1>1, <1>2, LongerLog
<1>8. /\ store' \in Seq(RowType(1 .. Len(log'))) /\ Len(store') = Len(store)
      /\ \A i \in 1 .. Len(store) : store'[i].event = store[i].event
  <2>1. CASE Guard # Unguarded
    BY <1>7, <2>1 DEF Counts
  <2>2. CASE Guard = Unguarded
    <3>1. store' = Written({k}, latest')
      BY <2>2 DEF Counts
    <3>2. latest'[k].repeats \in Nat
      BY <1>1, <1>6 DEF NewestType
    <3> DEFINE newest == latest'
    <3>3. \A j \in {k} : newest[j].repeats \in Nat
      BY <3>2
    <3> HIDE DEF newest, k
    <3>4. /\ Written({k}, newest) \in Seq(RowType(1 .. Len(log')))
          /\ Len(Written({k}, newest)) = Len(store)
          /\ \A i \in DOMAIN store : Written({k}, newest)[i].event = store[i].event
      BY <1>1, <1>7, <3>3, CountsWritten, SMTT(30)
    <3> QED
      BY <1>2, <3>1, <3>4 DEF newest
  <2> QED
    BY <2>1, <2>2
<1>9. /\ l.row \in 1 .. Len(store)
      /\ log'[at + 1].what = log'[store[l.row].event].what
  <2>1. l.row # 0 /\ SameFact(log', at + 1, store[l.row].event, Guard # Unguarded)
    BY DEF Repeated
  <2>2. log'[at + 1].what = log'[store[l.row].event].what
    BY <2>1 DEF SameFact
  <2> HIDE DEF l
  <2> QED
    BY <1>2, <1>3, <2>1, <2>2 DEF NewestType
<1>10. /\ held' = [held EXCEPT ![k] = 0]
       /\ episode' \in Nat \cup {Unguarded} /\ rows' = RowsToday
  BY <1>1, EpisodeTyped DEF Counts
<1> QED
  BY <1>6, <1>8, <1>9, <1>10

\* What is added does not depend on the table it is added to.
LEMMA RowsSame ==
  ASSUME NEW D, NEW t \in Seq(RowType(D)), NEW u \in Seq(RowType(D)), Len(t) = Len(u),
         NEW E \in SUBSET D, IsFiniteSet(E)
  PROVE  \A i \in NewRows(t, E) : WithRows(t, E)[i] = WithRows(u, E)[i]
<1> DEFINE n == Cardinality(E)
           f == SetToSeq(E)
           row(i) == [event |-> f[i], repeats |-> 1]
           new == [i \in 1 .. n |-> row(i)]
<1>1. n \in Nat /\ f \in [1 .. n -> E] /\ Len(t) \in Nat
  BY Enumerated, LenProperties
<1>2. \A i \in 1 .. n : row(i) \in RowType(D)
  BY <1>1 DEF RowType
<1>3. new \in Seq(RowType(D)) /\ Len(new) = n
  <2> HIDE DEF n, f, row
  <2>1. new \in [1 .. n -> RowType(D)]
    BY <1>2
  <2> QED
    BY <1>1, <2>1
<1>4. WithRows(t, E) = t \o new /\ WithRows(u, E) = u \o new
  BY DEF WithRows
<1> HIDE DEF n, f, new
<1>5. \A i \in NewRows(t, E) : i \in 1 .. Len(t) + n /\ ~ (i <= Len(t))
  BY <1>1 DEF NewRows, n
<1>6. \A i \in NewRows(t, E) : (t \o new)[i] = new[i - Len(t)]
  BY <1>1, <1>3, <1>5, ConcatProperties
<1>7. \A i \in NewRows(t, E) : (u \o new)[i] = new[i - Len(t)]
  BY <1>1, <1>3, <1>5, ConcatProperties
<1> QED
  BY <1>4, <1>6, <1>7

\* An event stored behind the rows there are.
LEMMA StoresIs ==
  ASSUME GuardAssumption, TypeOK, Arrives, Stores(at + 1)
  PROVE  LET k == log'[at + 1].kind
             n == Len(store) + 1
         IN
         /\ store' \in Seq(RowType(1 .. Len(log'))) /\ Len(store') = n
         /\ \A i \in 1 .. Len(store) : store'[i].event = store[i].event
         /\ store'[n].event = at + 1
         /\ latest' \in [Kind -> NewestType(n)]
         /\ latest'[k].row = n /\ \A j \in Kind \ {k} : latest'[j].row = latest[j].row
         /\ held' = [held EXCEPT ![k] = 0]
         /\ episode' \in Nat \cup {Unguarded} /\ rows' = RowsToday + 1
<1> DEFINE k == log'[at + 1].kind
           n == Len(store) + 1
           D == 1 .. Len(log')
           K == {j \in {k} : latest[j].unwritten}
           w == Written(K, latest)
           E == {at + 1}
           l == log'
<1>1. /\ k \in Kind /\ Len(log) <= Len(log') /\ Len(log') \in Nat /\ E \subseteq D /\ at \in Nat
  BY ArrivalIs, TypesAre
<1>2. /\ Len(store) \in Nat /\ store \in Seq(RowType(D))
      /\ DOMAIN store = 1 .. Len(store) /\ latest \in [Kind -> NewestType(Len(store))]
  BY <1>1, TypesAre, LongerLog
<1>3. IsFiniteSet(E) /\ Cardinality(E) = 1
  BY FS_Singleton
<1>4. /\ w \in Seq(RowType(D)) /\ Len(w) = Len(store)
      /\ \A i \in 1 .. Len(store) : w[i].event = store[i].event
  <2>1. K \subseteq Kind /\ \A j \in K : latest[j].repeats \in Nat
    BY <1>1, <1>2 DEF NewestType
  <2> HIDE DEF K, D
  <2> QED
    BY <1>2, <2>1, CountsWritten
<1>5. store' = WithRows(w, E) /\ latest' = WithNewest(latest, store, E, l)
  BY DEF Stores
<1> HIDE DEF D, K, w, E
<1>6. /\ WithRows(w, E) \in Seq(RowType(D)) /\ Len(WithRows(w, E)) = n
      /\ \A i \in 1 .. Len(store) : WithRows(w, E)[i] = w[i]
      /\ WithRows(w, E)[n].event \in E
  <2>1. /\ WithRows(w, E) \in Seq(RowType(D))
        /\ Len(WithRows(w, E)) = Len(w) + Cardinality(E)
        /\ \A i \in 1 .. Len(w) : WithRows(w, E)[i] = w[i]
        /\ \A i \in Len(w) + 1 .. Len(w) + Cardinality(E) : WithRows(w, E)[i].event \in E
    <3>1. Added(D, w, E)
      BY <1>1, <1>3, <1>4, RowsAdded
    <3> QED
      BY <3>1 DEF Added
  <2> QED
    BY <1>2, <1>3, <1>4, <2>1
<1>7. /\ store' \in Seq(RowType(D)) /\ Len(store') = n
      /\ \A i \in 1 .. Len(store) : store'[i].event = store[i].event
      /\ store'[n].event = at + 1
  BY <1>4, <1>5, <1>6 DEF E
<1>8. latest' \in [Kind -> NewestType(n)]
  BY <1>1, <1>2, <1>3, <1>5, NewestTyped
<1>9. latest'[k].row = n
  <2>1. at + 1 \in E /\ l[at + 1].kind = k
    BY DEF E
  <2> HIDE DEF k, l
  <2>2. WithNewest(latest, store, E, l)[k].row \in NewRows(store, E)
    BY <1>1, <1>2, <1>3, <2>1, NewestFound
  <2>3. NewRows(store, E) = {n}
    BY <1>2, <1>3 DEF NewRows
  <2> QED
    BY <1>5, <2>2, <2>3
<1>10. \A j \in Kind \ {k} : latest'[j].row = latest[j].row
  <2> SUFFICES ASSUME NEW j \in Kind, j # k PROVE latest'[j].row = latest[j].row
    OBVIOUS
  <2>1. \A e \in E : l[e].kind # j
    BY DEF E
  <2> HIDE DEF k, l
  <2>2. WithNewest(latest, store, E, l)[j] = latest[j]
    BY <1>1, <1>2, <1>3, <2>1, NewestStays
  <2> QED
    BY <1>5, <2>2
<1>11. /\ held' = [held EXCEPT ![k] = 0]
       /\ episode' \in Nat \cup {Unguarded} /\ rows' = RowsToday + 1
  BY <1>1, EpisodeTyped DEF Stores
<1> QED
  BY <1>7, <1>8, <1>9, <1>10, <1>11 DEF D

\* The held events of the types Q have become the last rows of their types.
Settled(Q) ==
  LET new == Len(store) + 1 .. Len(store') IN
  /\ IsFiniteSet(Q) /\ Cardinality(Q) \in Nat
  /\ store' \in Seq(RowType(1 .. Len(log))) /\ Len(store') >= Len(store)
  /\ \A i \in 1 .. Len(store) : store'[i].event = store[i].event
  /\ \A i \in new : \E k \in Q : store'[i].event = held[k]
  /\ \A k \in Q : \E i \in new : store'[i].event = held[k]
  /\ latest' \in [Kind -> NewestType(Len(store'))]
  /\ \A k \in Kind :
       IF \E j \in Q : log[held[j]].kind = k
       THEN /\ latest'[k].row \in new /\ log[store'[latest'[k].row].event].kind = k
            /\ \A i \in new : log[store'[i].event].kind = k => i <= latest'[k].row
       ELSE latest'[k].row = latest[k].row
  /\ held' = [k \in Kind |-> IF k \in Q THEN 0 ELSE held[k]]
  /\ rows' \in Nat /\ (Q = {} => rows' = rows) /\ rows' <= rows + Cardinality(Q)
  /\ dayOver' \in BOOLEAN /\ episode' \in Nat \cup {Unguarded} /\ told' \in Nat
  /\ UNCHANGED <<posting, floor, tokens>>

\* A pass: the held events of the types Q become the last rows of their types.
LEMMA SettlesIs ==
  ASSUME GuardAssumption, TypeOK, NEW Q \in SUBSET Waiting, NEW calm \in BOOLEAN,
         Settles(Q, calm), episode # Unguarded
  PROVE  Settled(Q)
<1> DEFINE D == 1 .. Len(log)
           K == {k \in Kind : latest[k].unwritten}
           E == {held[k] : k \in Q}
           w == Written(K, latest)
           flushed == [k \in Kind |-> [latest[k] EXCEPT !.unwritten = FALSE]]
           c == Cardinality(E)
<1>1. /\ Len(store) \in Nat /\ store \in Seq(RowType(D)) /\ DOMAIN store = 1 .. Len(store)
      /\ latest \in [Kind -> NewestType(Len(store))] /\ held \in [Kind -> 0 .. Len(log)]
      /\ RowsToday \in Nat /\ RowsToday <= rows
  BY TypesAre
<1>2. /\ IsFiniteSet(Q) /\ Cardinality(Q) \in Nat /\ Q \subseteq Kind
      /\ Q = {} => Cardinality(Q) = 0
  <2>1. Q \subseteq Kind
    BY DEF Waiting
  <2> QED
    BY <2>1, FS_Subset, FS_CardinalityType, FS_EmptySet DEF GuardAssumption
<1>3. IsFiniteSet(E) /\ E \subseteq D /\ c \in Nat
  <2>1. E \subseteq D
    BY <1>1, <1>2 DEF Waiting
  <2>2. IsFiniteSet(E)
    <3> DEFINE f == [k \in Q |-> held[k]]
    <3>1. f \in Surjection(Q, E)
      BY DEF Surjection
    <3> HIDE DEF f, E
    <3> QED
      BY <1>2, <3>1, FS_Surjection
  <2> QED
    BY <2>1, <2>2, FS_CardinalityType
<1>4. /\ w \in Seq(RowType(D)) /\ Len(w) = Len(store)
      /\ \A i \in 1 .. Len(store) : w[i].event = store[i].event
  <2>1. K \subseteq Kind /\ \A j \in K : latest[j].repeats \in Nat
    BY <1>1 DEF NewestType
  <2> HIDE DEF K, D
  <2>2. /\ w \in Seq(RowType(D)) /\ Len(w) = Len(store)
        /\ \A i \in DOMAIN store : w[i].event = store[i].event
    BY <1>1, <2>1, CountsWritten
  <2> HIDE DEF w
  <2> QED
    BY <1>1, <2>2
<1>5. /\ flushed \in [Kind -> NewestType(Len(store))]
      /\ \A k \in Kind : flushed[k].row = latest[k].row
  <2>1. ASSUME NEW k \in Kind
        PROVE  /\ [latest[k] EXCEPT !.unwritten = FALSE] \in NewestType(Len(store))
               /\ [latest[k] EXCEPT !.unwritten = FALSE].row = latest[k].row
    <3> DEFINE l == latest[k]
    <3>1. l \in NewestType(Len(store))
      BY <1>1
    <3> HIDE DEF l
    <3>2. [l EXCEPT !.unwritten = FALSE] \in NewestType(Len(store))
          /\ [l EXCEPT !.unwritten = FALSE].row = l.row
      BY <3>1 DEF NewestType
    <3> QED
      BY <3>2 DEF l
  <2> QED
    BY <2>1
<1>6. store' = WithRows(w, E) /\ latest' = WithNewest(flushed, store, E, log)
  BY DEF Settles
<1>7. /\ held' = [k \in Kind |-> IF k \in Q THEN 0 ELSE held[k]]
      /\ rows' = (IF Q = {} THEN rows ELSE RowsToday) + Cardinality(Q)
      /\ dayOver' \in BOOLEAN /\ episode' \in Nat \cup {Unguarded} /\ told' \in Nat
      /\ UNCHANGED <<posting, floor, tokens>>
  BY DEF Settles, TypeOK, Unguarded
<1>8. rows' \in Nat /\ (Q = {} => rows' = rows) /\ rows' <= rows + Cardinality(Q)
  <2> DEFINE q == Cardinality(Q)
  <2>1. /\ q \in Nat /\ (Q = {} => q = 0) /\ rows \in Nat
        /\ rows' = (IF Q = {} THEN rows ELSE RowsToday) + q
    BY <1>2, <1>7 DEF TypeOK
  <2> HIDE DEF q
  <2>2. rows' \in Nat /\ (Q = {} => rows' = rows) /\ rows' <= rows + q
    BY <1>1, <2>1
  <2> QED
    BY <2>2 DEF q
<1>a. \A e \in E : \E k \in Q : e = held[k]
  OBVIOUS
<1>b. \A k \in Q : held[k] \in E
  OBVIOUS
<1> HIDE DEF D, K, E, w, flushed, c
<1>9. /\ store' \in Seq(RowType(D)) /\ Len(store') = Len(store) + c
      /\ \A i \in 1 .. Len(store) : store'[i] = w[i]
      /\ \A i \in Len(store) + 1 .. Len(store) + c : store'[i].event \in E
      /\ \A e \in E : \E i \in Len(store) + 1 .. Len(store) + c : store'[i].event = e
  <2>1. /\ WithRows(w, E) \in Seq(RowType(D))
        /\ Len(WithRows(w, E)) = Len(w) + Cardinality(E)
        /\ \A i \in 1 .. Len(w) : WithRows(w, E)[i] = w[i]
        /\ \A i \in Len(w) + 1 .. Len(w) + Cardinality(E) : WithRows(w, E)[i].event \in E
        /\ \A e \in E : \E i \in Len(w) + 1 .. Len(w) + Cardinality(E) :
                           WithRows(w, E)[i].event = e
    <3>1. Added(D, w, E)
      BY <1>3, <1>4, RowsAdded
    <3> QED
      BY <3>1 DEF Added
  <2> QED
    BY <1>4, <1>6, <2>1 DEF c
<1>10. \A i \in 1 .. Len(store) : store'[i].event = store[i].event
  BY <1>4, <1>9
<1>11. latest' \in [Kind -> NewestType(Len(store'))]
  BY <1>1, <1>3, <1>5, <1>6, <1>9, NewestTyped DEF c
<1>12. ASSUME NEW k \in Kind
       PROVE  IF \E j \in Q : log[held[j]].kind = k
              THEN /\ latest'[k].row \in Len(store) + 1 .. Len(store')
                   /\ log[store'[latest'[k].row].event].kind = k
                   /\ \A i \in Len(store) + 1 .. Len(store') :
                        log[store'[i].event].kind = k => i <= latest'[k].row
              ELSE latest'[k].row = latest[k].row
  <2>1. CASE \E j \in Q : log[held[j]].kind = k
    <3>1. PICK e \in E : log[e].kind = k
      BY <1>b, <2>1
    <3> DEFINE new == WithNewest(flushed, store, E, log)[k]
    <3>2. /\ new.row \in NewRows(store, E) /\ log[WithRows(store, E)[new.row].event].kind = k
          /\ \A j \in NewRows(store, E) :
               log[WithRows(store, E)[j].event].kind = k => j <= new.row
      BY <1>1, <1>3, <3>1, NewestFound
    <3>3. \A i \in NewRows(store, E) : WithRows(store, E)[i] = store'[i]
      BY <1>1, <1>3, <1>4, <1>6, RowsSame
    <3>4. NewRows(store, E) = Len(store) + 1 .. Len(store') /\ latest'[k] = new
      BY <1>6, <1>9 DEF NewRows, c
    <3> HIDE DEF new
    <3> QED
      BY <2>1, <3>2, <3>3, <3>4
  <2>2. CASE ~ \E j \in Q : log[held[j]].kind = k
    <3>1. \A e \in E : log[e].kind # k
      BY <1>a, <2>2
    <3>2. WithNewest(flushed, store, E, log)[k] = flushed[k]
      BY <1>1, <1>3, <3>1, NewestStays
    <3> QED
      BY <1>5, <1>6, <2>2, <3>2
  <2> QED
    BY <2>1, <2>2
<1>13. /\ \A i \in Len(store) + 1 .. Len(store') : \E k \in Q : store'[i].event = held[k]
       /\ \A k \in Q : \E i \in Len(store) + 1 .. Len(store') : store'[i].event = held[k]
  BY <1>a, <1>b, <1>9
<1>14. Len(store') >= Len(store)
  BY <1>1, <1>3, <1>9
<1> QED
  BY <1>2, <1>7, <1>8, <1>9, <1>10, <1>11, <1>12, <1>13, <1>14 DEF D, Settled

-----------------------------------------------------------------------------
(* The types, for every limit and number of events, of answers lost, of    *)
(* restarts and of passes of retention.                                    *)

LEMMA Retyped ==
  ASSUME /\ log' \in Seq(Event) /\ acked' \in 0 .. at' /\ at' \in 0 .. Len(log')
         /\ replays' \in Nat
         /\ store' \in Seq(RowType(1 .. Len(log'))) /\ floor' \in 0 .. Len(store')
         /\ tokens' \in 0 .. BurstTokens /\ rows' \in Nat /\ dayOver' \in BOOLEAN
         /\ latest' \in [Kind -> NewestType(Len(store'))]
         /\ held' \in [Kind -> 0 .. Len(log')]
         /\ episode' \in Nat \cup {Unguarded} /\ told' \in Nat
  PROVE  TypeOK'
<1>1. DOMAIN log' = 1 .. Len(log')
  BY LenProperties
<1> QED
  BY <1>1 DEF TypeOK, RowType, NewestType

LEMMA ArrivesTyped ==
  ASSUME GuardAssumption, TypeOK, Arrives
  PROVE  TypeOK'
<1>1. /\ log' \in Seq(Event) /\ Len(log') \in Nat /\ at' = at + 1 /\ at' \in 1 .. Len(log')
      /\ Len(log) <= Len(log') /\ log'[at + 1].kind \in Kind /\ acked' = acked
      /\ Ingest(at + 1) /\ replays' = replays
  BY ArrivalIs
<1>2. /\ Len(log) \in Nat /\ Len(store) \in Nat /\ RowsToday \in Nat
      /\ held \in [Kind -> 0 .. Len(log)] /\ latest \in [Kind -> NewestType(Len(store))]
  BY TypesAre
<1>3. store \in Seq(RowType(1 .. Len(log'))) /\ held \in [Kind -> 0 .. Len(log')]
  BY <1>1, <1>2, TypesAre, LongerLog
<1>4. /\ acked' \in 0 .. at' /\ at' \in 0 .. Len(log') /\ at + 1 \in 0 .. Len(log')
      /\ floor' = floor /\ told' = told
      /\ floor \in 0 .. Len(store) /\ told \in Nat /\ tokens \in 0 .. BurstTokens
      /\ rows \in Nat /\ dayOver \in BOOLEAN /\ episode \in Nat \cup {Unguarded}
      /\ replays' \in Nat
  BY <1>1 DEF TypeOK, Ingest
<1>5. CASE UNCHANGED <<store, source>>
  BY <1>1, <1>2, <1>3, <1>4, <1>5, Retyped DEF source
<1>6. CASE Admit(at + 1)
  <2>1. dayOver' = FALSE /\ tokens' \in 0 .. BurstTokens
    BY <1>4, <1>6 DEF Admit, Over, GuardAssumption
  <2>2. CASE Repeated(at + 1) /\ Counts(at + 1)
    <3> DEFINE k == log'[at + 1].kind
    <3>1. /\ store' \in Seq(RowType(1 .. Len(log'))) /\ Len(store') = Len(store)
          /\ latest' \in [Kind -> NewestType(Len(store))]
          /\ held' = [held EXCEPT ![k] = 0]
          /\ episode' \in Nat \cup {Unguarded} /\ rows' = RowsToday
      BY <2>2, CountsIs
    <3>2. held' \in [Kind -> 0 .. Len(log')]
      BY <1>1, <1>3, <3>1
    <3> QED
      BY <1>1, <1>2, <1>4, <2>1, <3>1, <3>2, Retyped
  <2>3. CASE Stores(at + 1)
    <3> DEFINE k == log'[at + 1].kind
    <3>1. /\ store' \in Seq(RowType(1 .. Len(log'))) /\ Len(store') = Len(store) + 1
          /\ latest' \in [Kind -> NewestType(Len(store) + 1)]
          /\ held' = [held EXCEPT ![k] = 0]
          /\ episode' \in Nat \cup {Unguarded} /\ rows' = RowsToday + 1
      BY <2>3, StoresIs
    <3>2. held' \in [Kind -> 0 .. Len(log')]
      BY <1>1, <1>3, <3>1
    <3>3. floor' \in 0 .. Len(store') /\ rows' \in Nat
      BY <1>2, <1>4, <3>1
    <3>4. latest' \in [Kind -> NewestType(Len(store'))]
      BY <3>1
    <3> QED
      BY <1>1, <1>4, <2>1, <3>1, <3>2, <3>3, <3>4, Retyped
  <2>4. CASE Holds(at + 1)
    <3>1. /\ held' = [held EXCEPT ![log'[at + 1].kind] = at + 1]
          /\ rows' = RowsToday /\ store' = store /\ latest' = latest
          /\ episode' \in Nat \cup {Unguarded}
      BY <1>1, <2>4, EpisodeTyped DEF Holds
    <3>2. held' \in [Kind -> 0 .. Len(log')]
      BY <1>1, <1>3, <1>4, <3>1
    <3> QED
      BY <1>1, <1>2, <1>3, <1>4, <2>1, <3>1, <3>2, Retyped
  <2> QED
    BY <1>6, <2>2, <2>3, <2>4 DEF Admit
<1> QED
  BY <1>1, <1>5, <1>6 DEF Ingest

LEMMA SettlesTyped ==
  ASSUME GuardAssumption, TypeOK, NEW Q \in SUBSET Waiting, NEW calm \in BOOLEAN,
         Settles(Q, calm), episode # Unguarded
  PROVE  TypeOK'
<1>1. /\ store' \in Seq(RowType(1 .. Len(log))) /\ Len(store') >= Len(store)
      /\ latest' \in [Kind -> NewestType(Len(store'))]
      /\ held' = [k \in Kind |-> IF k \in Q THEN 0 ELSE held[k]]
      /\ rows' \in Nat
      /\ dayOver' \in BOOLEAN /\ episode' \in Nat \cup {Unguarded} /\ told' \in Nat
      /\ UNCHANGED <<posting, floor, tokens>>
  <2>1. Settled(Q)
    BY SettlesIs
  <2> QED
    BY <2>1 DEF Settled
<1>2. /\ Len(log) \in Nat /\ Len(store) \in Nat /\ held \in [Kind -> 0 .. Len(log)]
      /\ Len(store') \in Nat
  BY <1>1, TypesAre, LenProperties
<1>3. held' \in [Kind -> 0 .. Len(log)]
  BY <1>1, <1>2
<1>4. floor \in 0 .. Len(store')
  BY <1>1, <1>2 DEF TypeOK
<1>5. /\ log \in Seq(Event) /\ acked \in 0 .. at /\ at \in 0 .. Len(log)
      /\ tokens \in 0 .. BurstTokens /\ replays \in Nat
  BY DEF TypeOK
<1>6. replays' = replays /\ log' = log /\ at' = at /\ acked' = acked /\ floor' = floor /\ tokens' = tokens
  BY <1>1 DEF posting
<1> QED
  BY <1>1, <1>3, <1>4, <1>5, <1>6, Retyped

\* A pass, or the last one when NERVIS stops; the guard lets go only when all of it is stored.
Passes(Q, calm) ==
  /\ Q \in SUBSET Waiting /\ calm \in BOOLEAN /\ (calm => Q = Waiting)
  /\ episode # Unguarded /\ Settles(Q, calm)

LEMMA SettlePasses ==
  ASSUME NEW Q \in SUBSET Waiting, Settle(Q) \/ Final
  PROVE  \E R, calm : Passes(R, calm)
BY DEF Settle, Final, Passes

\* The other steps leave the rows, the log and what is held as they are.
Rests ==
  \/ AnswerLost \/ StartsOver \/ TokenBack \/ (\E k \in Kind : RowGoesStale(k))
  \/ DayPasses \/ Prune

LEMMA RestsIs ==
  ASSUME GuardAssumption, TypeOK, Rests
  PROVE  /\ log' = log /\ store' = store /\ held' = held /\ episode' = episode /\ told' = told
         /\ (replays' = replays /\ at' = at) \/ replays' = replays + 1
         /\ at' \in 0 .. at /\ acked' \in 0 .. at' /\ floor' \in 0 .. Len(store)
         /\ tokens' \in 0 .. BurstTokens /\ rows' \in Nat /\ dayOver' \in BOOLEAN
         /\ latest' \in [Kind -> NewestType(Len(store))]
         /\ \A k \in Kind : latest'[k].row \in {0, latest[k].row}
<1>1. /\ Len(store) \in Nat /\ latest \in [Kind -> NewestType(Len(store))]
      /\ at \in Nat /\ acked \in 0 .. at /\ floor \in 0 .. Len(store)
      /\ tokens \in 0 .. BurstTokens /\ rows \in Nat /\ dayOver \in BOOLEAN /\ BurstTokens \in Nat
  BY TypesAre DEF TypeOK, GuardAssumption
<1>2. CASE AnswerLost
  BY <1>1, <1>2 DEF AnswerLost, table, source
<1>3. CASE StartsOver
  <2>1. [k \in Kind |-> NoRow] \in [Kind -> NewestType(Len(store))]
    BY <1>1 DEF NoRow, NewestType
  <2>2. \A k \in Kind : [j \in Kind |-> NoRow][k].row = 0
    BY DEF NoRow
  <2> DEFINE none == [k \in Kind |-> NoRow]
  <2>3. latest' = none
    BY <1>3 DEF StartsOver
  <2> HIDE DEF none
  <2>4. latest' \in [Kind -> NewestType(Len(store))] /\ \A k \in Kind : latest'[k].row = 0
    BY <2>1, <2>2, <2>3 DEF none
  <2>5. rows' \in Nat /\ tokens' \in 0 .. BurstTokens
    BY <1>1, <1>3 DEF StartsOver
  <2>6. /\ log' = log /\ at' = at /\ acked' = acked /\ replays' = replays /\ store' = store
        /\ floor' = floor /\ held' = held /\ episode' = episode /\ told' = told /\ dayOver' = FALSE
    BY <1>3 DEF StartsOver, posting, table
  <2>7. \A k \in Kind : latest'[k].row \in {0, latest[k].row}
    BY <2>4
  <2>8. /\ at' \in 0 .. at /\ acked' \in 0 .. at' /\ floor' \in 0 .. Len(store)
    BY <1>1, <2>6
  <2>9. dayOver' \in BOOLEAN
    BY <2>6
  <2> QED
    BY <2>4, <2>5, <2>6, <2>7, <2>8, <2>9
<1>4. CASE TokenBack
  BY <1>1, <1>4 DEF TokenBack, posting, table
<1>5. ASSUME NEW k \in Kind, RowGoesStale(k) PROVE latest' \in [Kind -> NewestType(Len(store))]
                                              /\ \A j \in Kind : latest'[j].row = latest[j].row
  <2> DEFINE l == latest[k]
             new == [l EXCEPT !.fresh = FALSE]
  <2>1. latest' = [latest EXCEPT ![k] = new] /\ l \in NewestType(Len(store))
    BY <1>1, <1>5 DEF RowGoesStale
  <2>2. new \in NewestType(Len(store)) /\ new.row = l.row
    <3> HIDE DEF l
    <3> QED
      BY <2>1 DEF NewestType
  <2> HIDE DEF new
  <2> QED
    BY <1>1, <2>1, <2>2
<1>6. CASE \E k \in Kind : RowGoesStale(k)
  <2> PICK k \in Kind : RowGoesStale(k)
    BY <1>6
  <2>1. latest' \in [Kind -> NewestType(Len(store))] /\ \A j \in Kind : latest'[j].row = latest[j].row
    BY <1>5
  <2>2. UNCHANGED <<posting, table, tokens, rows, dayOver, held, episode, told>>
    BY DEF RowGoesStale
  <2> QED
    BY <1>1, <2>1, <2>2 DEF posting, table
<1>7. CASE DayPasses
  BY <1>1, <1>7 DEF DayPasses, posting, table
<1>8. CASE Prune
  BY <1>1, <1>8 DEF Prune, posting, source
<1> QED
  BY <1>2, <1>3, <1>4, <1>6, <1>7, <1>8 DEF Rests

LEMMA RestsTyped ==
  ASSUME GuardAssumption, TypeOK, Rests
  PROVE  TypeOK'
<1>1. /\ log \in Seq(Event) /\ at \in 0 .. Len(log) /\ Len(log) \in Nat
      /\ store \in Seq(RowType(1 .. Len(log))) /\ held \in [Kind -> 0 .. Len(log)]
      /\ episode \in Nat \cup {Unguarded} /\ told \in Nat
  BY TypesAre DEF TypeOK
<1>2. /\ log' = log /\ store' = store /\ held' = held /\ episode' = episode /\ told' = told
      /\ at' \in 0 .. at /\ acked' \in 0 .. at' /\ floor' \in 0 .. Len(store)
      /\ tokens' \in 0 .. BurstTokens /\ rows' \in Nat /\ dayOver' \in BOOLEAN
      /\ latest' \in [Kind -> NewestType(Len(store))]
  BY RestsIs
<1>3. at' \in 0 .. Len(log)
  BY <1>1, <1>2
<1>4. replays' \in Nat
  BY RestsIs DEF TypeOK
<1> QED
  BY <1>1, <1>2, <1>3, <1>4, Retyped

LEMMA GuardSteps ==
  ASSUME Next
  PROVE  Arrives \/ Rests \/ \E Q, calm : Passes(Q, calm)
<1>1. CASE \E Q \in SUBSET Waiting : Settle(Q)
  BY <1>1, SettlePasses
<1>2. CASE Final
  BY <1>2, SettlePasses
<1> QED
  BY <1>1, <1>2 DEF Next, Rests

LEMMA TypesStep ==
  ASSUME GuardAssumption, TypeOK, [Next]_vars
  PROVE  TypeOK'
<1>1. CASE UNCHANGED vars
  BY <1>1 DEF vars, posting, table, source, TypeOK
<1>2. CASE Next
  <2>1. ASSUME NEW Q, NEW calm, Passes(Q, calm) PROVE TypeOK'
    BY <2>1, SettlesTyped DEF Passes
  <2> QED
    BY <1>2, <2>1, GuardSteps, ArrivesTyped, RestsTyped
<1> QED
  BY <1>1, <1>2

LEMMA TypesInit ==
  ASSUME GuardAssumption, Init
  PROVE  TypeOK
<1>1. /\ log = <<>> /\ at = 0 /\ acked = 0 /\ replays = 0 /\ store = <<>> /\ floor = 0 /\ told = 0
      /\ tokens = BurstTokens /\ rows = 0 /\ dayOver = FALSE /\ episode = Unguarded
      /\ latest = [k \in Kind |-> NoRow] /\ held = [k \in Kind |-> 0] /\ BurstTokens \in Nat
  BY DEF Init, GuardAssumption
<1>2. /\ log \in Seq(Event) /\ Len(log) = 0 /\ Len(store) = 0
      /\ store \in Seq([event : DOMAIN log, repeats : Nat])
  BY <1>1
<1>3. [k \in Kind |-> NoRow] \in [Kind -> [row : 0 .. 0, repeats : Nat,
                                           unwritten : BOOLEAN, fresh : BOOLEAN]]
  BY DEF NoRow
<1>4. latest \in [Kind -> [row : 0 .. Len(store), repeats : Nat, unwritten : BOOLEAN,
                           fresh : BOOLEAN]]
      /\ held \in [Kind -> 0 .. Len(log)]
  BY <1>1, <1>2, <1>3
<1>5. /\ acked \in 0 .. at /\ at \in 0 .. Len(log) /\ floor \in 0 .. Len(store)
      /\ tokens \in 0 .. BurstTokens /\ rows \in Nat /\ dayOver \in BOOLEAN
      /\ episode \in Nat \cup {Unguarded} /\ told \in Nat /\ replays \in Nat
  <2>1. acked \in 0 .. at /\ at \in 0 .. Len(log) /\ floor \in 0 .. Len(store)
    BY <1>1, <1>2
  <2>2. tokens \in 0 .. BurstTokens /\ rows \in Nat /\ told \in Nat /\ replays \in Nat
    BY <1>1
  <2>3. dayOver \in BOOLEAN /\ episode \in Nat \cup {Unguarded}
    BY <1>1
  <2> QED
    BY <2>1, <2>2, <2>3
<1> QED
  BY <1>2, <1>4, <1>5 DEF TypeOK

\* Whatever is posted, lost, posted again, held, counted, stored, forgotten or deleted, the
\* rows, the counts and what is held stay what they are meant to be.
THEOREM TypesOfTheGuard == Spec => []TypeOK
<1>1. Init => TypeOK
  BY GuardAssumption, TypesInit
<1>2. TypeOK /\ [Next]_vars => TypeOK'
  BY GuardAssumption, TypesStep
<1> QED
  BY <1>1, <1>2, PTL DEF Spec

-----------------------------------------------------------------------------
(* The latest state, for posts that no answer was lost to.                 *)

LastOf(k, e) == e \in OfKind(k) /\ \A f \in OfKind(k) : f <= e
LastRow(k, i) == i \in RowsOf(k) /\ \A j \in RowsOf(k) : j <= i

\* Of type k: what is held is its last event, what is remembered its last row, and that row
\* says what the last event did unless one is held.
KeptOf(k) ==
  /\ held[k] # 0 => LastOf(k, held[k])
  /\ latest[k].row # 0 => LastRow(k, latest[k].row)
  /\ held[k] = 0 =>
       \A e \in OfKind(k) : LastOf(k, e) =>
         \E i \in RowsOf(k) : LastRow(k, i) /\ log[store[i].event].what = log[e].what

LatestInv == replays = 0 => at = Len(log) /\ \A k \in Kind : KeptOf(k)

\* OfKind and RowsOf, where the types hold.
LEMMA KindsAre ==
  ASSUME GuardAssumption, TypeOK
  PROVE  \A k : /\ OfKind(k) = {e \in 1 .. Len(log) : log[e].kind = k}
                /\ RowsOf(k) = {i \in 1 .. Len(store) : log[store[i].event].kind = k}
BY TypesAre DEF OfKind, RowsOf

LEMMA KindsAreNext ==
  ASSUME GuardAssumption, TypeOK'
  PROVE  \A k : /\ OfKind(k)' = {e \in 1 .. Len(log') : log'[e].kind = k}
                /\ RowsOf(k)' = {i \in 1 .. Len(store') : log'[store'[i].event].kind = k}
<1>1. DOMAIN log' = 1 .. Len(log') /\ DOMAIN store' = 1 .. Len(store')
  BY LenProperties DEF TypeOK
<1> QED
  BY <1>1 DEF OfKind, RowsOf

LEMMA KeptInit ==
  ASSUME GuardAssumption, Init
  PROVE  LatestInv
<1>1. log = <<>> /\ at = 0 /\ latest = [k \in Kind |-> NoRow] /\ held = [k \in Kind |-> 0]
  BY DEF Init
<1>2. Len(log) = 0 /\ DOMAIN log = {}
  BY <1>1
<1>3. \A k \in Kind : latest[k].row = 0 /\ held[k] = 0 /\ OfKind(k) = {}
  BY <1>1, <1>2 DEF NoRow, OfKind
<1> QED
  BY <1>1, <1>2, <1>3 DEF LatestInv, KeptOf

LEMMA RestsKept ==
  ASSUME GuardAssumption, TypeOK, LatestInv, Rests
  PROVE  LatestInv'
<1>1. /\ log' = log /\ store' = store /\ held' = held
      /\ (replays' = replays /\ at' = at) \/ replays' = replays + 1
      /\ \A k \in Kind : latest'[k].row \in {0, latest[k].row}
  BY RestsIs
<1>2. replays \in Nat
  BY DEF TypeOK
<1> QED
  BY <1>1, <1>2 DEF LatestInv, KeptOf, LastOf, LastRow, OfKind, RowsOf

\* A step that leaves type k alone: its events, its rows and what they say.
LEMMA KindStands ==
  ASSUME GuardAssumption, TypeOK, TypeOK', NEW k \in Kind, KeptOf(k),
         \A e \in 1 .. Len(log) : log'[e] = log[e], Len(log) <= Len(log'),
         \A e \in Len(log) + 1 .. Len(log') : log'[e].kind # k,
         \A i \in 1 .. Len(store) : store'[i].event = store[i].event, Len(store) <= Len(store'),
         \A i \in Len(store) + 1 .. Len(store') : log'[store'[i].event].kind # k,
         held'[k] = held[k], latest'[k].row = latest[k].row
  PROVE  KeptOf(k)'
<1>1. /\ OfKind(k) = {e \in 1 .. Len(log) : log[e].kind = k}
      /\ RowsOf(k) = {i \in 1 .. Len(store) : log[store[i].event].kind = k}
      /\ OfKind(k)' = {e \in 1 .. Len(log') : log'[e].kind = k}
      /\ RowsOf(k)' = {i \in 1 .. Len(store') : log'[store'[i].event].kind = k}
  BY KindsAre, KindsAreNext
<1>2. /\ Len(log) \in Nat /\ Len(store) \in Nat
      /\ \A i \in 1 .. Len(store) : store[i].event \in 1 .. Len(log)
  BY TypesAre
<1>3. Len(log') \in Nat /\ Len(store') \in Nat
  BY LenProperties DEF TypeOK
<1>4. OfKind(k)' = OfKind(k)
  BY <1>1, <1>2, <1>3
<1>5. RowsOf(k)' = RowsOf(k)
  BY <1>1, <1>2, <1>3
<1>6. \A e : LastOf(k, e)' <=> LastOf(k, e)
  BY <1>4 DEF LastOf
<1>7. \A i : LastRow(k, i)' <=> LastRow(k, i)
  BY <1>5 DEF LastRow
<1>8. \A i \in RowsOf(k) : log'[store'[i].event] = log[store[i].event]
  BY <1>1, <1>2
<1>9. \A e \in OfKind(k) : log'[e] = log[e]
  BY <1>1
<1> QED
  BY <1>4, <1>5, <1>6, <1>7, <1>8, <1>9 DEF KeptOf

\* The rows of a type stay the last ones, when its new event takes none.
LEMMA RowsStand ==
  ASSUME GuardAssumption, TypeOK, TypeOK', NEW k \in Kind,
         \A e \in 1 .. Len(log) : log'[e] = log[e],
         \A i \in 1 .. Len(store) : store'[i].event = store[i].event, Len(store) = Len(store')
  PROVE  RowsOf(k)' = RowsOf(k) /\ \A i : LastRow(k, i)' <=> LastRow(k, i)
<1>1. /\ RowsOf(k) = {i \in 1 .. Len(store) : log[store[i].event].kind = k}
      /\ RowsOf(k)' = {i \in 1 .. Len(store') : log'[store'[i].event].kind = k}
  BY KindsAre, KindsAreNext
<1>2. \A i \in 1 .. Len(store) : store[i].event \in 1 .. Len(log)
  BY TypesAre
<1>3. RowsOf(k)' = RowsOf(k)
  BY <1>1, <1>2
<1> QED
  BY <1>3 DEF LastRow

\* Numbers that rows go by.
LEMMA NothingBeyond == ASSUME NEW n \in Nat PROVE n + 1 .. n = {}
OBVIOUS
LEMMA AtMostItself == ASSUME NEW n \in Nat PROVE n <= n
OBVIOUS
LEMMA NotZero == ASSUME NEW n \in Nat, NEW i \in 1 .. n PROVE i # 0
OBVIOUS

LEMMA ArrivesKept ==
  ASSUME GuardAssumption, TypeOK, TypeOK', LatestInv, Arrives
  PROVE  LatestInv'
<1>1. /\ Len(log') \in Nat /\ at' = at + 1 /\ Len(log) <= Len(log')
      /\ \A i \in 1 .. Len(log) : log'[i] = log[i]
      /\ at = Len(log) => Len(log') = at + 1
      /\ log'[at + 1].kind \in Kind /\ Ingest(at + 1) /\ replays' = replays
  BY ArrivalIs
<1>2. SUFFICES ASSUME replays = 0, NEW j \in Kind PROVE at' = Len(log') /\ KeptOf(j)'
  BY <1>1 DEF LatestInv
<1> PICK e : e = at + 1
  OBVIOUS
<1> PICK k \in Kind : k = log'[e].kind
  BY <1>1
<1>3. at = Len(log) /\ KeptOf(j) /\ KeptOf(k)
  BY <1>1, <1>2 DEF LatestInv
<1>4. /\ Len(log) \in Nat /\ Len(store) \in Nat /\ DOMAIN store = 1 .. Len(store)
      /\ \A i \in 1 .. Len(store) : store[i].event \in 1 .. Len(log)
      /\ held \in [Kind -> 0 .. Len(log)] /\ latest \in [Kind -> NewestType(Len(store))]
  BY TypesAre
<1>5. Len(log') = e /\ e = Len(log) + 1 /\ at' = Len(log')
  BY <1>1, <1>3
<1>6. Admit(e)
  <2>1. ~ Known(e)
    <3>1. floor \in 0 .. Len(store) /\ Len(store) \in Nat
      BY <1>4 DEF TypeOK
    <3>2. floor + 1 .. Len(store) \subseteq 1 .. Len(store)
      BY <3>1
    <3> QED
      BY <1>4, <1>5, <3>2, SMTT(30) DEF Known
  <2> QED
    BY <1>1, <2>1 DEF Ingest
<1>7. /\ OfKind(k)' = {f \in 1 .. Len(log') : log'[f].kind = k}
      /\ RowsOf(k)' = {i \in 1 .. Len(store') : log'[store'[i].event].kind = k}
  BY <1>1, KindsAreNext
<1>8. LastOf(k, e)' /\ \A f \in OfKind(k)' : LastOf(k, f)' => f = e
  <2>1. e \in OfKind(k)' /\ OfKind(k)' \subseteq 1 .. e
    BY <1>4, <1>5, <1>7
  <2> QED
    BY <2>1, <1>4, <1>5 DEF LastOf
<1>9. \A f \in Len(log) + 1 .. Len(log') : f = e
  BY <1>4, <1>5
<1>10. CASE Repeated(e) /\ Counts(e)
  <2>1. /\ Len(store') = Len(store)
        /\ \A i \in 1 .. Len(store) : store'[i].event = store[i].event
        /\ \A i \in Kind : latest'[i].row = latest[i].row
        /\ held' = [held EXCEPT ![k] = 0]
        /\ latest[k].row \in 1 .. Len(store)
        /\ log'[e].what = log'[store[latest[k].row].event].what
    BY <1>10, CountsIs
  <2>2. CASE j # k
    <3>1. \A i \in Len(store) + 1 .. Len(store') : log'[store'[i].event].kind # j
      <4>1. Len(store) + 1 .. Len(store') = {}
        BY <1>4, <2>1, NothingBeyond, Zenon
      <4> QED
        BY <4>1, Zenon
    <3>2. \A f \in Len(log) + 1 .. Len(log') : log'[f].kind # j
      BY <1>9, <2>2
    <3>3. /\ Len(store) <= Len(store') /\ Len(log) <= Len(log')
          /\ held'[j] = held[j] /\ latest'[j].row = latest[j].row
          /\ \A i \in 1 .. Len(store) : store'[i].event = store[i].event
      <4>1. Len(store) <= Len(store')
        BY <1>4, <2>1, AtMostItself, Zenon
      <4>2. held'[j] = held[j] /\ latest'[j].row = latest[j].row
        BY <1>4, <2>1, <2>2, Zenon
      <4> QED
        BY <1>1, <2>1, <4>1, <4>2, Zenon
    <3>4. KeptOf(j)'
      BY <1>1, <1>3, <3>1, <3>2, <3>3, KindStands
    <3> QED
      BY <1>5, <3>4
  <2>3. CASE j = k
    <3>0. latest[k].row # 0
      BY <1>4, <2>1, NotZero, Zenon
    <3>1. LastRow(k, latest[k].row) /\ latest[k].row \in RowsOf(k)
      BY <1>3, <3>0 DEF KeptOf, LastRow
    <3>2. LastRow(k, latest[k].row)' /\ latest[k].row \in RowsOf(k)' /\ k \in Kind
      BY <1>1, <2>1, <3>1, RowsStand
    <3>3. held'[k] = 0 /\ latest'[k].row = latest[k].row
      BY <1>4, <2>1, <3>2
    <3>4. log'[store'[latest[k].row].event].what = log'[e].what
      BY <2>1
    <3>5. KeptOf(k)'
      BY <1>8, <3>2, <3>3, <3>4 DEF KeptOf, LastRow
    <3> QED
      BY <1>5, <2>3, <3>5
  <2> QED
    BY <1>5, <2>2, <2>3
<1>11. CASE Stores(e)
  <2> PICK n : n = Len(store) + 1
    OBVIOUS
  <2>1. /\ Len(store') = n
        /\ \A i \in 1 .. Len(store) : store'[i].event = store[i].event
        /\ store'[n].event = e
        /\ latest'[k].row = n /\ \A i \in Kind \ {k} : latest'[i].row = latest[i].row
        /\ held' = [held EXCEPT ![k] = 0]
    BY <1>11, StoresIs
  <2>2. CASE j # k
    <3>1. \A i \in Len(store) + 1 .. Len(store') : log'[store'[i].event].kind # j
      BY <1>4, <2>1, <2>2
    <3>2. \A f \in Len(log) + 1 .. Len(log') : log'[f].kind # j
      BY <1>9, <2>2
    <3>3. /\ Len(store) <= Len(store') /\ Len(log) <= Len(log')
          /\ held'[j] = held[j] /\ latest'[j].row = latest[j].row
          /\ \A i \in 1 .. Len(store) : store'[i].event = store[i].event
      BY <1>1, <1>4, <2>1, <2>2
    <3>4. KeptOf(j)'
      BY <1>1, <1>3, <3>1, <3>2, <3>3, KindStands
    <3> QED
      BY <1>5, <3>4
  <2>3. CASE j = k
    <3>1. n \in RowsOf(k)' /\ RowsOf(k)' \subseteq 1 .. n
      BY <1>4, <1>7, <2>1
    <3>2. LastRow(k, n)'
      BY <1>4, <3>1 DEF LastRow
    <3>3. held'[k] = 0
      BY <1>4, <2>1, <2>3
    <3>5. KeptOf(k)'
      BY <1>8, <2>1, <3>1, <3>2, <3>3 DEF KeptOf
    <3> QED
      BY <1>5, <2>3, <3>5
  <2> QED
    BY <1>5, <2>2, <2>3
<1>12. CASE Holds(e)
  <2>1. held' = [held EXCEPT ![k] = e] /\ store' = store /\ latest' = latest
    BY <1>12 DEF Holds
  <2>2. CASE j # k
    <3>1. \A i \in Len(store) + 1 .. Len(store') : log'[store'[i].event].kind # j
      BY <1>4, <2>1
    <3>2. \A f \in Len(log) + 1 .. Len(log') : log'[f].kind # j
      BY <1>9, <2>2
    <3>3. /\ Len(store) <= Len(store') /\ Len(log) <= Len(log')
          /\ held'[j] = held[j] /\ latest'[j].row = latest[j].row
          /\ \A i \in 1 .. Len(store) : store'[i].event = store[i].event
      BY <1>1, <1>4, <2>1, <2>2
    <3>4. KeptOf(j)'
      BY <1>1, <1>3, <3>1, <3>2, <3>3, KindStands
    <3> QED
      BY <1>5, <3>4
  <2>3. CASE j = k
    <3>1. \A i : LastRow(k, i)' <=> LastRow(k, i)
      BY <1>1, <2>1, <2>3, RowsStand
    <3>2. held'[k] = e /\ e # 0
      BY <1>4, <1>5, <2>1, <2>3
    <3>3. KeptOf(k)'
      BY <1>3, <1>8, <2>1, <3>1, <3>2 DEF KeptOf
    <3> QED
      BY <1>5, <2>3, <3>3
  <2> QED
    BY <1>5, <2>2, <2>3
<1> QED
  BY <1>6, <1>10, <1>11, <1>12 DEF Admit

LEMMA SettlesKept ==
  ASSUME GuardAssumption, TypeOK, TypeOK', LatestInv, NEW Q, NEW calm, Passes(Q, calm)
  PROVE  LatestInv'
<1> DEFINE new == Len(store) + 1 .. Len(store')
<1>1. Settled(Q) /\ Q \subseteq Kind /\ \A q \in Q : held[q] # 0
  BY SettlesIs DEF Passes, Waiting
<1>2. /\ log' = log /\ at' = at /\ replays' = replays /\ Len(store') >= Len(store)
      /\ \A i \in 1 .. Len(store) : store'[i].event = store[i].event
      /\ \A i \in new : \E q \in Q : store'[i].event = held[q]
      /\ \A q \in Q : \E i \in new : store'[i].event = held[q]
      /\ held' = [k \in Kind |-> IF k \in Q THEN 0 ELSE held[k]]
  BY <1>1 DEF Settled, posting
<1>3. SUFFICES ASSUME replays = 0, NEW k \in Kind PROVE KeptOf(k)'
  BY <1>2 DEF LatestInv
<1>4. /\ Len(log) \in Nat /\ Len(store) \in Nat /\ Len(store') \in Nat
      /\ \A i \in 1 .. Len(store) : store[i].event \in 1 .. Len(log)
      /\ held \in [Kind -> 0 .. Len(log)]
  <2>1. Len(store') \in Nat
    BY LenProperties DEF TypeOK
  <2> QED
    BY <2>1, TypesAre
<1>5. /\ OfKind(k)' = OfKind(k)
      /\ RowsOf(k)' = {i \in 1 .. Len(store') : log[store'[i].event].kind = k}
  <2>1. /\ OfKind(k)' = {e \in 1 .. Len(log') : log'[e].kind = k}
        /\ RowsOf(k)' = {i \in 1 .. Len(store') : log'[store'[i].event].kind = k}
    BY KindsAreNext
  <2> QED
    BY <1>2, <2>1, KindsAre
<1>6. KeptOf(k) /\ \A q \in Q : log[held[q]].kind = q /\ LastOf(q, held[q])
  <2>1. \A q \in Q : LastOf(q, held[q])
    BY <1>1, <1>3 DEF LatestInv, KeptOf
  <2> QED
    BY <1>3, <2>1, KindsAre DEF LatestInv, LastOf
<1>7. CASE k \in Q
  <2> PICK i : i = latest'[k].row
    OBVIOUS
  <2>1. \E j \in Q : log[held[j]].kind = k
    BY <1>6, <1>7
  <2>2. /\ i \in new /\ log[store'[i].event].kind = k
        /\ \A j \in new : log[store'[j].event].kind = k => j <= i
    BY <1>1, <2>1 DEF Settled
  <2>3. i \in RowsOf(k)' /\ \A j \in RowsOf(k)' : j <= i
    <3>1. i \in 1 .. Len(store') /\ i > Len(store) /\ i \in Nat
      BY <1>4, <2>2
    <3>2. ASSUME NEW j \in RowsOf(k)' PROVE j <= i
      <4>1. CASE j <= Len(store)
        BY <1>4, <1>5, <3>1, <4>1
      <4>2. CASE ~ (j <= Len(store))
        BY <1>4, <1>5, <2>2, <4>2
      <4> QED
        BY <4>1, <4>2
    <3> QED
      BY <1>5, <2>2, <3>1, <3>2
  <2>4. store'[i].event = held[k]
    <3>1. PICK q \in Q : store'[i].event = held[q]
      BY <1>2, <2>2
    <3> QED
      BY <1>6, <2>2, <3>1
  <2>5. \A f \in OfKind(k) : LastOf(k, f) => f = held[k]
    <3>1. LastOf(k, held[k]) /\ OfKind(k) \subseteq Nat
      BY <1>4, <1>6, <1>7, KindsAre
    <3> QED
      BY <3>1 DEF LastOf
  <2>6. held'[k] = 0 /\ latest'[k].row = i
    BY <1>2, <1>7
  <2>7. LastRow(k, i)'
    BY <2>3 DEF LastRow
  <2>8. \A f : LastOf(k, f)' <=> LastOf(k, f)
    BY <1>5 DEF LastOf
  <2> QED
    BY <1>2, <1>5, <2>3, <2>4, <2>5, <2>6, <2>7, <2>8 DEF KeptOf
<1>8. CASE k \notin Q
  <2>1. ~ \E j \in Q : log[held[j]].kind = k
    BY <1>6, <1>8
  <2>2. latest'[k].row = latest[k].row
    BY <1>1, <2>1 DEF Settled
  <2>3. \A i \in Len(store) + 1 .. Len(store') : log'[store'[i].event].kind # k
    BY <1>2, <2>1
  <2>4. held'[k] = held[k]
    BY <1>2, <1>8
  <2>5. \A f \in Len(log) + 1 .. Len(log') : log'[f].kind # k
    BY <1>2, <1>4
  <2> QED
    BY <1>2, <1>4, <1>6, <2>2, <2>3, <2>4, <2>5, KindStands
<1> QED
  BY <1>7, <1>8

LEMMA LatestStep ==
  ASSUME GuardAssumption, TypeOK, LatestInv, [Next]_vars
  PROVE  LatestInv'
<1>0. TypeOK'
  BY TypesStep
<1>1. CASE UNCHANGED vars
  BY <1>1 DEF vars, posting, table, source, LatestInv, KeptOf, LastOf, LastRow, OfKind, RowsOf
<1>2. CASE Next
  <2>1. ASSUME NEW Q, NEW calm, Passes(Q, calm) PROVE LatestInv'
    BY <1>0, <2>1, SettlesKept
  <2> QED
    BY <1>0, <1>2, <2>1, GuardSteps, ArrivesKept, RestsKept
<1> QED
  BY <1>1, <1>2

LEMMA LatestHolds ==
  ASSUME GuardAssumption, TypeOK, LatestInv
  PROVE  LatestStateKept
<1> SUFFICES ASSUME at = Len(log), replays = 0, NEW k \in Kind, OfKind(k) # {}
             PROVE  log[Shown(k)].what = log[Max(OfKind(k))].what
  BY DEF LatestStateKept
<1> DEFINE E == OfKind(k)
           R == RowsOf(k)
<1>1. /\ Len(log) \in Nat /\ Len(store) \in Nat
      /\ E \subseteq 0 .. Len(log) /\ R \subseteq 0 .. Len(store)
  <2>1. /\ Len(log) \in Nat /\ Len(store) \in Nat
    BY TypesAre
  <2>2. 1 .. Len(log) \subseteq 0 .. Len(log) /\ 1 .. Len(store) \subseteq 0 .. Len(store)
    BY <2>1
  <2> QED
    BY <2>1, <2>2, KindsAre
<1>2. Max(E) \in E /\ \A f \in E : Max(E) >= f
  <2> HIDE DEF E
  <2> QED
    BY <1>1, MaxIs DEF E
<1>3. LastOf(k, Max(E)) /\ \A f \in E : LastOf(k, f) => f = Max(E)
  <2>1. \A f \in E : f \in Int /\ f <= Max(E)
    <3> HIDE DEF E
    <3> QED
      BY <1>1, <1>2
  <2> QED
    BY <1>2, <2>1 DEF LastOf
<1>4. KeptOf(k)
  BY DEF LatestInv
<1>5. CASE held[k] # 0
  BY <1>3, <1>4, <1>5 DEF KeptOf, LastOf, Shown
<1>6. CASE held[k] = 0
  <2>1. PICK i \in R : LastRow(k, i) /\ log[store[i].event].what = log[Max(E)].what
    BY <1>2, <1>3, <1>4, <1>6 DEF KeptOf
  <2>2. Max(R) \in R /\ \A j \in R : Max(R) >= j
    <3> HIDE DEF R
    <3> QED
      BY <1>1, <2>1, MaxIs
  <2>3. Max(R) = i
    <3>1. Max(R) <= i /\ i <= Max(R)
      <4>1. i \in Int /\ Max(R) \in Int
        <5>1. i \in R /\ Max(R) \in R
          BY <2>1, <2>2
        <5>2. R \subseteq Int
          BY <1>1
        <5> DEFINE m == Max(R)
        <5>3. m \in R
          BY <5>1
        <5> HIDE DEF R, m
        <5>4. i \in Int /\ m \in Int
          BY <5>1, <5>2, <5>3
        <5> QED
          BY <5>4 DEF m
      <4>2. Max(R) >= i
        <5> HIDE DEF R
        <5> QED
          BY <2>2
      <4> QED
        BY <2>1, <2>2, <4>1, <4>2 DEF LastRow
    <3> QED
      BY <1>1, <2>2, <3>1
  <2> QED
    BY <1>6, <2>1, <2>3 DEF Shown
<1> QED
  BY <1>5, <1>6

\* What the hub shows of a type, once it is quiet, is what the producer last said of it, for
\* any types and limits, until an answer is lost.
THEOREM LatestStateAlwaysKept == Spec => []LatestStateKept
<1>1. Init => TypeOK /\ LatestInv
  BY GuardAssumption, TypesInit, KeptInit
<1>2. TypeOK /\ LatestInv /\ [Next]_vars => TypeOK' /\ LatestInv'
  BY GuardAssumption, TypesStep, LatestStep
<1>3. TypeOK /\ LatestInv => LatestStateKept
  BY GuardAssumption, LatestHolds
<1> QED
  BY <1>1, <1>2, <1>3, PTL DEF Spec

-----------------------------------------------------------------------------
(* Every event counted.                                                    *)

\* The copies of a table of n rows.
LEMMA CopiesAre ==
  ASSUME NEW n \in Nat, NEW f \in [1 .. n -> Nat]
  PROVE  /\ \A i \in 1 .. n : \A j \in 1 .. f[i] : <<i, j>> \in Copies(f)
         /\ \A c \in Copies(f) : /\ c = <<c[1], c[2]>> /\ c[1] \in 1 .. n
                                 /\ c[2] \in 1 .. f[c[1]]
<1>1. DOMAIN f = 1 .. n
  OBVIOUS
<1> QED
  BY <1>1 DEF Copies

\* One event more, counted onto row r.
LEMMA OneCounted ==
  ASSUME NEW n \in Nat, NEW f \in [1 .. n -> Nat], NEW g \in [1 .. n -> Nat], NEW r \in 1 .. n,
         g[r] = f[r] + 1, \A i \in 1 .. n : i # r => g[i] = f[i], IsFiniteSet(Copies(f))
  PROVE  /\ IsFiniteSet(Copies(g))
         /\ Cardinality(Copies(g)) = Cardinality(Copies(f)) + 1
<1> DEFINE c == <<r, f[r] + 1>>
<1>1. c \notin Copies(f)
  <2> SUFFICES ASSUME c \in Copies(f) PROVE FALSE
    OBVIOUS
  <2>1. c[2] \in 1 .. f[c[1]] /\ c[1] = r /\ c[2] = f[r] + 1
    BY CopiesAre
  <2> HIDE DEF c
  <2> QED
    BY <2>1
<1>2. Copies(g) = Copies(f) \cup {c}
  <2>1. \A d \in Copies(g) : d \in Copies(f) \cup {c}
    <3> SUFFICES ASSUME NEW d \in Copies(g), d # c PROVE d \in Copies(f)
      OBVIOUS
    <3>1. d = <<d[1], d[2]>> /\ d[1] \in 1 .. n /\ d[2] \in 1 .. g[d[1]]
      BY CopiesAre
    <3>2. d[2] \in 1 .. f[d[1]]
      <4> PICK i \in 1 .. n, j \in Nat : i = d[1] /\ j = d[2] /\ j \in 1 .. g[i]
        BY <3>1
      <4>1. CASE i # r
        BY <4>1
      <4>2. CASE i = r
        <5>1. j # f[r] + 1
          BY <3>1, <4>2
        <5>2. j \in 1 .. f[r] + 1 /\ f[r] \in Nat
          BY <4>2
        <5> QED
          BY <4>2, <5>1, <5>2
      <4> QED
        BY <4>1, <4>2
    <3> QED
      BY <3>1, <3>2, CopiesAre
  <2>2. \A d \in Copies(f) : d \in Copies(g)
    <3> SUFFICES ASSUME NEW d \in Copies(f) PROVE d \in Copies(g)
      OBVIOUS
    <3>1. d = <<d[1], d[2]>> /\ d[1] \in 1 .. n /\ d[2] \in 1 .. f[d[1]]
      BY CopiesAre
    <3>2. d[2] \in 1 .. g[d[1]]
      <4> PICK i \in 1 .. n, j \in Nat : i = d[1] /\ j = d[2] /\ j \in 1 .. f[i]
        BY <3>1
      <4>1. j \in 1 .. g[i]
        <5>1. f[i] \in Nat /\ g[i] \in Nat
          OBVIOUS
        <5>2. g[i] = f[i] \/ g[i] = f[i] + 1
          OBVIOUS
        <5> QED
          BY <5>1, <5>2
      <4> QED
        BY <4>1
    <3> QED
      BY <3>1, <3>2, CopiesAre
  <2>3. c \in Copies(g)
    <3>1. f[r] + 1 \in 1 .. g[r]
      BY f[r] \in Nat
    <3> QED
      BY <3>1, CopiesAre
  <2> QED
    BY <2>1, <2>2, <2>3
<1> HIDE DEF c
<1> QED
  BY <1>1, <1>2, FS_AddElement

\* Rows n + 1 .. m more, of one event each.
LEMMA RowsCounted ==
  ASSUME NEW n \in Nat, NEW m \in Nat, n <= m, NEW f \in [1 .. n -> Nat], NEW g \in [1 .. m -> Nat],
         \A i \in 1 .. n : g[i] = f[i], \A i \in n + 1 .. m : g[i] = 1, IsFiniteSet(Copies(f))
  PROVE  /\ IsFiniteSet(Copies(g))
         /\ Cardinality(Copies(g)) = Cardinality(Copies(f)) + (m - n)
<1> DEFINE more == (n + 1 .. m) \X {1}
<1>1. IsFiniteSet(more) /\ Cardinality(more) = m - n
  <2>1. IsFiniteSet(n + 1 .. m) /\ Cardinality(n + 1 .. m) = m - n
    <3>1. n + 1 \in Int /\ m \in Int
      OBVIOUS
    <3>2. Cardinality(n + 1 .. m) = IF n + 1 > m THEN 0 ELSE m - (n + 1) + 1
      BY <3>1, FS_Interval
    <3> DEFINE size == Cardinality(n + 1 .. m)
    <3>3. size = IF n + 1 > m THEN 0 ELSE m - (n + 1) + 1
      BY <3>2
    <3> HIDE DEF size
    <3>4. size = m - n
      BY <3>3
    <3> QED
      BY <3>1, <3>4, FS_Interval DEF size
  <2>2. IsFiniteSet({1}) /\ Cardinality({1}) = 1
    BY FS_Singleton
  <2>3. IsFiniteSet(more) /\ Cardinality(more) = Cardinality(n + 1 .. m) * Cardinality({1})
    BY <2>1, <2>2, FS_Product
  <2> QED
    BY <2>1, <2>2, <2>3
<1>2. Copies(f) \cap more = {}
  <2> SUFFICES ASSUME NEW d \in Copies(f), d \in more PROVE FALSE
    OBVIOUS
  <2>1. d[1] \in 1 .. n
    BY CopiesAre
  <2>2. d[1] \in n + 1 .. m
    OBVIOUS
  <2> QED
    BY <2>1, <2>2
<1>3. Copies(g) = Copies(f) \cup more
  <2>1. \A d \in Copies(g) : d \in Copies(f) \cup more
    <3> SUFFICES ASSUME NEW d \in Copies(g) PROVE d \in Copies(f) \cup more
      OBVIOUS
    <3>1. d = <<d[1], d[2]>> /\ d[1] \in 1 .. m /\ d[2] \in 1 .. g[d[1]]
      BY CopiesAre
    <3>2. CASE d[1] \in 1 .. n
      BY <3>1, <3>2, CopiesAre
    <3>3. CASE d[1] \in n + 1 .. m
      <4>1. d[2] = 1
        BY <3>1, <3>3
      <4> QED
        BY <3>1, <3>3, <4>1
    <3> QED
      BY <3>1, <3>2, <3>3
  <2>2. \A d \in Copies(f) : d \in Copies(g)
    <3> SUFFICES ASSUME NEW d \in Copies(f) PROVE d \in Copies(g)
      OBVIOUS
    <3>1. d = <<d[1], d[2]>> /\ d[1] \in 1 .. n /\ d[2] \in 1 .. f[d[1]]
      BY CopiesAre
    <3>2. d[1] \in 1 .. m /\ d[2] \in 1 .. g[d[1]]
      BY <3>1
    <3> QED
      BY <3>1, <3>2, CopiesAre
  <2>3. \A d \in more : d \in Copies(g)
    <3> SUFFICES ASSUME NEW i \in n + 1 .. m PROVE <<i, 1>> \in Copies(g)
      OBVIOUS
    <3>1. i \in 1 .. m /\ 1 \in 1 .. g[i]
      OBVIOUS
    <3> QED
      BY <3>1, CopiesAre
  <2> QED
    BY <2>1, <2>2, <2>3
<1> HIDE DEF more
<1>4. /\ IsFiniteSet(Copies(f) \cup more)
      /\ Cardinality(Copies(f) \cup more) =
           Cardinality(Copies(f)) + Cardinality(more) - Cardinality(Copies(f) \cap more)
  BY <1>1, FS_Union
<1>5. Cardinality({}) = 0 /\ Cardinality(Copies(f)) \in Nat
  BY FS_EmptySet, FS_CardinalityType
<1> DEFINE was == Cardinality(Copies(f))
           is == Cardinality(Copies(f) \cup more)
<1>6. was \in Nat /\ is = was + (m - n) - 0
  BY <1>1, <1>2, <1>4, <1>5, Zenon
<1> HIDE DEF was, is
<1>7. is = was + (m - n)
  BY <1>6
<1> QED
  BY <1>3, <1>4, <1>7 DEF was, is

\* Each row is remembered by one type at most, and a count that is written is that of its row.
Apart(l)     == \A j, k \in Kind : l[j].row # 0 /\ l[j].row = l[k].row => j = k
Synced(l, s) == \A k \in Kind : l[k].row # 0 /\ ~ l[k].unwritten => s[l[k].row].repeats = l[k].repeats

\* InMemory(i), with the newest rows l and the table s.
Mem(l, s, i) ==
  LET mine == {k \in Kind : l[k].row = i /\ l[k].unwritten}
  IN IF mine = {} THEN s[i].repeats ELSE l[CHOOSE k \in mine : TRUE].repeats

LEMMA RememberedCount ==
  ASSUME NEW l, NEW s, Apart(l), Synced(l, s), NEW k \in Kind, l[k].row # 0
  PROVE  Mem(l, s, l[k].row) = l[k].repeats
<1> DEFINE mine == {j \in Kind : l[j].row = l[k].row /\ l[j].unwritten}
<1>1. \A j \in mine : j = k
  BY DEF Apart
<1>2. CASE mine = {}
  <2>1. ~ l[k].unwritten
    BY <1>2
  <2> QED
    BY <1>2, <2>1 DEF Mem, Synced
<1>3. CASE mine # {}
  <2>1. (CHOOSE j \in mine : TRUE) \in mine
    BY <1>3
  <2>2. (CHOOSE j \in mine : TRUE) = k
    BY <1>1, <2>1
  <2> QED
    BY <1>3, <2>2 DEF Mem
<1> QED
  BY <1>2, <1>3

LEMMA WrittenCount ==
  ASSUME NEW l, NEW s, NEW i, \A k \in Kind : l[k].row = i => ~ l[k].unwritten
  PROVE  Mem(l, s, i) = s[i].repeats
<1>1. {k \in Kind : l[k].row = i /\ l[k].unwritten} = {}
  OBVIOUS
<1> QED
  BY <1>1 DEF Mem

\* A row that none of K remembers keeps its repeats, and one that a type of K does takes its.
LEMMA WrittenKeeps ==
  ASSUME NEW D, store \in Seq(RowType(D)), NEW K \in SUBSET Kind, NEW newest,
         NEW i \in 1 .. Len(store), \A k \in K : newest[k].row # i
  PROVE  Written(K, newest)[i].repeats = store[i].repeats
<1>1. DOMAIN store = 1 .. Len(store) /\ store[i] \in RowType(D)
  BY LenProperties
<1>2. {k \in K : newest[k].row = i /\ i > floor} = {}
  OBVIOUS
<1>3. Written(K, newest)[i] = [store[i] EXCEPT !.repeats = store[i].repeats]
  BY <1>1, <1>2 DEF Written
<1> QED
  BY <1>1, <1>3 DEF RowType

LEMMA WrittenTakes ==
  ASSUME NEW D, store \in Seq(RowType(D)), floor = 0, NEW K \in SUBSET Kind, NEW newest,
         NEW i \in 1 .. Len(store), NEW k \in K, newest[k].row = i,
         \A j \in K : newest[j].row = i => j = k
  PROVE  Written(K, newest)[i].repeats = newest[k].repeats
<1> DEFINE mine == {j \in K : newest[j].row = i /\ i > floor}
           count == newest[CHOOSE j \in mine : TRUE].repeats
<1>1. DOMAIN store = 1 .. Len(store) /\ store[i] \in RowType(D) /\ i > floor
  BY LenProperties
<1>2. mine # {} /\ \A j \in mine : j = k
  BY <1>1
<1>3. (CHOOSE j \in mine : TRUE) \in mine
  BY <1>2
<1>4. Written(K, newest)[i] = [store[i] EXCEPT !.repeats = count]
  BY <1>1, <1>2 DEF Written
<1>5. count = newest[k].repeats
  BY <1>2, <1>3
<1> HIDE DEF count
<1>6. Written(K, newest)[i].repeats = count
  BY <1>1, <1>4 DEF RowType
<1> QED
  BY <1>5, <1>6

\* The counts in memory, row by row.
Count == [i \in DOMAIN store |-> InMemory(i)]

LEMMA CountIs ==
  ASSUME GuardAssumption, TypeOK
  PROVE  /\ Count \in [1 .. Len(store) -> Nat]
         /\ \A i \in 1 .. Len(store) : Count[i] = Mem(latest, store, i)
<1>1. /\ DOMAIN store = 1 .. Len(store) /\ latest \in [Kind -> NewestType(Len(store))]
      /\ \A i \in 1 .. Len(store) : store[i] \in RowType(1 .. Len(log))
  BY TypesAre, LenProperties
<1>2. \A i : InMemory(i) = Mem(latest, store, i)
  BY DEF InMemory, Mem
<1>3. ASSUME NEW i \in 1 .. Len(store) PROVE Mem(latest, store, i) \in Nat
  <2> DEFINE mine == {k \in Kind : latest[k].row = i /\ latest[k].unwritten}
  <2>1. CASE mine = {}
    BY <1>1, <2>1 DEF Mem, RowType
  <2>2. CASE mine # {}
    <3>1. (CHOOSE k \in mine : TRUE) \in Kind
      BY <2>2
    <3> QED
      BY <1>1, <2>2, <3>1 DEF Mem, NewestType
  <2> QED
    BY <2>1, <2>2
<1> QED
  BY <1>1, <1>2, <1>3 DEF Count

LEMMA CountIsNext ==
  ASSUME GuardAssumption, TypeOK'
  PROVE  /\ Count' \in [1 .. Len(store') -> Nat]
         /\ \A i \in 1 .. Len(store') : Count'[i] = Mem(latest', store', i)
<1>1. /\ DOMAIN store' = 1 .. Len(store') /\ latest' \in [Kind -> NewestType(Len(store'))]
      /\ \A i \in 1 .. Len(store') : store'[i] \in RowType(DOMAIN log')
  <2>1. store' \in Seq(RowType(DOMAIN log')) /\ latest' \in [Kind -> NewestType(Len(store'))]
    BY DEF TypeOK, NewestType, RowType
  <2> QED
    BY <2>1, LenProperties
<1>2. \A i : InMemory(i)' = Mem(latest', store', i)
  BY DEF InMemory, Mem
<1>3. ASSUME NEW i \in 1 .. Len(store') PROVE Mem(latest', store', i) \in Nat
  <2> DEFINE mine == {k \in Kind : latest'[k].row = i /\ latest'[k].unwritten}
  <2>1. CASE mine = {}
    BY <1>1, <2>1 DEF Mem, RowType
  <2>2. CASE mine # {}
    <3>1. (CHOOSE k \in mine : TRUE) \in Kind
      BY <2>2
    <3> QED
      BY <1>1, <2>2, <3>1 DEF Mem, NewestType
  <2> QED
    BY <2>1, <2>2
<1> QED
  BY <1>1, <1>2, <1>3 DEF Count

LEMMA CountOneMore ==
  ASSUME NEW n \in Nat, NEW r \in 1 .. n, Count \in [1 .. n -> Nat], Count' \in [1 .. n -> Nat],
         Count'[r] = Count[r] + 1, \A i \in 1 .. n : i # r => Count'[i] = Count[i],
         IsFiniteSet(Copies(Count))
  PROVE  /\ IsFiniteSet(Copies(Count'))
         /\ Cardinality(Copies(Count')) = Cardinality(Copies(Count)) + 1
BY OneCounted, SMTT(40)

LEMMA CountRowsMore ==
  ASSUME NEW n \in Nat, NEW m \in Nat, n <= m, Count \in [1 .. n -> Nat],
         Count' \in [1 .. m -> Nat], \A i \in 1 .. n : Count'[i] = Count[i],
         \A i \in n + 1 .. m : Count'[i] = 1, IsFiniteSet(Copies(Count))
  PROVE  /\ IsFiniteSet(Copies(Count'))
         /\ Cardinality(Copies(Count')) = Cardinality(Copies(Count)) + (m - n)
BY RowsCounted, SMTT(40)

\* Rows of different types are different rows.
LEMMA RowsApart ==
  ASSUME LatestInv, replays = 0
  PROVE  Apart(latest)
BY DEF LatestInv, KeptOf, LastRow, RowsOf, Apart

LEMMA RowsApartNext ==
  ASSUME LatestInv', replays' = 0
  PROVE  Apart(latest')
BY DEF LatestInv, KeptOf, LastRow, RowsOf, Apart

Pending(ep) == IF ep = Unguarded THEN 0 ELSE ep

\* The counts agree with the table, nothing waits for a guard that has let go, and every event
\* is counted once.
Counted ==
  floor = 0 /\ replays = 0 =>
    /\ Synced(latest, store)
    /\ episode = Unguarded => Waiting = {} /\ \A k \in Kind : ~ latest[k].unwritten
    /\ IsFiniteSet(Copies(Count))
    /\ Cardinality(Copies(Count)) + Cardinality(Waiting) + told + Pending(episode) = Len(log)

LEMMA WaitingFinite ==
  ASSUME GuardAssumption
  PROVE  IsFiniteSet(Waiting) /\ Cardinality(Waiting) \in Nat
BY FS_Subset, FS_CardinalityType DEF Waiting, GuardAssumption

\* An event that waited and never will be stored is thinned; one that waits anew is not yet.
LEMMA WaitingThinned ==
  ASSUME GuardAssumption, TypeOK, NEW k \in Kind, NEW h, held' = [held EXCEPT ![k] = h],
         episode' = Thinned(k), episode = Unguarded => Waiting = {}
  PROVE  /\ Cardinality(Waiting)' + Pending(episode') =
              Cardinality(Waiting) + Pending(episode) + (IF h = 0 THEN 0 ELSE 1)
         /\ Cardinality(Waiting)' \in Nat /\ Pending(episode') \in Nat
         /\ episode' = Unguarded =>
              Guard = Unguarded /\ episode = Unguarded /\ (h = 0 => Waiting' = {})
<1> DEFINE W == Waiting
           Wn == {j \in Kind : held'[j] # 0}
           c == Cardinality(W)
           cn == Cardinality(Wn)
<1>1. held \in [Kind -> 0 .. Len(log)] /\ episode \in Nat \cup {Unguarded}
      /\ Guard \in Nat \cup {Unguarded}
  BY TypesAre DEF TypeOK
<1>2. IsFiniteSet(W) /\ c \in Nat
  BY WaitingFinite
<1>3. Waiting' = Wn /\ Cardinality(Waiting)' = cn
  BY DEF Waiting
<1>4. IF h = 0 THEN Wn = W \ {k} ELSE Wn = W \cup {k}
  BY <1>1 DEF Waiting
<1>5. k \in W <=> held[k] # 0
  BY DEF Waiting
<1> HIDE DEF W, Wn
<1>6. /\ h = 0 /\ k \in W => cn = c - 1
      /\ h = 0 /\ k \notin W => cn = c
      /\ h # 0 /\ k \in W => cn = c
      /\ h # 0 /\ k \notin W => cn = c + 1
  <2>1. CASE h = 0 /\ k \in W
    <3>1. Wn = W \ {k}
      BY <1>4, <2>1
    <3> QED
      BY <1>2, <2>1, <3>1, FS_RemoveElement
  <2>2. CASE h = 0 /\ k \notin W
    <3>1. Wn = W
      BY <1>4, <2>2
    <3> QED
      BY <2>2, <3>1
  <2>3. CASE h # 0 /\ k \in W
    <3>1. Wn = W
      BY <1>4, <2>3
    <3> QED
      BY <2>3, <3>1
  <2>4. CASE h # 0 /\ k \notin W
    <3>1. Wn = W \cup {k}
      BY <1>4, <2>4
    <3> QED
      BY <1>2, <2>4, <3>1, FS_AddElement
  <2> QED
    BY <2>1, <2>2, <2>3, <2>4
<1>7. k \in W => c # 0
  BY <1>2, FS_EmptySet
<1> HIDE DEF c, cn
<1>8. k \in W => episode # Unguarded
  BY DEF W
<1>9. /\ Pending(episode) \in Nat /\ Pending(Guard) = Pending(episode)
      /\ Guard = Unguarded => episode = Unguarded
  BY <1>1 DEF Pending, Guard, Unguarded
<1>10. IF k \in W THEN episode' = Guard + 1 /\ Guard \in Nat ELSE episode' = Guard
  BY <1>1, <1>5, <1>8, <1>9 DEF Thinned
<1>11. Pending(episode') = Pending(episode) + (IF k \in W THEN 1 ELSE 0)
  <2>1. CASE k \in W
    <3>1. Guard # Unguarded /\ Guard + 1 # Unguarded
      BY <1>10, <2>1 DEF Unguarded
    <3> QED
      BY <1>9, <1>10, <2>1, <3>1 DEF Pending
  <2>2. CASE k \notin W
    BY <1>9, <1>10, <2>2
  <2> QED
    BY <2>1, <2>2
<1>12. episode' = Unguarded => Guard = Unguarded /\ episode = Unguarded /\ (h = 0 => Waiting' = {})
  <2> SUFFICES ASSUME episode' = Unguarded
               PROVE  Guard = Unguarded /\ episode = Unguarded /\ (h = 0 => Waiting' = {})
    OBVIOUS
  <2>1. k \notin W
    BY <1>10 DEF Unguarded
  <2>2. Guard = Unguarded /\ episode = Unguarded
    BY <1>9, <1>10, <2>1
  <2>3. W = {}
    BY <2>2 DEF W
  <2> QED
    BY <1>3, <1>4, <2>2, <2>3
<1>13. /\ cn + Pending(episode') = c + Pending(episode) + (IF h = 0 THEN 0 ELSE 1)
       /\ cn \in Nat /\ Pending(episode') \in Nat
  BY <1>2, <1>6, <1>7, <1>9, <1>11 DEF c
<1> QED
  BY <1>3, <1>12, <1>13 DEF c, W

\* What Counts does to what is remembered.
LEMMA CountsOne ==
  ASSUME GuardAssumption, TypeOK, Arrives, Repeated(at + 1), Counts(at + 1)
  PROVE  LET k == log'[at + 1].kind IN
         /\ k \in Kind /\ latest[k].row # 0
         /\ latest'[k].row = latest[k].row /\ latest'[k].repeats = latest[k].repeats + 1
         /\ latest'[k].unwritten = (latest[k].unwritten \/ Guard # Unguarded)
         /\ \A j \in Kind : j # k => latest'[j] = latest[j]
<1> DEFINE k == log'[at + 1].kind
           l == latest[k]
           unwritten == l.unwritten \/ Guard # Unguarded
           repeats == l.repeats + 1
           new == [l EXCEPT !.repeats = repeats, !.unwritten = unwritten]
<1>1. k \in Kind
  BY ArrivalIs
<1>2. latest \in [Kind -> NewestType(Len(store))] /\ l \in NewestType(Len(store))
  BY <1>1, TypesAre
<1>3. latest' = [latest EXCEPT ![k] = new]
  BY <1>1, <1>2 DEF Counts
<1>4. l.row # 0
  BY DEF Repeated
<1>5. new.row = l.row /\ new.repeats = repeats /\ new.unwritten = unwritten
  <2> HIDE DEF l, unwritten, repeats
  <2> QED
    BY <1>2 DEF NewestType
<1> HIDE DEF new
<1>6. latest'[k] = new /\ \A j \in Kind : j # k => latest'[j] = latest[j]
  BY <1>1, <1>2, <1>3
<1> QED
  BY <1>1, <1>4, <1>5, <1>6

LEMMA CountsTally ==
  ASSUME GuardAssumption, TypeOK, TypeOK', LatestInv, LatestInv', replays = 0, replays' = 0,
         floor = 0, Arrives, Repeated(at + 1), Counts(at + 1),
         Synced(latest, store), IsFiniteSet(Copies(Count))
  PROVE  /\ Synced(latest', store') /\ IsFiniteSet(Copies(Count'))
         /\ Cardinality(Copies(Count')) = Cardinality(Copies(Count)) + 1
         /\ (\A k \in Kind : ~ latest[k].unwritten) /\ Guard = Unguarded
              => \A k \in Kind : ~ latest'[k].unwritten
<1> PICK k : k = log'[at + 1].kind
  OBVIOUS
<1> PICK r : r = latest[k].row
  OBVIOUS
<1>1. /\ k \in Kind /\ r # 0 /\ latest'[k].row = r /\ latest'[k].repeats = latest[k].repeats + 1
      /\ latest'[k].unwritten = (latest[k].unwritten \/ Guard # Unguarded)
      /\ \A j \in Kind : j # k => latest'[j] = latest[j]
  BY CountsOne
<1>2. /\ Len(store') = Len(store) /\ r \in 1 .. Len(store) /\ Len(store) \in Nat
  BY CountsIs, TypesAre
<1>3. Apart(latest) /\ Apart(latest')
  BY RowsApart, RowsApartNext
<1>4. /\ \A i \in 1 .. Len(store) : i # r => store'[i].repeats = store[i].repeats
      /\ Guard = Unguarded => store'[r].repeats = latest'[k].repeats
  <2>1. CASE Guard # Unguarded
    BY <2>1 DEF Counts
  <2>2. CASE Guard = Unguarded
    <3> DEFINE K == {k}
               newest == latest'
    <3>1. store' = Written(K, newest)
      BY <2>2 DEF Counts
    <3>2. store \in Seq(RowType(1 .. Len(log)))
      BY TypesAre
    <3>3. K \subseteq Kind /\ \A j \in K : j = k
      BY <1>1
    <3>4. newest[k].row = r /\ k \in K
      BY <1>1
    <3> HIDE DEF K, newest
    <3>5. \A i \in 1 .. Len(store) : i # r => Written(K, newest)[i].repeats = store[i].repeats
      <4> SUFFICES ASSUME NEW i \in 1 .. Len(store), i # r
                   PROVE  Written(K, newest)[i].repeats = store[i].repeats
        OBVIOUS
      <4>1. \A j \in K : newest[j].row # i
        BY <3>3, <3>4
      <4> QED
        BY <3>2, <3>3, <4>1, WrittenKeeps
    <3>6. Written(K, newest)[r].repeats = newest[k].repeats
      <4>1. \A j \in K : newest[j].row = r => j = k
        BY <3>3
      <4> QED
        BY <1>2, <3>2, <3>3, <3>4, <4>1, WrittenTakes
    <3> QED
      BY <3>1, <3>5, <3>6 DEF newest
  <2> QED
    BY <2>1, <2>2
<1>5. \A j \in Kind : latest[j].row \in 0 .. Len(store) /\ (latest[j].row = r => j = k)
  BY <1>1, <1>3, TypesAre DEF NewestType, Apart
<1>6. Synced(latest', store')
  <2> SUFFICES ASSUME NEW j \in Kind, latest'[j].row # 0, ~ latest'[j].unwritten
               PROVE  store'[latest'[j].row].repeats = latest'[j].repeats
    BY DEF Synced
  <2>1. CASE j = k
    BY <1>1, <1>4, <2>1
  <2>2. CASE j # k
    <3>1. latest'[j] = latest[j] /\ latest[j].row \in 1 .. Len(store) /\ latest[j].row # r
      BY <1>1, <1>2, <1>5, <2>2
    <3>2. store[latest[j].row].repeats = latest[j].repeats
      BY <3>1 DEF Synced
    <3> QED
      BY <1>4, <3>1, <3>2
  <2> QED
    BY <2>1, <2>2
<1>7. /\ Count \in [1 .. Len(store) -> Nat] /\ Count' \in [1 .. Len(store) -> Nat]
      /\ \A i \in 1 .. Len(store) : Count[i] = Mem(latest, store, i)
      /\ \A i \in 1 .. Len(store) : Count'[i] = Mem(latest', store', i)
  BY <1>2, CountIs, CountIsNext
<1>8. Count'[r] = Count[r] + 1
  <2>1. Mem(latest, store, r) = latest[k].repeats
    BY <1>1, <1>3, RememberedCount
  <2> DEFINE ln == latest'
             sn == store'
  <2>2. ln[k].row = r /\ Apart(ln) /\ Synced(ln, sn)
    BY <1>1, <1>3, <1>6
  <2> HIDE DEF ln, sn
  <2>3. Mem(ln, sn, r) = ln[k].repeats
    BY <1>1, <2>2, RememberedCount
  <2> QED
    BY <1>1, <1>2, <1>7, <2>1, <2>3 DEF ln, sn
<1>9. ASSUME NEW i \in 1 .. Len(store), i # r PROVE Count'[i] = Count[i]
  <2>1. CASE \E j \in Kind : latest[j].row = i /\ latest[j].unwritten
    <3> PICK j \in Kind : latest[j].row = i /\ latest[j].unwritten
      BY <2>1
    <3>1. j # k /\ latest'[j] = latest[j] /\ i # 0
      BY <1>1, <1>2, <1>9
    <3>2. Mem(latest, store, i) = latest[j].repeats
      BY <1>3, <3>1, RememberedCount
    <3> DEFINE ln == latest'
               sn == store'
    <3>3. ln[j].row = i /\ Apart(ln) /\ Synced(ln, sn)
      BY <1>3, <1>6, <3>1
    <3> HIDE DEF ln, sn
    <3>4. Mem(ln, sn, i) = ln[j].repeats
      BY <3>1, <3>3, RememberedCount
    <3> QED
      BY <1>7, <3>1, <3>2, <3>4 DEF ln, sn
  <2>2. CASE ~ \E j \in Kind : latest[j].row = i /\ latest[j].unwritten
    <3>1. Mem(latest, store, i) = store[i].repeats
      BY <2>2, WrittenCount
    <3> DEFINE ln == latest'
               sn == store'
    <3>2. \A j \in Kind : ln[j].row = i => ~ ln[j].unwritten
      BY <1>1, <1>9, <2>2
    <3> HIDE DEF ln, sn
    <3>3. Mem(ln, sn, i) = sn[i].repeats
      BY <3>2, WrittenCount
    <3> QED
      BY <1>4, <1>7, <1>9, <3>1, <3>3 DEF ln, sn
  <2> QED
    BY <2>1, <2>2
<1>10. /\ IsFiniteSet(Copies(Count'))
       /\ Cardinality(Copies(Count')) = Cardinality(Copies(Count)) + 1
  <2>1. \A i \in 1 .. Len(store) : i # r => Count'[i] = Count[i]
    BY <1>9
  <2> QED
    BY <1>2, <1>7, <1>8, <2>1, CountOneMore
<1>11. (\A j \in Kind : ~ latest[j].unwritten) /\ Guard = Unguarded
         => \A j \in Kind : ~ latest'[j].unwritten
  BY <1>1
<1> QED
  BY <1>6, <1>10, <1>11

\* A new row stands for one event, and for one that its type has counted.
LEMMA RowsOfOne ==
  ASSUME NEW D, NEW t \in Seq(RowType(D)), NEW E \in SUBSET D, IsFiniteSet(E)
  PROVE  \A i \in NewRows(t, E) : WithRows(t, E)[i].repeats = 1
<1> DEFINE n == Cardinality(E)
           f == SetToSeq(E)
           row(i) == [event |-> f[i], repeats |-> 1]
           new == [i \in 1 .. n |-> row(i)]
<1>1. n \in Nat /\ f \in [1 .. n -> E] /\ Len(t) \in Nat
  BY Enumerated, LenProperties
<1>2. \A i \in 1 .. n : row(i) \in RowType(D) /\ row(i).repeats = 1
  BY <1>1 DEF RowType
<1>3. new \in Seq(RowType(D)) /\ Len(new) = n /\ \A i \in 1 .. n : new[i].repeats = 1
  <2> HIDE DEF n, f, row
  <2>1. new \in [1 .. n -> RowType(D)]
    BY <1>2
  <2> QED
    BY <1>1, <1>2, <2>1
<1>4. WithRows(t, E) = t \o new
  BY DEF WithRows
<1> HIDE DEF n, f, new
<1>5. \A i \in NewRows(t, E) : i \in 1 .. Len(t) + n /\ ~ (i <= Len(t)) /\ i - Len(t) \in 1 .. n
  BY <1>1 DEF NewRows, n
<1>6. \A i \in NewRows(t, E) : (t \o new)[i] = new[i - Len(t)]
  BY <1>1, <1>3, <1>5, ConcatProperties
<1> QED
  BY <1>3, <1>4, <1>5, <1>6

LEMMA NewestOfOne ==
  ASSUME NEW D, NEW t \in Seq(RowType(D)), NEW E \in SUBSET D, IsFiniteSet(E),
         NEW newest, NEW l, NEW k \in Kind, NEW e \in E, l[e].kind = k
  PROVE  /\ WithNewest(newest, t, E, l)[k].row \in NewRows(t, E)
         /\ WithNewest(newest, t, E, l)[k].repeats \in {1}
         /\ ~ WithNewest(newest, t, E, l)[k].unwritten
<1> DEFINE mine == {i \in NewRows(t, E) : l[WithRows(t, E)[i].event].kind = k}
           found == [row |-> Max(mine), repeats |-> 1, unwritten |-> FALSE, fresh |-> TRUE]
<1>1. WithNewest(newest, t, E, l)[k] = IF mine = {} THEN newest[k] ELSE found
  BY DEF WithNewest, NewRows
<1>2. mine # {}
  <2>1. \E i \in NewRows(t, E) : WithRows(t, E)[i].event = e
    BY RowsAdded DEF NewRows, Added
  <2> QED
    BY <2>1
<1>3. WithNewest(newest, t, E, l)[k].row \in NewRows(t, E)
  BY NewestFound
<1>4. found.repeats \in {1} /\ ~ found.unwritten
  OBVIOUS
<1> HIDE DEF mine, found
<1>5. WithNewest(newest, t, E, l)[k] = found
  BY <1>1, <1>2
<1> QED
  BY <1>3, <1>4, <1>5

\* What Stores does to the table and to what is remembered.
LEMMA StoresOne ==
  ASSUME GuardAssumption, TypeOK, Arrives, Stores(at + 1), floor = 0, Apart(latest)
  PROVE  LET k == log'[at + 1].kind
             n == Len(store)
         IN
         /\ k \in Kind /\ Len(store') = n + 1 /\ store'[n + 1].repeats = 1
         /\ \A i \in 1 .. n :
              store'[i].repeats = IF latest[k].row = i /\ latest[k].unwritten
                                  THEN latest[k].repeats ELSE store[i].repeats
         /\ latest'[k].row = n + 1 /\ latest'[k].repeats = 1 /\ ~ latest'[k].unwritten
         /\ \A j \in Kind : j # k => latest'[j] = latest[j]
<1> DEFINE k == log'[at + 1].kind
           n == Len(store)
           D == 1 .. Len(log')
           K == {j \in {k} : latest[j].unwritten}
           w == Written(K, latest)
           E == {at + 1}
           l == log'
<1>1. /\ k \in Kind /\ Len(log) <= Len(log') /\ Len(log') \in Nat /\ E \subseteq D
  BY ArrivalIs
<1>2. /\ Len(store) \in Nat /\ store \in Seq(RowType(D)) /\ Len(log) \in Nat
      /\ DOMAIN store = 1 .. Len(store) /\ latest \in [Kind -> NewestType(Len(store))]
  BY <1>1, TypesAre, LongerLog
<1>3. IsFiniteSet(E) /\ Cardinality(E) = 1
  BY FS_Singleton
<1>4. store' = WithRows(w, E) /\ latest' = WithNewest(latest, store, E, l)
  BY DEF Stores
<1>5. K \subseteq Kind /\ (\A j \in K : j = k) /\ (k \in K <=> latest[k].unwritten)
  BY <1>1
<1>6. \A e \in E : l[e].kind = k
  OBVIOUS
<1>7. at + 1 \in E /\ l[at + 1].kind = k
  OBVIOUS
<1>8. w \in Seq(RowType(D)) /\ Len(w) = n
  <2>1. K \subseteq Kind /\ \A j \in K : latest[j].repeats \in Nat
    BY <1>1, <1>2 DEF NewestType
  <2> HIDE DEF K, D
  <2> QED
    BY <1>2, <2>1, CountsWritten
<1> HIDE DEF D, K, E, l, k
<1>9. ASSUME NEW i \in 1 .. n
      PROVE  w[i].repeats = IF latest[k].row = i /\ latest[k].unwritten
                            THEN latest[k].repeats ELSE store[i].repeats
  <2>1. CASE latest[k].row = i /\ latest[k].unwritten
    BY <1>2, <1>5, <2>1, WrittenTakes
  <2>2. CASE ~ (latest[k].row = i /\ latest[k].unwritten)
    <3>1. \A j \in K : latest[j].row # i
      BY <1>5, <2>2
    <3>2. w[i].repeats = store[i].repeats
      BY <1>2, <1>5, <3>1, WrittenKeeps
    <3> QED
      BY <2>2, <3>2
  <2> QED
    BY <2>1, <2>2
<1> HIDE DEF w
<1>10. /\ Len(store') = n + 1 /\ \A i \in 1 .. n : store'[i] = w[i]
  <2>1. Added(D, w, E)
    BY <1>1, <1>3, <1>8, RowsAdded
  <2> QED
    BY <1>3, <1>4, <1>8, <2>1 DEF Added
<1>11. store'[n + 1].repeats = 1
  <2>1. NewRows(w, E) = {n + 1}
    BY <1>2, <1>3, <1>8 DEF NewRows
  <2>2. \A i \in NewRows(w, E) : WithRows(w, E)[i].repeats = 1
    BY <1>1, <1>3, <1>8, RowsOfOne
  <2> QED
    BY <1>4, <2>1, <2>2
<1>12. latest'[k].row = n + 1 /\ latest'[k].repeats = 1 /\ ~ latest'[k].unwritten
  <2> DEFINE new == WithNewest(latest, store, E, l)[k]
  <2>1. new.row \in NewRows(store, E) /\ new.repeats = 1 /\ ~ new.unwritten
    <3>1. new.row \in NewRows(store, E)
      BY <1>1, <1>2, <1>3, <1>7, NewestOfOne
    <3>2. new.repeats \in {1}
      BY <1>1, <1>2, <1>3, <1>7, NewestOfOne
    <3>3. ~ new.unwritten
      BY <1>1, <1>2, <1>3, <1>7, NewestOfOne
    <3> QED
      BY <3>1, <3>2, <3>3
  <2>2. NewRows(store, E) = {n + 1}
    BY <1>2, <1>3 DEF NewRows
  <2>3. latest'[k] = new
    BY <1>4
  <2> HIDE DEF new
  <2> QED
    BY <2>1, <2>2, <2>3
<1>13. ASSUME NEW j \in Kind, j # k PROVE latest'[j] = latest[j]
  <2>1. \A e \in E : l[e].kind # j
    BY <1>6, <1>13
  <2>2. WithNewest(latest, store, E, l)[j] = latest[j]
    BY <1>1, <1>2, <1>3, <2>1, NewestStays
  <2> QED
    BY <1>4, <2>2
<1> QED
  BY <1>1, <1>9, <1>10, <1>11, <1>12, <1>13 DEF k

\* Memory and table, with nothing newly counted: each row is remembered as before, or no
\* longer and written with what was remembered of it.
LEMMA MemorySame ==
  ASSUME NEW l, NEW s, NEW m, NEW t, NEW i, i # 0, Apart(l), Synced(l, s),
         \A k \in Kind : m[k].row = i /\ m[k].unwritten => l[k] = m[k],
         (\A k \in Kind : l[k].row = i => ~ l[k].unwritten) => t[i].repeats = s[i].repeats,
         \A k \in Kind : l[k].row = i /\ l[k].unwritten =>
            (m[k].row = i /\ m[k].unwritten) \/ t[i].repeats = l[k].repeats
  PROVE  Mem(m, t, i) = Mem(l, s, i)
<1>1. CASE \A k \in Kind : l[k].row = i => ~ l[k].unwritten
  <2>1. Mem(l, s, i) = s[i].repeats
    BY <1>1, WrittenCount
  <2>2. \A k \in Kind : m[k].row = i => ~ m[k].unwritten
    BY <1>1
  <2>3. Mem(m, t, i) = t[i].repeats
    BY <2>2, WrittenCount
  <2> QED
    BY <1>1, <2>1, <2>3
<1>2. CASE \E k \in Kind : l[k].row = i /\ l[k].unwritten
  <2> PICK k \in Kind : l[k].row = i /\ l[k].unwritten
    BY <1>2
  <2>1. Mem(l, s, i) = l[k].repeats
    BY RememberedCount
  <2> DEFINE mine == {j \in Kind : m[j].row = i /\ m[j].unwritten}
  <2>2. \A j \in mine : j = k /\ l[j] = m[j]
    BY DEF Apart
  <2>3. CASE mine = {}
    <3>1. t[i].repeats = l[k].repeats
      BY <2>3
    <3> QED
      BY <2>1, <2>3, <3>1 DEF Mem
  <2>4. CASE mine # {}
    <3>1. (CHOOSE j \in mine : TRUE) \in mine
      BY <2>4
    <3>2. Mem(m, t, i) = m[CHOOSE j \in mine : TRUE].repeats
      BY <2>4 DEF Mem
    <3> HIDE DEF mine
    <3> QED
      BY <2>1, <2>2, <3>1, <3>2
  <2> QED
    BY <2>3, <2>4
<1> QED
  BY <1>1, <1>2

LEMMA StoresTally ==
  ASSUME GuardAssumption, TypeOK, TypeOK', LatestInv, replays = 0,
         floor = 0, Arrives, Stores(at + 1), Synced(latest, store), IsFiniteSet(Copies(Count))
  PROVE  /\ Synced(latest', store') /\ IsFiniteSet(Copies(Count'))
         /\ Cardinality(Copies(Count')) = Cardinality(Copies(Count)) + 1
         /\ (\A k \in Kind : ~ latest[k].unwritten) => \A k \in Kind : ~ latest'[k].unwritten
<1> PICK k : k = log'[at + 1].kind
  OBVIOUS
<1>1. Apart(latest) /\ Len(store) \in Nat /\ latest \in [Kind -> NewestType(Len(store))]
  BY RowsApart, TypesAre
<1>2. /\ k \in Kind /\ Len(store') = Len(store) + 1 /\ store'[Len(store) + 1].repeats = 1
      /\ \A i \in 1 .. Len(store) :
           store'[i].repeats = IF latest[k].row = i /\ latest[k].unwritten
                               THEN latest[k].repeats ELSE store[i].repeats
      /\ latest'[k].row = Len(store) + 1 /\ latest'[k].repeats = 1 /\ ~ latest'[k].unwritten
      /\ \A j \in Kind : j # k => latest'[j] = latest[j]
  BY <1>1, StoresOne
<1>3. \A j \in Kind : latest[j].row \in 0 .. Len(store)
  BY <1>1 DEF NewestType
<1>4. Synced(latest', store')
  <2> SUFFICES ASSUME NEW j \in Kind, latest'[j].row # 0, ~ latest'[j].unwritten
               PROVE  store'[latest'[j].row].repeats = latest'[j].repeats
    BY DEF Synced
  <2>1. CASE j = k
    BY <1>2, <2>1
  <2>2. CASE j # k
    <3>1. latest'[j] = latest[j] /\ latest[j].row \in 1 .. Len(store) /\ latest[j].row # latest[k].row
      BY <1>1, <1>2, <1>3, <2>2 DEF Apart
    <3>2. store[latest[j].row].repeats = latest[j].repeats
      BY <3>1 DEF Synced
    <3> QED
      BY <1>2, <3>1, <3>2
  <2> QED
    BY <2>1, <2>2
<1>5. /\ Count \in [1 .. Len(store) -> Nat] /\ Count' \in [1 .. Len(store) + 1 -> Nat]
      /\ \A i \in 1 .. Len(store) : Count[i] = Mem(latest, store, i)
      /\ \A i \in 1 .. Len(store) + 1 : Count'[i] = Mem(latest', store', i)
  BY <1>2, CountIs, CountIsNext
<1>6. ASSUME NEW i \in 1 .. Len(store) PROVE Count'[i] = Count[i]
  <2> DEFINE m == latest'
             t == store'
  <2>1. \A j \in Kind : m[j].row = i /\ m[j].unwritten => latest[j] = m[j]
    BY <1>2
  <2>2. (\A j \in Kind : latest[j].row = i => ~ latest[j].unwritten)
          => t[i].repeats = store[i].repeats
    BY <1>2
  <2>3. \A j \in Kind : latest[j].row = i /\ latest[j].unwritten =>
            (m[j].row = i /\ m[j].unwritten) \/ t[i].repeats = latest[j].repeats
    BY <1>2
  <2>4. i # 0 /\ i \in 1 .. Len(store) + 1
    BY <1>1
  <2> HIDE DEF m, t
  <2>5. Mem(m, t, i) = Mem(latest, store, i)
    BY <1>1, <2>1, <2>2, <2>3, <2>4, MemorySame
  <2> QED
    BY <1>5, <2>4, <2>5 DEF m, t
<1>7. ASSUME NEW i \in Len(store) + 1 .. Len(store) + 1 PROVE Count'[i] = 1
  <2> DEFINE m == latest'
             t == store'
  <2>1. i = Len(store) + 1 /\ i \in 1 .. Len(store) + 1 /\ t[i].repeats = 1
    BY <1>1, <1>2
  <2>2. \A j \in Kind : m[j].row = i => ~ m[j].unwritten
    BY <1>1, <1>2, <1>3, <2>1
  <2> HIDE DEF m, t
  <2>3. Mem(m, t, i) = t[i].repeats
    BY <2>2, WrittenCount
  <2> QED
    BY <1>5, <2>1, <2>3 DEF m, t
<1>8. /\ IsFiniteSet(Copies(Count'))
      /\ Cardinality(Copies(Count')) = Cardinality(Copies(Count)) + 1
  <2>1. PICK n : n = Len(store)
    OBVIOUS
  <2>2. PICK m : m = n + 1
    OBVIOUS
  <2>3. /\ n \in Nat /\ m \in Nat /\ n <= m /\ Count \in [1 .. n -> Nat] /\ Count' \in [1 .. m -> Nat]
        /\ \A i \in 1 .. n : Count'[i] = Count[i]
        /\ \A i \in n + 1 .. m : Count'[i] = 1
    BY <1>1, <1>5, <1>6, <1>7, <2>1, <2>2
  <2>4. /\ IsFiniteSet(Copies(Count'))
        /\ Cardinality(Copies(Count')) = Cardinality(Copies(Count)) + (m - n)
    BY <2>3, CountRowsMore
  <2>5. m - n = 1
    BY <2>2, <2>3
  <2> QED
    BY <2>4, <2>5
<1> QED
  BY <1>2, <1>4, <1>8

\* What a pass does to the table and to what is remembered.
LEMMA SettlesOne ==
  ASSUME GuardAssumption, TypeOK, LatestInv, replays = 0, floor = 0, Synced(latest, store),
         NEW Q, NEW calm, Passes(Q, calm)
  PROVE  /\ Cardinality(Q) \in Nat /\ Len(store') = Len(store) + Cardinality(Q)
         /\ \A i \in 1 .. Len(store) : store'[i].repeats = Mem(latest, store, i)
         /\ \A i \in Len(store) + 1 .. Len(store') : store'[i].repeats = 1
         /\ \A k \in Kind :
              /\ ~ latest'[k].unwritten
              /\ \/ latest'[k].row = latest[k].row /\ latest'[k].repeats = latest[k].repeats
                 \/ latest'[k].row \in Len(store) + 1 .. Len(store') /\ latest'[k].repeats = 1
<1> DEFINE n == Len(store)
           D == 1 .. Len(log)
           K == {k \in Kind : latest[k].unwritten}
           E == {held[k] : k \in Q}
           w == Written(K, latest)
           flushed == [k \in Kind |-> [latest[k] EXCEPT !.unwritten = FALSE]]
           l == log
<1>1. /\ n \in Nat /\ store \in Seq(RowType(D)) /\ DOMAIN store = 1 .. n
      /\ latest \in [Kind -> NewestType(n)] /\ held \in [Kind -> 0 .. Len(log)]
  BY TypesAre
<1>2. Q \in SUBSET Kind /\ \A q \in Q : held[q] # 0 /\ log[held[q]].kind = q
  <2>1. Q \in SUBSET Kind /\ \A q \in Q : held[q] # 0
    BY DEF Passes, Waiting
  <2>2. \A q \in Q : held[q] \in OfKind(q)
    BY <2>1 DEF LatestInv, KeptOf, LastOf
  <2> QED
    BY <2>1, <2>2 DEF OfKind
<1>3. IsFiniteSet(Q) /\ Cardinality(Q) \in Nat
  BY <1>2, FS_Subset, FS_CardinalityType DEF GuardAssumption
<1>4. IsFiniteSet(E) /\ E \subseteq D /\ Cardinality(E) = Cardinality(Q)
  <2>1. E \subseteq D
    BY <1>1, <1>2
  <2> DEFINE f == [k \in Q |-> held[k]]
  <2>2. f \in Surjection(Q, E)
    BY DEF Surjection
  <2>3. f \in Injection(Q, E)
    <3>1. f \in [Q -> E]
      OBVIOUS
    <3>2. \A a, b \in Q : f[a] = f[b] => a = b
      BY <1>2
    <3> HIDE DEF f, E
    <3> QED
      BY <3>1, <3>2 DEF Injection, IsInjective
  <2> HIDE DEF f, E
  <2>5. IsFiniteSet(E)
    BY <1>3, <2>2, FS_Surjection
  <2>6. Cardinality(E) = Cardinality(Q)
    BY <1>3, <2>2, <2>3, FS_Surjection
  <2> QED
    BY <2>1, <2>5, <2>6
<1>5. store' = WithRows(w, E) /\ latest' = WithNewest(flushed, store, E, l)
  BY DEF Passes, Settles
<1>6. Apart(latest)
  BY RowsApart
<1>7. K \subseteq Kind /\ \A k \in Kind : k \in K <=> latest[k].unwritten
  OBVIOUS
<1>8. w \in Seq(RowType(D)) /\ Len(w) = n
  <2>1. K \subseteq Kind /\ \A j \in K : latest[j].repeats \in Nat
    BY <1>1 DEF NewestType
  <2> HIDE DEF K, D, n
  <2>2. /\ w \in Seq(RowType(D)) /\ Len(w) = Len(store)
        /\ \A i \in DOMAIN store : w[i].event = store[i].event
    BY <1>1, <2>1, CountsWritten
  <2> QED
    BY <2>2 DEF n
<1>9. \A k \in Kind : /\ flushed[k].row = latest[k].row /\ flushed[k].repeats = latest[k].repeats
                      /\ ~ flushed[k].unwritten
  <2> SUFFICES ASSUME NEW k \in Kind
               PROVE  /\ [latest[k] EXCEPT !.unwritten = FALSE].row = latest[k].row
                      /\ [latest[k] EXCEPT !.unwritten = FALSE].repeats = latest[k].repeats
                      /\ ~ [latest[k] EXCEPT !.unwritten = FALSE].unwritten
    OBVIOUS
  <2>1. latest[k] \in NewestType(n)
    BY <1>1
  <2> QED
    BY <2>1 DEF NewestType
<1>10. \A e \in E : \E q \in Q : e = held[q]
  OBVIOUS
<1>11. \A q \in Q : held[q] \in E
  OBVIOUS
<1> HIDE DEF D, K, E, flushed, l
<1>12. ASSUME NEW i \in 1 .. n PROVE w[i].repeats = Mem(latest, store, i)
  <2>1. CASE \E k \in Kind : latest[k].row = i /\ latest[k].unwritten
    <3> PICK k \in Kind : latest[k].row = i /\ latest[k].unwritten
      BY <2>1
    <3>1. Mem(latest, store, i) = latest[k].repeats
      BY <1>1, <1>6, RememberedCount
    <3>2. k \in K /\ \A j \in K : latest[j].row = i => j = k
      BY <1>1, <1>6, <1>7 DEF Apart
    <3>3. w[i].repeats = latest[k].repeats
      BY <1>1, <1>7, <3>2, WrittenTakes
    <3> QED
      BY <3>1, <3>3
  <2>2. CASE \A k \in Kind : latest[k].row = i => ~ latest[k].unwritten
    <3>1. Mem(latest, store, i) = store[i].repeats
      BY <2>2, WrittenCount
    <3>2. \A j \in K : latest[j].row # i
      BY <1>7, <2>2
    <3>3. w[i].repeats = store[i].repeats
      BY <1>1, <1>7, <3>2, WrittenKeeps
    <3> QED
      BY <3>1, <3>3
  <2> QED
    BY <2>1, <2>2
<1> HIDE DEF w
<1>13. Len(store') = n + Cardinality(E) /\ \A i \in 1 .. n : store'[i] = w[i]
  <2>1. Added(D, w, E)
    BY <1>4, <1>8, RowsAdded
  <2> QED
    BY <1>5, <1>8, <2>1 DEF Added
<1>14. \A i \in n + 1 .. Len(store') : store'[i].repeats = 1
  <2>1. \A i \in NewRows(w, E) : WithRows(w, E)[i].repeats = 1
    BY <1>4, <1>8, RowsOfOne
  <2>2. NewRows(w, E) = n + 1 .. Len(store')
    BY <1>8, <1>13 DEF NewRows
  <2> QED
    BY <1>5, <2>1, <2>2
<1>15. ASSUME NEW k \in Kind
       PROVE  /\ ~ latest'[k].unwritten
              /\ \/ latest'[k].row = latest[k].row /\ latest'[k].repeats = latest[k].repeats
                 \/ latest'[k].row \in n + 1 .. Len(store') /\ latest'[k].repeats = 1
  <2> DEFINE new == WithNewest(flushed, store, E, l)[k]
  <2>1. CASE \E e \in E : l[e].kind = k
    <3>1. PICK e \in E : l[e].kind = k
      BY <2>1
    <3>2. new.row \in NewRows(store, E)
      BY <1>1, <1>4, <3>1, NewestOfOne
    <3>3. new.repeats \in {1}
      BY <1>1, <1>4, <3>1, NewestOfOne
    <3>4. ~ new.unwritten
      BY <1>1, <1>4, <3>1, NewestOfOne
    <3>5. latest'[k] = new /\ NewRows(store, E) = n + 1 .. Len(store')
      BY <1>5, <1>13 DEF NewRows
    <3> HIDE DEF new
    <3> QED
      BY <3>2, <3>3, <3>4, <3>5
  <2>2. CASE \A e \in E : l[e].kind # k
    <3>1. new = flushed[k]
      BY <1>1, <1>4, <2>2, NewestStays
    <3>2. latest'[k] = new
      BY <1>5
    <3> HIDE DEF new
    <3> QED
      BY <1>9, <3>1, <3>2
  <2> QED
    BY <2>1, <2>2
<1> QED
  BY <1>3, <1>4, <1>12, <1>13, <1>14, <1>15

LEMMA SettlesTally ==
  ASSUME GuardAssumption, TypeOK, TypeOK', LatestInv, replays = 0, floor = 0,
         Synced(latest, store), IsFiniteSet(Copies(Count)), NEW Q, NEW calm, Passes(Q, calm)
  PROVE  /\ Synced(latest', store') /\ IsFiniteSet(Copies(Count'))
         /\ Cardinality(Copies(Count')) = Cardinality(Copies(Count)) + Cardinality(Q)
         /\ Cardinality(Q) \in Nat /\ \A k \in Kind : ~ latest'[k].unwritten
<1>1. /\ Cardinality(Q) \in Nat /\ Len(store') = Len(store) + Cardinality(Q)
      /\ \A i \in 1 .. Len(store) : store'[i].repeats = Mem(latest, store, i)
      /\ \A i \in Len(store) + 1 .. Len(store') : store'[i].repeats = 1
  BY SettlesOne
<1>2. \A k \in Kind :
        /\ ~ latest'[k].unwritten
        /\ \/ latest'[k].row = latest[k].row /\ latest'[k].repeats = latest[k].repeats
           \/ latest'[k].row \in Len(store) + 1 .. Len(store') /\ latest'[k].repeats = 1
  BY SettlesOne
<1>3. /\ Apart(latest) /\ Len(store) \in Nat /\ Len(store') \in Nat /\ Len(store) <= Len(store')
      /\ \A k \in Kind : latest[k].row \in 0 .. Len(store)
  BY <1>1, RowsApart, TypesAre DEF NewestType
<1>4. Synced(latest', store')
  <2> SUFFICES ASSUME NEW k \in Kind, latest'[k].row # 0
               PROVE  store'[latest'[k].row].repeats = latest'[k].repeats
    BY DEF Synced
  <2>1. CASE latest'[k].row = latest[k].row /\ latest'[k].repeats = latest[k].repeats
    <3>1. Mem(latest, store, latest[k].row) = latest[k].repeats
      BY <1>3, <2>1, RememberedCount
    <3>2. latest[k].row \in 1 .. Len(store)
      BY <1>3, <2>1
    <3> QED
      BY <1>1, <2>1, <3>1, <3>2
  <2>2. CASE latest'[k].row \in Len(store) + 1 .. Len(store') /\ latest'[k].repeats = 1
    BY <1>1, <2>2
  <2> QED
    BY <1>2, <2>1, <2>2
<1>5. /\ Count \in [1 .. Len(store) -> Nat] /\ Count' \in [1 .. Len(store') -> Nat]
      /\ \A i \in 1 .. Len(store) : Count[i] = Mem(latest, store, i)
      /\ \A i \in 1 .. Len(store') : Count'[i] = Mem(latest', store', i)
  BY CountIs, CountIsNext
<1>6. \A i \in 1 .. Len(store') : Count'[i] = store'[i].repeats
  <2> SUFFICES ASSUME NEW i \in 1 .. Len(store') PROVE Mem(latest', store', i) = store'[i].repeats
    BY <1>5
  <2> DEFINE m == latest'
             t == store'
  <2>1. \A k \in Kind : m[k].row = i => ~ m[k].unwritten
    BY <1>2
  <2> HIDE DEF m, t
  <2>2. Mem(m, t, i) = t[i].repeats
    BY <2>1, WrittenCount
  <2> QED
    BY <2>2 DEF m, t
<1>7. /\ \A i \in 1 .. Len(store) : i \in 1 .. Len(store') /\ Count'[i] = Count[i]
      /\ \A i \in Len(store) + 1 .. Len(store') : i \in 1 .. Len(store') /\ Count'[i] = 1
  <2>1. /\ \A i \in 1 .. Len(store) : i \in 1 .. Len(store')
        /\ \A i \in Len(store) + 1 .. Len(store') : i \in 1 .. Len(store')
    BY <1>3
  <2> QED
    BY <1>1, <1>5, <1>6, <2>1
<1>8. /\ IsFiniteSet(Copies(Count'))
      /\ Cardinality(Copies(Count')) = Cardinality(Copies(Count)) + Cardinality(Q)
  <2>1. PICK n, m, q : n = Len(store) /\ m = Len(store') /\ q = Cardinality(Q)
    OBVIOUS
  <2>2. /\ n \in Nat /\ m \in Nat /\ n <= m /\ Count \in [1 .. n -> Nat] /\ Count' \in [1 .. m -> Nat]
        /\ \A i \in 1 .. n : Count'[i] = Count[i]
        /\ \A i \in n + 1 .. m : Count'[i] = 1
    BY <1>3, <1>5, <1>7, <2>1
  <2>3. /\ IsFiniteSet(Copies(Count'))
        /\ Cardinality(Copies(Count')) = Cardinality(Copies(Count)) + (m - n)
    BY <2>2, CountRowsMore
  <2>4. m - n = q
    BY <1>1, <2>1, <2>2
  <2> QED
    BY <2>1, <2>3, <2>4
<1> QED
  BY <1>1, <1>2, <1>4, <1>8

-----------------------------------------------------------------------------
(* The count, step by step.                                                *)

LEMMA CountedInit ==
  ASSUME GuardAssumption, Init
  PROVE  Counted
<1>1. /\ log = <<>> /\ store = <<>> /\ told = 0 /\ episode = Unguarded
      /\ latest = [k \in Kind |-> NoRow] /\ held = [k \in Kind |-> 0]
  BY DEF Init
<1>2. /\ \A k \in Kind : latest[k].row = 0 /\ ~ latest[k].unwritten /\ held[k] = 0
  BY <1>1 DEF NoRow
<1>3. Synced(latest, store) /\ Waiting = {}
  BY <1>2 DEF Synced, Waiting
<1>4. Copies(Count) = {}
  <2>1. DOMAIN Count = {}
    BY <1>1 DEF Count
  <2> QED
    BY <2>1 DEF Copies
<1>5. IsFiniteSet(Copies(Count)) /\ Cardinality(Copies(Count)) = 0 /\ Cardinality(Waiting) = 0
  BY <1>3, <1>4, FS_EmptySet
<1>6. Pending(episode) = 0 /\ Len(log) = 0
  BY <1>1 DEF Pending
<1> QED
  BY <1>1, <1>2, <1>3, <1>5, <1>6 DEF Counted

\* An event that no row, count or wait accounts for yet.
LEMMA ArrivesCounted ==
  ASSUME GuardAssumption, TypeOK, TypeOK', LatestInv, LatestInv', Counted, Arrives
  PROVE  Counted'
<1>1. /\ Len(log') \in Nat /\ at' = at + 1
      /\ at = Len(log) => Len(log') = at + 1
      /\ log'[at + 1].kind \in Kind /\ Ingest(at + 1) /\ replays' = replays
  BY ArrivalIs
<1>2. floor' = floor /\ told' = told
  BY <1>1 DEF Ingest
<1>3. SUFFICES ASSUME floor = 0, replays = 0, floor' = 0, replays' = 0
               PROVE  /\ Synced(latest', store')
                      /\ episode' = Unguarded => Waiting' = {} /\ \A k \in Kind : ~ latest'[k].unwritten
                      /\ IsFiniteSet(Copies(Count'))
                      /\ Cardinality(Copies(Count')) + Cardinality(Waiting)' + told' + Pending(episode')
                           = Len(log')
  BY <1>1, <1>2 DEF Counted
<1>4. /\ Synced(latest, store)
      /\ episode = Unguarded => Waiting = {} /\ \A k \in Kind : ~ latest[k].unwritten
      /\ IsFiniteSet(Copies(Count))
      /\ Cardinality(Copies(Count)) + Cardinality(Waiting) + told + Pending(episode) = Len(log)
  BY <1>3 DEF Counted
<1>5. /\ Len(log) \in Nat /\ Len(store) \in Nat /\ DOMAIN store = 1 .. Len(store)
      /\ \A i \in 1 .. Len(store) : store[i].event \in 1 .. Len(log)
      /\ told \in Nat /\ episode \in Nat \cup {Unguarded} /\ at = Len(log)
      /\ Len(log') = Len(log) + 1
  <2>1. /\ Len(log) \in Nat /\ Len(store) \in Nat /\ DOMAIN store = 1 .. Len(store)
        /\ \A i \in 1 .. Len(store) : store[i].event \in 1 .. Len(log)
    BY TypesAre
  <2>2. told \in Nat /\ episode \in Nat \cup {Unguarded}
    BY DEF TypeOK
  <2>3. at = Len(log)
    BY <1>3 DEF LatestInv
  <2> QED
    BY <1>1, <2>1, <2>2, <2>3
<1>6. Admit(at + 1)
  <2>1. ~ Known(at + 1)
    <3>1. \A i \in floor + 1 .. Len(store) : i \in 1 .. Len(store)
      BY <1>3, <1>5
    <3>2. \A i \in floor + 1 .. Len(store) : store[i].event # at + 1
      BY <1>5, <3>1
    <3> QED
      BY <3>2 DEF Known
  <2> QED
    BY <1>1, <2>1 DEF Ingest
<1> DEFINE k == log'[at + 1].kind
           was == Cardinality(Copies(Count))
           is == Cardinality(Copies(Count'))
           waited == Cardinality(Waiting)
           waits == Cardinality(Waiting)'
           ended == Pending(episode)
           ends == Pending(episode')
<1>7. was \in Nat /\ waited \in Nat /\ ended \in Nat /\ was + waited + told + ended = Len(log)
  <2>1. was \in Nat
    BY <1>4, FS_CardinalityType
  <2>2. waited \in Nat
    BY WaitingFinite
  <2>3. Pending(episode) \in Nat
    BY <1>5 DEF Pending
  <2> QED
    BY <1>4, <2>1, <2>2, <2>3
<1>8. CASE Repeated(at + 1) /\ Counts(at + 1)
  <2>1. /\ Synced(latest', store') /\ IsFiniteSet(Copies(Count')) /\ is = was + 1
        /\ (\A j \in Kind : ~ latest[j].unwritten) /\ Guard = Unguarded
              => \A j \in Kind : ~ latest'[j].unwritten
    BY <1>3, <1>4, <1>8, CountsTally
  <2>2. held' = [held EXCEPT ![k] = 0] /\ episode' = Thinned(k)
    BY <1>8 DEF Counts
  <2>3. /\ waits + ends = waited + ended + 0
        /\ waits \in Nat /\ ends \in Nat
        /\ episode' = Unguarded => Guard = Unguarded /\ episode = Unguarded /\ Waiting' = {}
    BY <1>1, <1>4, <2>2, WaitingThinned
  <2>4. is + waits + told' + ends = Len(log')
    <3>1. is = was + 1 /\ waits + ends = waited + ended + 0 /\ waits \in Nat /\ ends \in Nat
      BY <2>1, <2>3, Zenon
    <3> HIDE DEF was, is, waits, waited, ended, ends
    <3> QED
      BY <1>2, <1>5, <1>7, <3>1
  <2> QED
    BY <1>4, <2>1, <2>3, <2>4
<1>9. CASE Stores(at + 1) /\ ~ Over
  <2>1. /\ Synced(latest', store') /\ IsFiniteSet(Copies(Count')) /\ is = was + 1
        /\ (\A j \in Kind : ~ latest[j].unwritten) => \A j \in Kind : ~ latest'[j].unwritten
    BY <1>3, <1>4, <1>9, StoresTally
  <2>2. held' = [held EXCEPT ![k] = 0] /\ episode' = Thinned(k)
    BY <1>9 DEF Stores
  <2>3. /\ waits + ends = waited + ended + 0
        /\ waits \in Nat /\ ends \in Nat
        /\ episode' = Unguarded => Guard = Unguarded /\ episode = Unguarded /\ Waiting' = {}
    BY <1>1, <1>4, <2>2, WaitingThinned
  <2>4. is + waits + told' + ends = Len(log')
    <3>1. is = was + 1 /\ waits + ends = waited + ended + 0 /\ waits \in Nat /\ ends \in Nat
      BY <2>1, <2>3, Zenon
    <3> HIDE DEF was, is, waits, waited, ended, ends
    <3> QED
      BY <1>2, <1>5, <1>7, <3>1
  <2> QED
    BY <1>4, <2>1, <2>3, <2>4
<1>10. CASE Holds(at + 1) /\ Over
  <2>1. store' = store /\ latest' = latest /\ Count' = Count
    BY <1>10 DEF Holds, Count, InMemory
  <2>2. held' = [held EXCEPT ![k] = at + 1] /\ episode' = Thinned(k) /\ at + 1 # 0
    BY <1>5, <1>10 DEF Holds
  <2>3. Guard # Unguarded
    BY <1>10 DEF Guard, Unguarded
  <2>4. /\ waits + ends = waited + ended + 1
        /\ waits \in Nat /\ ends \in Nat /\ episode' # Unguarded
    BY <1>1, <1>4, <2>2, <2>3, WaitingThinned
  <2>5. is + waits + told' + ends = Len(log')
    <3>1. is = was
      BY <2>1
    <3> HIDE DEF was, is, waits, waited, ended, ends
    <3> QED
      BY <1>2, <1>5, <1>7, <2>4, <3>1
  <2> QED
    BY <1>4, <2>1, <2>4, <2>5
<1> QED
  BY <1>6, <1>8, <1>9, <1>10 DEF Admit

LEMMA SettlesCounted ==
  ASSUME GuardAssumption, TypeOK, TypeOK', LatestInv, Counted, NEW Q, NEW calm, Passes(Q, calm)
  PROVE  Counted'
<1>1. /\ log' = log /\ replays' = replays /\ floor' = floor
      /\ held' = [k \in Kind |-> IF k \in Q THEN 0 ELSE held[k]]
      /\ episode' = (IF calm THEN Unguarded ELSE episode)
      /\ told' = (IF calm THEN told + episode ELSE told)
      /\ Q \in SUBSET Waiting /\ (calm => Q = Waiting) /\ calm \in BOOLEAN /\ episode # Unguarded
  BY DEF Passes, Settles, posting
<1>2. SUFFICES ASSUME floor = 0, replays = 0 PROVE
        /\ Synced(latest', store')
        /\ episode' = Unguarded => Waiting' = {} /\ \A k \in Kind : ~ latest'[k].unwritten
        /\ IsFiniteSet(Copies(Count'))
        /\ Cardinality(Copies(Count')) + Cardinality(Waiting)' + told' + Pending(episode') = Len(log')
  BY <1>1 DEF Counted
<1>3. /\ Synced(latest, store) /\ IsFiniteSet(Copies(Count))
      /\ Cardinality(Copies(Count)) + Cardinality(Waiting) + told + Pending(episode) = Len(log)
  BY <1>2 DEF Counted
<1>4. /\ Synced(latest', store') /\ IsFiniteSet(Copies(Count'))
      /\ Cardinality(Copies(Count')) = Cardinality(Copies(Count)) + Cardinality(Q)
      /\ Cardinality(Q) \in Nat /\ \A k \in Kind : ~ latest'[k].unwritten
  BY <1>2, <1>3, SettlesTally
<1>5. Waiting' = Waiting \ Q
  <2>1. Waiting' = {k \in Kind : held'[k] # 0}
    BY DEF Waiting
  <2> QED
    BY <1>1, <2>1 DEF Waiting
<1>6. Cardinality(Waiting)' = Cardinality(Waiting) - Cardinality(Q)
  <2>1. IsFiniteSet(Waiting) /\ Waiting \cap Q = Q
    BY <1>1, WaitingFinite
  <2>2. Cardinality(Waiting \ Q) = Cardinality(Waiting) - Cardinality(Waiting \cap Q)
    BY <2>1, FS_Difference
  <2>3. Cardinality(Waiting)' = Cardinality(Waiting \ Q)
    BY <1>5
  <2> QED
    BY <2>1, <2>2, <2>3
<1> DEFINE was == Cardinality(Copies(Count))
           is == Cardinality(Copies(Count'))
           waited == Cardinality(Waiting)
           waits == Cardinality(Waiting)'
           q == Cardinality(Q)
<1>7. /\ was \in Nat /\ waited \in Nat /\ q \in Nat /\ told \in Nat
      /\ episode \in Nat \cup {Unguarded} /\ Pending(episode) = episode
      /\ is = was + q /\ waits = waited - q /\ was + waited + told + Pending(episode) = Len(log)
  <2>1. was \in Nat
    BY <1>3, FS_CardinalityType
  <2>2. waited \in Nat
    BY WaitingFinite
  <2> QED
    BY <1>1, <1>3, <1>4, <1>6, <2>1, <2>2 DEF TypeOK, Pending
<1>8. is + waits + told' + Pending(episode') = Len(log')
  <2> HIDE DEF was, is, waits, waited, q
  <2>1. CASE calm
    <3>1. Pending(episode') = 0
      BY <1>1, <2>1 DEF Pending
    <3> QED
      BY <1>1, <1>7, <2>1, <3>1 DEF Unguarded
  <2>2. CASE ~ calm
    BY <1>1, <1>7, <2>2 DEF Unguarded
  <2> QED
    BY <1>1, <2>1, <2>2
<1>9. episode' = Unguarded => Waiting' = {}
  BY <1>1, <1>5
<1> QED
  BY <1>4, <1>8, <1>9

LEMMA RestsCounted ==
  ASSUME GuardAssumption, TypeOK, TypeOK', Counted, Rests
  PROVE  Counted'
<1>1. log' = log /\ store' = store /\ held' = held /\ episode' = episode /\ told' = told
  BY RestsIs
<1>2. Waiting' = Waiting
  BY <1>1 DEF Waiting
<1>3. CASE AnswerLost
  <2>1. replays' # 0
    BY <1>3 DEF AnswerLost, TypeOK
  <2> QED
    BY <2>1 DEF Counted
<1>4. CASE Prune
  <2>1. floor' # 0
    BY <1>4 DEF Prune
  <2> QED
    BY <2>1 DEF Counted
<1>5. ASSUME floor' = floor, replays' = replays,
             floor = 0 /\ replays = 0 => Synced(latest', store),
             \A k \in Kind : latest'[k].unwritten => latest[k].unwritten,
             floor = 0 /\ replays = 0 => Count' = Count
      PROVE  Counted'
  <2>1. CASE ~ (floor = 0 /\ replays = 0)
    BY <1>5, <2>1 DEF Counted
  <2>2. CASE floor = 0 /\ replays = 0
    BY <1>1, <1>2, <1>5, <2>2 DEF Counted
  <2> QED
    BY <2>1, <2>2
<1>6. CASE StartsOver
  <2>1. floor' = floor /\ replays' = replays /\ episode = Unguarded
    BY <1>6 DEF StartsOver, posting, table
  <2>2. \A k \in Kind : latest'[k].row = 0 /\ ~ latest'[k].unwritten
    BY <1>6 DEF StartsOver, NoRow
  <2>3. Synced(latest', store)
    BY <2>2 DEF Synced
  <2>4. floor = 0 /\ replays = 0 => Count' = Count
    <3> SUFFICES ASSUME floor = 0, replays = 0 PROVE Count' = Count
      OBVIOUS
    <3>1. \A k \in Kind : ~ latest[k].unwritten
      BY <2>1 DEF Counted
    <3>2. \A i : InMemory(i) = store[i].repeats
      BY <3>1 DEF InMemory
    <3>3. \A i : InMemory(i)' = store[i].repeats
      BY <1>1, <2>2 DEF InMemory
    <3> QED
      BY <1>1, <3>2, <3>3 DEF Count
  <2> QED
    BY <1>5, <2>1, <2>2, <2>3, <2>4
<1>7. ASSUME floor' = floor, replays' = replays,
             \A k \in Kind : /\ latest'[k].row = latest[k].row
                             /\ latest'[k].repeats = latest[k].repeats
                             /\ latest'[k].unwritten = latest[k].unwritten
      PROVE  Counted'
  <2>1. floor = 0 /\ replays = 0 => Synced(latest', store)
    BY <1>7 DEF Counted, Synced
  <2>2. \A i : InMemory(i)' = InMemory(i)
    <3> TAKE i
    <3>1. {k \in Kind : latest'[k].row = i /\ latest'[k].unwritten}
          = {k \in Kind : latest[k].row = i /\ latest[k].unwritten}
      BY <1>7
    <3> DEFINE mine == {k \in Kind : latest[k].row = i /\ latest[k].unwritten}
               one == CHOOSE k \in mine : TRUE
    <3>2. mine # {} => one \in Kind
      OBVIOUS
    <3>3. mine # {} => latest'[one].repeats = latest[one].repeats
      <4> HIDE DEF one
      <4> QED
        BY <1>7, <3>2
    <3>4. InMemory(i) = IF mine = {} THEN store[i].repeats ELSE latest[one].repeats
      BY DEF InMemory
    <3>5. InMemory(i)' = IF mine = {} THEN store[i].repeats ELSE latest'[one].repeats
      <4>1. InMemory(i)' =
              LET set == {k \in Kind : latest'[k].row = i /\ latest'[k].unwritten}
              IN  IF set = {} THEN store'[i].repeats ELSE latest'[CHOOSE k \in set : TRUE].repeats
        BY DEF InMemory
      <4> QED
        BY <1>1, <3>1, <4>1
    <3> HIDE DEF mine, one
    <3> QED
      BY <3>3, <3>4, <3>5
  <2>3. Count' = Count
    BY <1>1, <2>2 DEF Count
  <2> QED
    BY <1>5, <1>7, <2>1, <2>3
<1>8. CASE TokenBack \/ DayPasses
  BY <1>7, <1>8 DEF TokenBack, DayPasses, posting, table
<1>9. CASE \E k \in Kind : RowGoesStale(k)
  <2> PICK j \in Kind : RowGoesStale(j)
    BY <1>9
  <2>1. floor' = floor /\ replays' = replays
    BY DEF RowGoesStale, posting, table
  <2>2. latest \in [Kind -> NewestType(Len(store))]
    BY TypesAre
  <2> DEFINE l == latest[j]
             new == [l EXCEPT !.fresh = FALSE]
  <2>3. latest' = [latest EXCEPT ![j] = new] /\ l \in NewestType(Len(store))
    BY <2>2 DEF RowGoesStale
  <2>4. new.row = l.row /\ new.repeats = l.repeats /\ new.unwritten = l.unwritten
    <3> HIDE DEF l
    <3> QED
      BY <2>3 DEF NewestType
  <2> HIDE DEF new
  <2>5. \A k \in Kind : /\ latest'[k].row = latest[k].row
                        /\ latest'[k].repeats = latest[k].repeats
                        /\ latest'[k].unwritten = latest[k].unwritten
    BY <2>2, <2>3, <2>4
  <2> QED
    BY <1>7, <2>1, <2>5
<1> QED
  BY <1>3, <1>4, <1>6, <1>8, <1>9 DEF Rests

LEMMA CountedStep ==
  ASSUME GuardAssumption, TypeOK, LatestInv, Counted, [Next]_vars
  PROVE  Counted'
<1>0. TypeOK' /\ LatestInv'
  BY TypesStep, LatestStep
<1>1. CASE UNCHANGED vars
  <2>1. /\ log' = log /\ replays' = replays /\ store' = store /\ floor' = floor
        /\ latest' = latest /\ held' = held /\ episode' = episode /\ told' = told
    BY <1>1 DEF vars, posting, table, source
  <2>2. Waiting' = Waiting
    BY <2>1 DEF Waiting
  <2>3. Count' = Count
    BY <2>1 DEF Count, InMemory
  <2> QED
    BY <2>1, <2>2, <2>3 DEF Counted
<1>2. CASE Next
  <2>1. ASSUME NEW Q, NEW calm, Passes(Q, calm) PROVE Counted'
    BY <1>0, <2>1, SettlesCounted
  <2> QED
    BY <1>0, <1>2, <2>1, GuardSteps, ArrivesCounted, RestsCounted
<1> QED
  BY <1>1, <1>2

LEMMA CountedHolds ==
  ASSUME GuardAssumption, TypeOK, Counted
  PROVE  EveryEventCounted
<1> SUFFICES ASSUME floor = 0, replays = 0
             PROVE  /\ Cardinality(Copies([i \in DOMAIN store |-> InMemory(i)]))
                         + Cardinality(Waiting) + told
                         + (IF episode = Unguarded THEN 0 ELSE episode) = Len(log)
                    /\ episode = Unguarded =>
                         Cardinality(Copies([i \in DOMAIN store |-> store[i].repeats])) + told
                           = Len(log)
  BY DEF EveryEventCounted
<1>1. /\ episode = Unguarded => Waiting = {} /\ \A k \in Kind : ~ latest[k].unwritten
      /\ IsFiniteSet(Copies(Count))
      /\ Cardinality(Copies(Count)) + Cardinality(Waiting) + told + Pending(episode) = Len(log)
  BY DEF Counted
<1>2. /\ Cardinality(Copies([i \in DOMAIN store |-> InMemory(i)]))
           + Cardinality(Waiting) + told
           + (IF episode = Unguarded THEN 0 ELSE episode) = Len(log)
  BY <1>1 DEF Count, Pending
<1>3. ASSUME episode = Unguarded
      PROVE  Cardinality(Copies([i \in DOMAIN store |-> store[i].repeats])) + told = Len(log)
  <2>1. \A i : InMemory(i) = store[i].repeats
    BY <1>1, <1>3 DEF InMemory
  <2>2. Count = [i \in DOMAIN store |-> store[i].repeats]
    BY <2>1 DEF Count
  <2> DEFINE c == Cardinality(Copies(Count))
  <2>3. c \in Nat /\ told \in Nat
    BY <1>1, FS_CardinalityType DEF TypeOK
  <2>4. Cardinality(Waiting) = 0 /\ Pending(episode) = 0
    BY <1>1, <1>3, FS_EmptySet DEF Pending
  <2>5. c + 0 + told + 0 = Len(log)
    BY <1>1, <2>4
  <2> HIDE DEF c
  <2>6. c + told = Len(log)
    BY <2>3, <2>5
  <2> QED
    BY <2>2, <2>6 DEF c
<1> QED
  BY <1>2, <1>3

\* Until an answer is lost or a row deleted, every event posted is a row, a repeat, held or
\* thinned, and only once, for any types, limits and number of events.
THEOREM EveryEventAlwaysCounted == Spec => []EveryEventCounted
<1>1. Init => TypeOK /\ LatestInv /\ Counted
  BY GuardAssumption, TypesInit, KeptInit, CountedInit
<1>2. TypeOK /\ LatestInv /\ Counted /\ [Next]_vars => TypeOK' /\ LatestInv' /\ Counted'
  BY GuardAssumption, TypesStep, LatestStep, CountedStep
<1>3. TypeOK /\ Counted => EveryEventCounted
  BY GuardAssumption, CountedHolds
<1> QED
  BY <1>1, <1>2, <1>3, PTL DEF Spec

-----------------------------------------------------------------------------
(* The share of a day.                                                     *)

LEMMA SettleWithin ==
  ASSUME GuardAssumption, TypeOK, NEW Q \in SUBSET Waiting, Settle(Q)
  PROVE  rows' <= rows \/ rows' <= DailyRows + BurstTokens
<1> DEFINE q == Cardinality(Q)
           top == DailyRows + BurstTokens
<1>1. PICK calm \in BOOLEAN : Settles(Q, calm) /\ episode # Unguarded
  BY DEF Settle
<1>2. Settled(Q)
  BY <1>1, SettlesIs
<1>3. q \in Nat /\ rows' \in Nat /\ rows \in Nat /\ (Q = {} => rows' = rows) /\ rows' <= rows + q
  BY <1>2 DEF Settled, TypeOK
<1>4. IsFiniteSet(Q) /\ (q = 0 => Q = {})
  BY <1>2, FS_EmptySet DEF Settled
<1>5. top \in Nat /\ Allowance = top - rows
  <2>1. top \in Nat
    BY DEF GuardAssumption
  <2>2. DailyRows \in Int /\ BurstTokens \in Int /\ rows \in Int
    BY <1>3 DEF GuardAssumption
  <2> QED
    BY <2>1, <2>2 DEF Allowance
<1>6. q <= Max({0, Allowance})
  BY DEF Settle
<1> HIDE DEF q, top
<1>7. Max({0, Allowance}) = IF Allowance > 0 THEN Allowance ELSE 0
  BY <1>3, <1>5, MaxOfTwo
<1> QED
  BY <1>3, <1>4, <1>5, <1>6, <1>7 DEF top

LEMMA ArrivesWithin ==
  ASSUME GuardAssumption, TypeOK, Arrives
  PROVE  rows' <= rows \/ rows' <= DailyRows + BurstTokens
<1>1. RowsToday \in Nat /\ RowsToday <= rows /\ Ingest(at + 1) /\ rows \in Nat
  BY TypesAre, ArrivalIs DEF TypeOK
<1>2. CASE rows' = rows
  BY <1>1, <1>2
<1>3. CASE Admit(at + 1)
  <2>1. CASE rows' = RowsToday
    BY <1>1, <2>1
  <2>2. CASE ~ Over /\ rows' = RowsToday + 1
    BY <1>1, <2>2 DEF Over, GuardAssumption
  <2> QED
    BY <1>3, <2>1, <2>2 DEF Admit, Counts, Stores, Holds
<1> QED
  BY <1>1, <1>2, <1>3 DEF Ingest, source

\* No event and no pass takes a day past its share by more than a burst, for any limits.
THEOREM ShareAlwaysHolds == Spec => ShareHolds
<1>1. Init => TypeOK
  BY GuardAssumption, TypesInit
<1>2. TypeOK /\ [Next]_vars => TypeOK'
  BY GuardAssumption, TypesStep
<1>3. TypeOK /\ [Next]_vars =>
        [(\E Q \in SUBSET Waiting : Settle(Q)) \/ Arrives
           => rows' <= Max({rows, DailyRows + BurstTokens})]_vars
  <2> SUFFICES ASSUME TypeOK, [Next]_vars,
                      (\E Q \in SUBSET Waiting : Settle(Q)) \/ Arrives
               PROVE  rows' <= Max({rows, DailyRows + BurstTokens})
    OBVIOUS
  <2>1. rows' <= rows \/ rows' <= DailyRows + BurstTokens
    BY GuardAssumption, SettleWithin, ArrivesWithin
  <2>2. rows \in Nat /\ rows' \in Nat /\ DailyRows + BurstTokens \in Nat
    BY GuardAssumption, <1>2 DEF TypeOK, GuardAssumption
  <2>3. Max({rows, DailyRows + BurstTokens}) =
          IF DailyRows + BurstTokens > rows THEN DailyRows + BurstTokens ELSE rows
    BY <2>2, MaxOfTwo
  <2> QED
    BY <2>1, <2>2, <2>3
<1> QED
  BY <1>1, <1>2, <1>3, PTL DEF Spec, ShareHolds

=============================================================================
