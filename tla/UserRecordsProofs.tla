------------------------- MODULE UserRecordsProofs -------------------------
(***************************************************************************)
(* Facts about the statements on the users table and about the row that    *)
(* get_user takes for the current one, for every set of rows.              *)
(***************************************************************************)
EXTENDS UserRecords, FiniteSetTheorems, WellFoundedInduction, TLAPS

UniqueUids(rows) == \A r, s \in rows : r.uid = s.uid => r = s

(* What every statement but an insertion or a deletion does to the table.  *)
Evolves(rows, rows2) ==
    /\ rows2 \in SUBSET Rows
    /\ \A r \in rows : \E s \in rows2 : Advances(r, s)
    /\ \A s \in rows2 : \E r \in rows : Advances(r, s)
    /\ UniqueUids(rows) => UniqueUids(rows2)

-----------------------------------------------------------------------------
(* An in-place update never moves a timestamp back.                        *)
LEMMA UpdateInPlaceEvolves ==
    ASSUME NEW rows \in SUBSET Rows,
           NEW generation \in Generations \cup {NULL},
           NEW keys \in Generations \cup {NULL}
    PROVE  Evolves(rows, UpdateUserRecordInPlace(rows, generation, keys))
<1> DEFINE f(row) == IF UpdatedInPlace(row, generation, keys)
                     THEN [row EXCEPT
                             !.generation = Coalesce(generation, @),
                             !.keys_changed_at = Coalesce(keys, @)]
                     ELSE row
<1>1. \A r \in rows : f(r) \in Rows /\ Advances(r, f(r))
  <2> TAKE r \in rows
  <2> DEFINE g == Coalesce(generation, r.generation)
             k == Coalesce(keys, r.keys_changed_at)
  <2>1. g \in Generations /\ k \in Generations
    BY DEF Rows, Coalesce
  <2>2. CASE UpdatedInPlace(r, generation, keys)
    <3> DEFINE raised == [r EXCEPT !.generation = g]
    <3>1. g >= r.generation /\ k >= r.keys_changed_at
      BY <2>1, <2>2, MaxGenerationAssumption
         DEF UpdatedInPlace, Rows, Generations
    <3>2. f(r) = [raised EXCEPT !.keys_changed_at = k]
      BY <2>2
    <3> HIDE DEF f, g, k
    <3>3. raised \in Rows /\ Advances(r, raised)
      BY <2>1, <3>1 DEF Rows, Generations, Advances, Active
    <3>4. raised.keys_changed_at = r.keys_changed_at
      BY DEF Rows
    <3> HIDE DEF raised
    <3>5. QED
      BY <2>1, <3>1, <3>2, <3>3, <3>4 DEF Rows, Advances, Active
  <2>3. CASE ~UpdatedInPlace(r, generation, keys)
    BY <2>3, MaxGenerationAssumption DEF Rows, Generations, Advances
  <2>4. QED
    BY <2>2, <2>3
<1>2. UpdateUserRecordInPlace(rows, generation, keys) = {f(r) : r \in rows}
  BY DEF UpdateUserRecordInPlace
<1> HIDE DEF f
<1>3. QED
  BY <1>1, <1>2 DEF Evolves, UniqueUids, Advances

(* Marking the older rows as replaced changes nothing else about them.     *)
LEMMA ReplaceOlderEvolves ==
    ASSUME NEW rows \in SUBSET Rows, NEW timestamp \in Nat
    PROVE  Evolves(rows, ReplaceUserRecords(rows, timestamp))
<1> DEFINE f(row) == IF Active(row) /\ row.created_at < timestamp
                     THEN [row EXCEPT !.replaced_at = timestamp]
                     ELSE row
<1>1. \A r \in rows : f(r) \in Rows /\ Advances(r, f(r))
  BY DEF Rows, Generations, NULL, Advances, Active
<1>2. ReplaceUserRecords(rows, timestamp) = {f(r) : r \in rows}
  BY DEF ReplaceUserRecords
<1> HIDE DEF f
<1>3. QED
  BY <1>1, <1>2 DEF Evolves, UniqueUids, Advances

(* So does marking a single row.                                           *)
LEMMA ReplaceOneEvolves ==
    ASSUME NEW rows \in SUBSET Rows, NEW uid, NEW timestamp \in Nat
    PROVE  Evolves(rows, ReplaceUserRecord(rows, uid, timestamp))
<1> DEFINE f(row) == IF row.uid = uid
                     THEN [row EXCEPT !.replaced_at = timestamp] ELSE row
<1>1. \A r \in rows : f(r) \in Rows /\ Advances(r, f(r))
  BY DEF Rows, Generations, NULL, Advances, Active
<1>2. ReplaceUserRecord(rows, uid, timestamp) = {f(r) : r \in rows}
  BY DEF ReplaceUserRecord
<1> HIDE DEF f
<1>3. QED
  BY <1>1, <1>2 DEF Evolves, UniqueUids, Advances

(* A retired row has the highest generation there is.                      *)
LEMMA RetireEvolves ==
    ASSUME NEW rows \in SUBSET Rows, NEW timestamp \in Nat
    PROVE  Evolves(rows, RetireUserRecords(rows, timestamp))
<1> DEFINE f(row) == IF Active(row)
                     THEN [row EXCEPT !.replaced_at = timestamp,
                                      !.generation = MAX_GENERATION]
                     ELSE row
<1>1. \A r \in rows : f(r) \in Rows /\ Advances(r, f(r))
  <2> TAKE r \in rows
  <2>1. CASE Active(r)
    <3> DEFINE replaced == [r EXCEPT !.replaced_at = timestamp]
    <3>1. replaced \in Rows /\ Advances(r, replaced)
      BY <2>1 DEF Rows, Generations, NULL, Advances, Active
    <3>2. /\ MAX_GENERATION \in Generations
          /\ MAX_GENERATION >= replaced.generation
      BY <3>1, MaxGenerationAssumption DEF Rows, Generations
    <3>3. f(r) = [replaced EXCEPT !.generation = MAX_GENERATION]
      BY <2>1
    <3> HIDE DEF f, replaced
    <3>4. QED
      BY <3>1, <3>2, <3>3 DEF Rows, Generations, Advances, Active
  <2>2. CASE ~Active(r)
    BY <2>2 DEF Rows, Generations, Advances
  <2>3. QED
    BY <2>1, <2>2
<1>2. RetireUserRecords(rows, timestamp) = {f(r) : r \in rows}
  BY DEF RetireUserRecords
<1> HIDE DEF f
<1>3. QED
  BY <1>1, <1>2 DEF Evolves, UniqueUids, Advances

(* Unassigning a node replaces its rows.                                   *)
LEMMA UnassignEvolves ==
    ASSUME NEW rows \in SUBSET Rows, NEW nodeid, NEW timestamp \in Nat
    PROVE  Evolves(rows, UnassignRows(rows, nodeid, timestamp))
<1> DEFINE f(row) == IF row.nodeid = nodeid
                     THEN [row EXCEPT !.replaced_at = timestamp] ELSE row
<1>1. \A r \in rows : f(r) \in Rows /\ Advances(r, f(r))
  BY DEF Rows, Generations, NULL, Advances, Active
<1>2. UnassignRows(rows, nodeid, timestamp) = {f(r) : r \in rows}
  BY DEF UnassignRows
<1> HIDE DEF f
<1>3. QED
  BY <1>1, <1>2 DEF Evolves, UniqueUids, Advances

-----------------------------------------------------------------------------
(* A nonempty set of naturals has a least element.                         *)
LEMMA LeastNatural ==
    ASSUME NEW T \in SUBSET Nat, T # {}
    PROVE  \E x \in T : \A y \in T : x <= y
<1> DEFINE R == OpToRel(<, Nat)
<1>1. IsWellFoundedOn(R, Nat)
  BY NatLessThanWellFounded
<1>2. R = {ss \in Nat \X Nat : ss[1] < ss[2]}
  BY DEF OpToRel
<1> HIDE DEF R
<1>3. PICK x \in T : \A y \in T : <<y, x>> \notin R
  BY <1>1, WFMin
<1>4. \A y \in T : ~(y < x)
  BY <1>2, <1>3
<1>5. QED
  BY <1>4, x \in Nat, T \subseteq Nat

(* A nonempty, bounded set of naturals has a greatest element.             *)
LEMMA GreatestNatural ==
    ASSUME NEW T \in SUBSET Nat, T # {}, NEW B \in Nat,
           \A y \in T : y <= B
    PROVE  \E x \in T : \A y \in T : y <= x
<1> DEFINE D == {B - y : y \in T}
<1>1. D \in SUBSET Nat /\ D # {}
  <2>1. \A y \in T : B - y \in Nat
    BY SMT
  <2>2. QED
    BY <2>1
<1>2. PICK d \in D : \A e \in D : d <= e
  BY <1>1, LeastNatural
<1>3. PICK x \in T : d = B - x
  OBVIOUS
<1>4. \A y \in T : B - x <= B - y
  BY <1>2, <1>3
<1>5. QED
  BY <1>4

(* Bounds on the keys of a set of rows, as an autoincrement counter and a  *)
(* clock give them.                                                        *)
Bounded(rows, B) == \A r \in rows : r.uid <= B /\ r.created_at <= B

(* A nonempty set of rows has one that is fetched before all others.       *)
LEMMA NewestExists ==
    ASSUME NEW rows \in SUBSET Rows, rows # {}, UniqueUids(rows),
           NEW B \in Nat, Bounded(rows, B)
    PROVE  \E r \in rows : \A s \in rows \ {r} : FetchedBefore(r, s)
<1> DEFINE T == {r.created_at : r \in rows}
<1>1. PICK t \in T : \A u \in T : u <= t
  <2>1. T \in SUBSET Nat /\ T # {} /\ \A u \in T : u <= B
    BY DEF Rows, Bounded
  <2> HIDE DEF T
  <2>2. QED
    BY <2>1, GreatestNatural
<1> DEFINE U == {r.uid : r \in {q \in rows : q.created_at = t}}
<1>2. PICK u \in U : \A v \in U : v <= u
  <2>1. U \in SUBSET Nat /\ U # {} /\ \A v \in U : v <= B
    BY DEF Rows, Bounded
  <2> HIDE DEF U
  <2>2. QED
    BY <2>1, GreatestNatural
<1>3. PICK r \in rows : r.created_at = t /\ r.uid = u
  OBVIOUS
<1>4. ASSUME NEW s \in rows \ {r}
      PROVE  FetchedBefore(r, s)
  <2>1. s.created_at <= r.created_at /\ s.uid # r.uid
    BY <1>1, <1>3 DEF UniqueUids
  <2>2. s.created_at = r.created_at => s.uid <= r.uid
    BY <1>2, <1>3
  <2>3. QED
    BY <2>1, <2>2 DEF FetchedBefore, Rows
<1>5. QED
  BY <1>4

(* A nonempty set of rows has one that get_user sorts first.               *)
LEMMA TopRankedExists ==
    ASSUME NEW rows \in SUBSET Rows, rows # {}, UniqueUids(rows),
           NEW B \in Nat, Bounded(rows, B)
    PROVE  /\ TopRanked(rows) \in rows
           /\ \A s \in rows \ {TopRanked(rows)} : Outranks(TopRanked(rows), s)
<1> DEFINE G == {r.generation : r \in rows}
<1>1. PICK g \in G : \A h \in G : h <= g
  <2>1. /\ G \in SUBSET Nat /\ G # {}
        /\ \A h \in G : h <= MAX_GENERATION
    BY MaxGenerationAssumption DEF Rows, Generations
  <2> HIDE DEF G
  <2>2. QED
    BY <2>1, GreatestNatural, MaxGenerationAssumption
<1> DEFINE V == {r \in rows : r.generation = g}
<1>2. /\ V \in SUBSET Rows /\ V # {} /\ UniqueUids(V) /\ Bounded(V, B)
  BY DEF UniqueUids, Bounded
<1>3. PICK r \in V : \A s \in V \ {r} : FetchedBefore(r, s)
  <2> HIDE DEF V
  <2>1. QED
    BY <1>2, NewestExists
<1>4. ASSUME NEW s \in rows \ {r}
      PROVE  Outranks(r, s)
  <2>1. s.generation <= r.generation
    BY <1>1
  <2>2. CASE s.generation = r.generation
    BY <1>3, <2>2 DEF Outranks
  <2>3. CASE s.generation # r.generation
    BY <2>1, <2>3, MaxGenerationAssumption DEF Outranks, Rows, Generations
  <2>4. QED
    BY <2>2, <2>3
<1>5. \E q \in rows : \A s \in rows \ {q} : Outranks(q, s)
  BY <1>4
<1> HIDE DEF G, V
<1>6. QED
  BY <1>5 DEF TopRanked

(* get_user finds a row whenever there is one, and takes one of the rows   *)
(* it fetched for the current one.                                         *)
LEMMA CurrentRowExists ==
    ASSUME NEW rows \in SUBSET Rows, rows # {}, UniqueUids(rows),
           NEW B \in Nat, Bounded(rows, B)
    PROVE  CurrentRow(rows) \in rows
<1>1. PICK r \in rows : \A s \in rows \ {r} : FetchedBefore(r, s)
  BY NewestExists
<1>2. {s \in rows : FetchedBefore(s, r)} = {}
  BY <1>1 DEF FetchedBefore, Rows
<1>3. r \in Fetched(rows)
  BY <1>2, FS_EmptySet, RowLimitAssumption DEF Fetched
<1>4. /\ Fetched(rows) \in SUBSET Rows /\ UniqueUids(Fetched(rows))
      /\ Bounded(Fetched(rows), B)
  BY DEF Fetched, UniqueUids, Bounded
<1>5. TopRanked(Fetched(rows)) \in Fetched(rows)
  BY <1>3, <1>4, TopRankedExists
<1>6. QED
  BY <1>5 DEF CurrentRow, Fetched

-----------------------------------------------------------------------------
(* The row that outranks all others is the one that TopRanked chooses.     *)
LEMMA TopRankedIs ==
    ASSUME NEW rows \in SUBSET Rows, NEW r \in rows,
           \A s \in rows \ {r} : Outranks(r, s)
    PROVE  TopRanked(rows) = r
<1> DEFINE top == TopRanked(rows)
<1>1. top \in rows /\ \A s \in rows \ {top} : Outranks(top, s)
  BY DEF TopRanked
<1> HIDE DEF top
<1>2. \A p, q \in Rows : ~(Outranks(p, q) /\ Outranks(q, p))
  BY MaxGenerationAssumption DEF Outranks, FetchedBefore, Rows, Generations
<1>3. top = r
  BY <1>1, <1>2
<1>4. QED
  BY <1>3 DEF top

(* Of two rows, one outranks the other.                                    *)
LEMMA OutranksTotal ==
    ASSUME NEW r \in Rows, NEW s \in Rows, r.uid # s.uid
    PROVE  Outranks(r, s) \/ Outranks(s, r)
BY MaxGenerationAssumption DEF Outranks, FetchedBefore, Rows, Generations

LEMMA OutranksTransitive ==
    ASSUME NEW r \in Rows, NEW s \in Rows, NEW t \in Rows,
           Outranks(r, s), Outranks(s, t)
    PROVE  Outranks(r, t)
BY MaxGenerationAssumption DEF Outranks, FetchedBefore, Rows, Generations

(* No row falls out of sight while there are at most RowLimit of them.     *)
LEMMA AllFetched ==
    ASSUME NEW rows \in SUBSET Rows, UniqueUids(rows), NEW n \in Nat,
           \A r \in rows : 0 < r.uid /\ r.uid <= n, n <= RowLimit
    PROVE  Fetched(rows) = rows
<1> SUFFICES ASSUME NEW r \in rows
             PROVE  Cardinality({s \in rows : FetchedBefore(s, r)}) < RowLimit
  BY DEF Fetched
<1> DEFINE S == {s \in rows : FetchedBefore(s, r)}
           T == (1 .. n) \ {r.uid}
           f == [s \in S |-> s.uid]
<1>1. r.uid \in 1 .. n /\ ~(1 > n)
  BY DEF Rows
<1>2. IsFiniteSet(T) /\ Cardinality(T) = n - 1
  <2>1. IsFiniteSet(1 .. n) /\ Cardinality(1 .. n) = n
    BY <1>1, FS_Interval, n - 1 + 1 = n
  <2>2. /\ IsFiniteSet(T)
        /\ Cardinality(T) = IF r.uid \in 1 .. n THEN Cardinality(1 .. n) - 1
                                                ELSE Cardinality(1 .. n)
    BY <2>1, FS_RemoveElement, Zenon
  <2>3. QED
    BY <1>1, <2>1, <2>2
<1>3. f \in Injection(S, T)
  <2>1. ASSUME NEW s \in S
        PROVE  s.uid \in T
    <3>1. s \in Rows /\ r \in Rows /\ FetchedBefore(s, r) /\ s \in rows
      OBVIOUS
    <3>2. s # r
      BY <3>1 DEF FetchedBefore, Rows
    <3>3. QED
      BY <3>1, <3>2 DEF UniqueUids, Rows
  <2>2. \A s, t \in S : s.uid = t.uid => s = t
    BY DEF UniqueUids
  <2> HIDE DEF S, T
  <2>3. QED
    BY <2>1, <2>2 DEF Injection, IsInjective
<1> HIDE DEF S, T, f
<1>4. IsFiniteSet(S) /\ Cardinality(S) <= n - 1
  BY <1>2, <1>3, FS_Injection
<1>5. Cardinality(S) \in Nat
  BY <1>4, FS_CardinalityType
<1>6. QED
  BY <1>4, <1>5, RowLimitAssumption DEF S
-----------------------------------------------------------------------------
(* Statements that leave the order of the rows alone.                      *)

(* What the order looks at.                                                *)
SamePlace(r, s) ==
    /\ r.uid = s.uid
    /\ r.generation = s.generation
    /\ r.created_at = s.created_at

SamePlaces(rows, rows2) ==
    /\ \A r \in rows : \E s \in rows2 : SamePlace(r, s)
    /\ \A s \in rows2 : \E r \in rows : SamePlace(r, s)

(* A table is finite: its rows have different uids below the counter.      *)
LEMMA TableFinite ==
    ASSUME NEW rows \in SUBSET Rows, UniqueUids(rows), NEW n \in Nat,
           \A r \in rows : 0 < r.uid /\ r.uid < n
    PROVE  IsFiniteSet(rows)
<1> DEFINE f == [r \in rows |-> r.uid]
<1>1. IsFiniteSet(1 .. n)
  BY FS_Interval
<1>2. f \in Injection(rows, 1 .. n)
  <2>1. \A r \in rows : r.uid \in 1 .. n
    BY DEF Rows
  <2>2. QED
    BY <2>1 DEF Injection, IsInjective, UniqueUids
<1> HIDE DEF f
<1>3. QED
  BY <1>1, <1>2, FS_Injection

(* No more rows are fetched before one than before the other.              *)
LEMMA StillFetched ==
    ASSUME NEW R \in SUBSET Rows, NEW S \in SUBSET Rows,
           UniqueUids(R), UniqueUids(S), IsFiniteSet(S), SamePlaces(R, S),
           NEW r \in R, NEW s \in Fetched(S), SamePlace(r, s)
    PROVE  r \in Fetched(R)
<1> DEFINE Before == {q \in R : FetchedBefore(q, r)}
           After == {t \in S : FetchedBefore(t, s)}
           f == [q \in Before |-> CHOOSE t \in S : SamePlace(q, t)]
<1>1. ASSUME NEW q \in Before
      PROVE  f[q] \in After /\ SamePlace(q, f[q])
  <2>1. f[q] \in S /\ SamePlace(q, f[q])
    BY DEF SamePlaces
  <2>2. FetchedBefore(f[q], s)
    BY <2>1 DEF FetchedBefore, SamePlace
  <2>3. QED
    BY <2>1, <2>2
<1>2. \A p, q \in Before : f[p] = f[q] => p = q
  BY <1>1 DEF UniqueUids, SamePlace
<1>3. f \in Injection(Before, After)
  <2>1. f = [q \in Before |-> f[q]]
    OBVIOUS
  <2> HIDE DEF f, Before, After
  <2>2. QED
    BY <1>1, <1>2, <2>1 DEF Injection, IsInjective
<1>4. IsFiniteSet(After) /\ Cardinality(After) < RowLimit
  BY FS_Subset DEF Fetched
<1> HIDE DEF f, Before, After
<1>5. IsFiniteSet(Before) /\ Cardinality(Before) <= Cardinality(After)
  BY <1>3, <1>4, FS_Injection
<1>6. Cardinality(Before) \in Nat /\ Cardinality(After) \in Nat
  BY <1>4, <1>5, FS_CardinalityType
<1>7. Cardinality(Before) < RowLimit
  BY <1>4, <1>5, <1>6, RowLimitAssumption
<1>8. QED
  BY <1>7 DEF Fetched, Before

(* The current row stays the current row.                                  *)
LEMMA SamePlacesKeepCurrent ==
    ASSUME NEW R \in SUBSET Rows, NEW S \in SUBSET Rows,
           R # {}, UniqueUids(R), UniqueUids(S), IsFiniteSet(R),
           IsFiniteSet(S), SamePlaces(R, S), NEW B \in Nat, Bounded(R, B)
    PROVE  SamePlace(CurrentRow(R), CurrentRow(S))
<1> DEFINE cur == TopRanked(Fetched(R))
<1>1. cur \in Fetched(R) /\ \A q \in Fetched(R) \ {cur} : Outranks(cur, q)
  <2>1. PICK r \in R : \A s \in R \ {r} : FetchedBefore(r, s)
    BY NewestExists
  <2>2. {s \in R : FetchedBefore(s, r)} = {}
    BY <2>1 DEF FetchedBefore, Rows
  <2>3. r \in Fetched(R)
    BY <2>2, FS_EmptySet, RowLimitAssumption DEF Fetched
  <2>4. /\ Fetched(R) \in SUBSET Rows /\ UniqueUids(Fetched(R))
        /\ Bounded(Fetched(R), B)
    BY DEF Fetched, UniqueUids, Bounded
  <2>5. QED
    BY <2>3, <2>4, TopRankedExists
<1> HIDE DEF cur
<1>2. cur \in R /\ Fetched(R) \subseteq R /\ Fetched(S) \subseteq S
  BY <1>1 DEF Fetched
<1>3. PICK d \in S : SamePlace(cur, d)
  BY <1>2 DEF SamePlaces
<1>4. SamePlaces(S, R) /\ SamePlace(d, cur)
  BY <1>3 DEF SamePlaces, SamePlace
<1>5. d \in Fetched(S)
  BY <1>1, <1>4, StillFetched
<1>6. ASSUME NEW t \in Fetched(S) \ {d}
      PROVE  Outranks(d, t)
  <2>1. PICK q \in R : SamePlace(q, t)
    BY <1>2 DEF SamePlaces
  <2>2. q \in Fetched(R)
    BY <2>1, StillFetched
  <2>3. q # cur
    BY <1>2, <1>3, <2>1 DEF SamePlace, UniqueUids
  <2>4. Outranks(cur, q)
    BY <1>1, <2>2, <2>3
  <2>5. QED
    BY <1>3, <2>1, <2>4 DEF Outranks, FetchedBefore, SamePlace
<1>7. TopRanked(Fetched(S)) = d
  <2>1. Fetched(S) \in SUBSET Rows
    BY <1>2
  <2>2. QED
    BY <1>5, <1>6, <2>1, TopRankedIs
<1>8. QED
  BY <1>3, <1>7 DEF CurrentRow, cur

(* A row inserted last, of the highest generation in sight, is the current *)
(* row, however many rows are out of sight.                                *)
LEMMA InsertedIsCurrent ==
    ASSUME NEW R \in SUBSET Rows, R # {}, UniqueUids(R), IsFiniteSet(R),
           NEW B \in Nat, Bounded(R, B),
           NEW n \in Rows, n.generation = CurrentRow(R).generation,
           \A r \in R : r.uid < n.uid /\ r.created_at <= n.created_at
    PROVE  CurrentRow(R \cup {n}) = n
<1> DEFINE S == R \cup {n}
           cur == TopRanked(Fetched(R))
<1>1. \A r \in R : FetchedBefore(n, r) /\ ~FetchedBefore(r, n)
  BY DEF FetchedBefore, Rows
<1>2. n \in Fetched(S)
  <2>1. {s \in S : FetchedBefore(s, n)} = {}
    BY <1>1 DEF FetchedBefore, Rows
  <2>2. QED
    BY <2>1, FS_EmptySet, RowLimitAssumption DEF Fetched
<1>3. ASSUME NEW s \in Fetched(S) \ {n}
      PROVE  s \in Fetched(R)
  <2> DEFINE P == {q \in R : FetchedBefore(q, s)}
             Q == {q \in S : FetchedBefore(q, s)}
  <2>1. s \in R /\ Cardinality(Q) < RowLimit
    BY DEF Fetched
  <2>2. IsFiniteSet(S)
    BY FS_AddElement
  <2>3. P \subseteq Q /\ Q \subseteq S
    OBVIOUS
  <2> HIDE DEF P, Q, S
  <2>4. IsFiniteSet(Q) /\ IsFiniteSet(P) /\ Cardinality(P) <= Cardinality(Q)
    BY <2>2, <2>3, FS_Subset
  <2>5. Cardinality(P) \in Nat /\ Cardinality(Q) \in Nat
    BY <2>4, FS_CardinalityType
  <2>6. Cardinality(P) < RowLimit
    BY <2>1, <2>4, <2>5, RowLimitAssumption
  <2>7. QED
    BY <2>1, <2>6 DEF Fetched, P
<1>4. \A s \in Fetched(R) : s.generation <= n.generation
  <2>1. /\ Fetched(R) \in SUBSET Rows /\ UniqueUids(Fetched(R))
        /\ Bounded(Fetched(R), B)
    BY DEF Fetched, UniqueUids, Bounded
  <2>2. Fetched(R) # {} => \A s \in Fetched(R) \ {cur} : Outranks(cur, s)
    BY <2>1, TopRankedExists
  <2>3. cur.generation = n.generation
    BY DEF CurrentRow
  <2> HIDE DEF cur
  <2>4. cur.generation \in Nat
    BY <2>3, MaxGenerationAssumption DEF Rows, Generations
  <2>5. QED
    BY <2>1, <2>2, <2>3, <2>4, MaxGenerationAssumption
       DEF Outranks, Rows, Generations
<1>5. ASSUME NEW s \in Fetched(S) \ {n}
      PROVE  Outranks(n, s)
  <2>1. s \in R /\ s.generation <= n.generation
    BY <1>3, <1>4 DEF Fetched
  <2>2. QED
    BY <1>1, <2>1, MaxGenerationAssumption DEF Outranks, Rows, Generations
<1>6. Fetched(S) \in SUBSET Rows
  BY DEF Fetched
<1>7. QED
  BY <1>2, <1>5, <1>6, TopRankedIs DEF CurrentRow

=============================================================================
