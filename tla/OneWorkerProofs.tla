-------------------------- MODULE OneWorkerProofs --------------------------
(***************************************************************************)
(* What TokenRequests guarantees while the requests, events and scripts of *)
(* the account take turns, whatever crashes leave half done and whenever   *)
(* the account is deleted: for any versions, clients, nodes and rows, and  *)
(* any skew of the clocks.  First the invariant of the rows and of what a  *)
(* worker knows of them (SerialInv); then, for an account of which new     *)
(* keys raise both timestamps, which version each row is of (VersionsInv); *)
(* last, for clocks that agree, where an operator's move leaves the user.  *)
(***************************************************************************)
EXTENDS TokenRequestsProofs

(* One worker at a time is on the account.                                 *)
OneAtATime == \A v, w \in Workers : v = w

(* Operators neither unassign nor remove nodes.                            *)
NoneReassigned == Operations \cap {"unassign", "remove"} = {}

(* The account never has more rows than get_user fetches.                  *)
AllInSight == MaxUid <= RowLimit

Serial == OneAtATime /\ NoneReassigned /\ AllInSight

(* Claims can be compared with what was accepted before: every client      *)
(* reports a generation, or the clocks agree and no account is deleted.    *)
Comparable ==
    \/ "oauth" \notin Clients
    \/ ClockSkew = 0 /\ "delete" \notin Operations

-----------------------------------------------------------------------------
(* The inductive invariant.                                                *)

Current == CurrentRow(users)

Deleted == \E r \in users : Retired(r)

Live == users # {} /\ ~Deleted

OnlyActive(row) == \A r \in users : Active(r) => r = row

(* The current row of an account in use is active.                         *)
CurrentInv ==
    /\ nextUid <= MaxUid + 1
    /\ nodes = NodeIds /\ removing = {}
    /\ Deleted => "delete" \in Operations
    /\ Live => Active(Current)

(* What was accepted is recorded: in the tombstone, or the current row.    *)
FloorInv ==
    /\ users = {} => floor.generation = 0 /\ floor.keys_changed_at = 0
    /\ floor.generation >= MAX_GENERATION <=> Deleted
    /\ Comparable /\ Live =>
          /\ floor.generation <= Current.generation
          /\ floor.keys_changed_at <= Current.keys_changed_at

(* The user dict says what the row says.                                   *)
Matches(user, row) ==
    /\ user.uid = row.uid
    /\ user.client_state = row.client_state
    /\ user.generation = row.generation
    /\ user.keys_changed_at = row.keys_changed_at

(* The user dict of a row to be inserted is at least as new as the current *)
(* row, and newer if it has a new client state.                            *)
Succeeds(user, claims, kind) ==
    /\ user.generation >= Current.generation
    /\ user.generation < MAX_GENERATION
    /\ user.keys_changed_at >= Current.keys_changed_at
    /\ \/ user.client_state = Current.client_state
       \/ /\ user.client_state # NoState
          /\ \/ user.generation > Current.generation
             \/ user.keys_changed_at > Current.keys_changed_at
    /\ kind = "token" /\ claims.generation > 0 =>
          user.generation > Current.generation

(* How far a worker is, and what it knows of the current row of an account *)
(* in use: it is the row read, and is not among those to be marked; then   *)
(* it is the only active one; and a row inserted is the current one, or    *)
(* was created, on a clock that lags, before it.                           *)
PlaceInv(w) ==
    /\ job[w].pc = "select" => job[w].stale = {}
    /\ job[w].pc \in {"allocate", "insert"} =>
          /\ users = {} /\ job[w].stale = {}
          /\ job[w].user.generation < MAX_GENERATION
    /\ job[w].pc = "mark" =>
          /\ job[w].stale # {} /\ UniqueUids(job[w].stale)
          /\ \A s \in job[w].stale : s.uid < nextUid /\ s.created_at <= clock
    /\ job[w].pc = "create" =>
          /\ users # {}
          /\ \A r \in users : r.created_at <= job[w].since
    /\ Live =>
          /\ job[w].pc = "mark" =>
                /\ Matches(job[w].user, Current)
                /\ \A s \in job[w].stale : s.uid # Current.uid
                /\ \A r \in users : Active(r) =>
                      \/ r = Current
                      \/ \E s \in job[w].stale : s.uid = r.uid
          /\ job[w].pc = "check" =>
                Matches(job[w].user, Current) /\ OnlyActive(Current)
          /\ job[w].pc = "create" =>
                /\ Succeeds(job[w].user, job[w].claims, job[w].kind)
                /\ OnlyActive(Current)
          /\ job[w].pc = "older" =>
                /\ job[w].stamp <= Current.created_at
                /\ Comparable /\ job[w].kind = "token" =>
                      Matches(job[w].user, Current)
                /\ job[w].user.generation < MAX_GENERATION

(* A token request claims something, and gets a token for nothing that is  *)
(* behind its user.                                                        *)
ClaimsInv(w) ==
    /\ job[w].claims.generation < MAX_GENERATION
    /\ job[w].claims.keys_changed_at < MAX_GENERATION
    /\ job[w].kind = "token" /\ job[w].pc \notin {"idle", "error"} =>
          /\ job[w].claims.generation > 0 \/ job[w].claims.keys_changed_at > 0
          /\ job[w].claims.generation > 0 \/ "oauth" \in Clients
    /\ job[w].pc = "granted" =>
          job[w].kind = "token" /\ ~Behind(job[w].user, job[w].claims)

(* What had been accepted when a request arrived is in its user dict.      *)
SeenInv(w) ==
    /\ job[w].seen.generation <= floor.generation
    /\ job[w].seen.keys_changed_at <= floor.keys_changed_at
    /\ /\ job[w].pc \notin {"idle", "error", "select"}
       /\ job[w].seen.generation >= MAX_GENERATION
       => job[w].user.generation >= MAX_GENERATION
    /\ /\ Comparable
       /\ job[w].pc \in {"mark", "check", "create", "older", "granted"}
       => /\ job[w].user.generation >= job[w].seen.generation
          /\ \/ job[w].user.keys_changed_at >= job[w].seen.keys_changed_at
             \/ /\ job[w].user.generation >= MAX_GENERATION
                /\ "delete" \in Operations

WorkerInv(w) == PlaceInv(w) /\ ClaimsInv(w) /\ SeenInv(w)

SerialInv == CurrentInv /\ FloorInv /\ \A w \in Workers : WorkerInv(w)

-----------------------------------------------------------------------------
(* Lemmas about the current row of a table that is in sight.               *)

Ordered(rows) ==
    /\ rows \in SUBSET Rows
    /\ UniqueUids(rows)
    /\ \A r \in rows : 0 < r.uid /\ r.uid <= MaxUid
    /\ \E B \in Nat : Bounded(rows, B)

(* get_user sees all rows, and takes the one that outranks the others.     *)
LEMMA Sight ==
    ASSUME Serial, NEW rows, Ordered(rows), rows # {}
    PROVE  /\ Fetched(rows) = rows
           /\ CurrentRow(rows) \in rows
           /\ OldRows(rows) = rows \ {CurrentRow(rows)}
           /\ \A s \in rows \ {CurrentRow(rows)} : Outranks(CurrentRow(rows), s)
<1>1. Fetched(rows) = rows
  BY AllFetched, BoundsAssumption DEF Ordered, Serial, AllInSight
<1>2. /\ TopRanked(rows) \in rows
      /\ \A s \in rows \ {TopRanked(rows)} : Outranks(TopRanked(rows), s)
  BY TopRankedExists DEF Ordered
<1>3. QED
  BY <1>1, <1>2 DEF CurrentRow, OldRows

LEMMA CurrentIs ==
    ASSUME Serial, NEW rows, Ordered(rows), NEW r \in rows,
           \A s \in rows \ {r} : Outranks(r, s)
    PROVE  CurrentRow(rows) = r
BY Sight, TopRankedIs DEF CurrentRow, Ordered

(* A retired row is the current one.                                       *)
LEMMA RetiredFirst ==
    ASSUME Serial, NEW rows, Ordered(rows), NEW r \in rows, Retired(r)
    PROVE  Retired(CurrentRow(rows))
<1>1. CASE r = CurrentRow(rows)
  BY <1>1
<1>2. CASE r # CurrentRow(rows)
  BY <1>2, Sight, MaxGenerationAssumption
     DEF Outranks, Retired, Ordered, Rows, Generations
<1>3. QED
  BY <1>1, <1>2

(* A statement that keeps each row in its place, and may raise the         *)
(* generation of the current one, keeps that the current one.              *)
LEMMA CurrentKept ==
    ASSUME Serial, NEW rows, Ordered(rows), rows # {}, NEW rows2, Ordered(rows2),
           NEW f \in [rows -> Rows], rows2 = {f[r] : r \in rows},
           \A r \in rows : /\ f[r].uid = r.uid
                           /\ f[r].created_at = r.created_at,
           \A r \in rows \ {CurrentRow(rows)} : f[r].generation = r.generation,
           f[CurrentRow(rows)].generation >= CurrentRow(rows).generation
    PROVE  CurrentRow(rows2) = f[CurrentRow(rows)]
<1> DEFINE cur == CurrentRow(rows)
<1>1. cur \in rows /\ \A s \in rows \ {cur} : Outranks(cur, s)
  BY Sight
<1> HIDE DEF cur
<1>2. ASSUME NEW s \in rows2 \ {f[cur]}
      PROVE  Outranks(f[cur], s)
  <2>1. PICK r \in rows \ {cur} : s = f[r]
    OBVIOUS
  <2>2. Outranks(cur, r)
    BY <1>1, <2>1
  <2>3. /\ f[r].uid = r.uid /\ f[r].created_at = r.created_at
        /\ f[r].generation = r.generation
        /\ f[cur].uid = cur.uid /\ f[cur].created_at = cur.created_at
        /\ f[cur].generation >= cur.generation
    BY <1>1, <2>1 DEF cur
  <2>4. r \in Rows /\ cur \in Rows /\ f[cur] \in Rows
    BY <1>1, <2>1 DEF Ordered
  <2>5. QED
    BY <2>1, <2>2, <2>3, <2>4, MaxGenerationAssumption
       DEF Outranks, FetchedBefore, Rows, Generations
<1>3. f[cur] \in rows2
  BY <1>1
<1>4. CurrentRow(rows2) = f[cur]
  BY <1>2, <1>3, CurrentIs
<1>5. QED
  BY <1>4 DEF cur

(* Marking another row as replaced.                                        *)
LEMMA MarkKeepsCurrent ==
    ASSUME Serial, NEW rows, Ordered(rows), rows # {}, NEW uid, NEW t \in Nat,
           uid # CurrentRow(rows).uid, Ordered(ReplaceUserRecord(rows, uid, t))
    PROVE  LET rows2 == ReplaceUserRecord(rows, uid, t) IN
           /\ CurrentRow(rows2) = CurrentRow(rows)
           /\ \A s \in rows2 : Active(s) => s \in rows /\ s.uid # uid
<1> DEFINE rows2 == ReplaceUserRecord(rows, uid, t)
           f == [r \in rows |-> IF r.uid = uid
                                THEN [r EXCEPT !.replaced_at = t] ELSE r]
<1>1. f \in [rows -> Rows]
  BY DEF Ordered, Rows
<1>2. rows2 = {f[r] : r \in rows}
  BY DEF ReplaceUserRecord
<1>3. \A r \in rows : /\ f[r].uid = r.uid /\ f[r].created_at = r.created_at
                      /\ f[r].generation = r.generation
                      /\ r.uid = uid => ~Active(f[r])
                      /\ r.uid # uid => f[r] = r
  BY DEF Ordered, Rows, Active, NULL
<1>4. CurrentRow(rows) \in rows /\ CurrentRow(rows).generation \in Nat
  BY Sight, MaxGenerationAssumption DEF Ordered, Rows, Generations
<1> HIDE DEF f
<1>5. CurrentRow(rows2) = f[CurrentRow(rows)]
  <2> HIDE DEF rows2
  <2>1. QED
    BY <1>1, <1>2, <1>3, <1>4, CurrentKept DEF rows2
<1>6. QED
  BY <1>2, <1>3, <1>4, <1>5

(* Marking the rows created before a time at which the current one, or an  *)
(* earlier one, was created.                                               *)
LEMMA ReplaceKeepsCurrent ==
    ASSUME Serial, NEW rows, Ordered(rows), rows # {}, NEW t \in Nat,
           t <= CurrentRow(rows).created_at, Ordered(ReplaceUserRecords(rows, t))
    PROVE  CurrentRow(ReplaceUserRecords(rows, t)) = CurrentRow(rows)
<1> DEFINE rows2 == ReplaceUserRecords(rows, t)
           f == [r \in rows |-> IF Active(r) /\ r.created_at < t
                                THEN [r EXCEPT !.replaced_at = t] ELSE r]
<1>1. f \in [rows -> Rows]
  BY DEF Ordered, Rows
<1>2. rows2 = {f[r] : r \in rows}
  BY DEF ReplaceUserRecords
<1>3. \A r \in rows : /\ f[r].uid = r.uid /\ f[r].created_at = r.created_at
                      /\ f[r].generation = r.generation
                      /\ t <= r.created_at => f[r] = r
  BY DEF Ordered, Rows
<1>4. CurrentRow(rows) \in rows /\ CurrentRow(rows).generation \in Nat
  BY Sight, MaxGenerationAssumption DEF Ordered, Rows, Generations
<1> HIDE DEF f
<1>5. CurrentRow(rows2) = f[CurrentRow(rows)]
  <2> HIDE DEF rows2
  <2>1. QED
    BY <1>1, <1>2, <1>3, <1>4, CurrentKept DEF rows2
<1>6. QED
  BY <1>3, <1>4, <1>5

(* An in-place update when only the current row is active.                 *)
LEMMA UpdateMovesCurrent ==
    ASSUME Serial, NEW rows, Ordered(rows), rows # {},
           NEW g \in Generations \cup {NULL}, NEW k \in Generations \cup {NULL},
           Active(CurrentRow(rows)),
           \A r \in rows : Active(r) => r = CurrentRow(rows),
           \/ k = NULL
           \/ /\ g = NULL \/ g >= CurrentRow(rows).generation
              /\ k >= CurrentRow(rows).keys_changed_at,
           Ordered(UpdateUserRecordInPlace(rows, g, k))
    PROVE  LET rows2 == UpdateUserRecordInPlace(rows, g, k) IN
           /\ CurrentRow(rows2).uid = CurrentRow(rows).uid
           /\ CurrentRow(rows2).client_state = CurrentRow(rows).client_state
           /\ CurrentRow(rows2).generation = Max2(CurrentRow(rows).generation, g)
           /\ CurrentRow(rows2).keys_changed_at =
                 Max2(CurrentRow(rows).keys_changed_at, k)
           /\ Active(CurrentRow(rows2))
           /\ \A s \in rows2 : s \in rows \/ s = CurrentRow(rows2)
<1> DEFINE cur == CurrentRow(rows)
           rows2 == UpdateUserRecordInPlace(rows, g, k)
           f == [r \in rows |->
                   IF UpdatedInPlace(r, g, k)
                   THEN [r EXCEPT !.generation = Coalesce(g, @),
                                  !.keys_changed_at = Coalesce(k, @)]
                   ELSE r]
<1>1. cur \in rows /\ cur \in Rows
  BY Sight DEF Ordered
<1>2. rows2 = {f[r] : r \in rows}
  BY DEF UpdateUserRecordInPlace
<1>3. \A r \in rows \ {cur} : f[r] = r
  BY DEF UpdatedInPlace
<1>4. /\ f[cur] \in Rows
      /\ f[cur].uid = cur.uid /\ f[cur].created_at = cur.created_at
      /\ f[cur].client_state = cur.client_state
      /\ f[cur].replaced_at = cur.replaced_at
      /\ f[cur].generation = Max2(cur.generation, g)
      /\ f[cur].keys_changed_at = Max2(cur.keys_changed_at, k)
  <2> DEFINE c1 == [cur EXCEPT !.generation = Coalesce(g, @)]
             c2 == [c1 EXCEPT !.keys_changed_at = Coalesce(k, @)]
  <2>1. /\ c1 \in Rows
        /\ c1.uid = cur.uid /\ c1.created_at = cur.created_at
        /\ c1.client_state = cur.client_state
        /\ c1.replaced_at = cur.replaced_at
        /\ c1.generation = Coalesce(g, cur.generation)
        /\ c1.keys_changed_at = cur.keys_changed_at
    BY <1>1 DEF Rows, Coalesce
  <2> HIDE DEF c1
  <2>2. /\ c2 \in Rows
        /\ c2.uid = cur.uid /\ c2.created_at = cur.created_at
        /\ c2.client_state = cur.client_state
        /\ c2.replaced_at = cur.replaced_at
        /\ c2.generation = Coalesce(g, cur.generation)
        /\ c2.keys_changed_at = Coalesce(k, cur.keys_changed_at)
    BY <2>1 DEF Rows, Coalesce
  <2>3. f[cur] = IF UpdatedInPlace(cur, g, k) THEN c2 ELSE cur
    BY <1>1 DEF c1
  <2> HIDE DEF c2, f
  <2>4. cur.generation \in Nat /\ cur.keys_changed_at \in Nat
    BY <1>1, MaxGenerationAssumption DEF Rows, Generations
  <2>5. CASE UpdatedInPlace(cur, g, k)
    BY <2>2, <2>3, <2>4, <2>5, MaxGenerationAssumption
       DEF UpdatedInPlace, Coalesce, Max2, Generations, NULL
  <2>6. CASE ~UpdatedInPlace(cur, g, k)
    BY <1>1, <2>3, <2>4, <2>6, MaxGenerationAssumption
       DEF UpdatedInPlace, Coalesce, Max2, Generations, NULL
  <2>7. QED
    BY <2>5, <2>6
<1> HIDE DEF f
<1>5. f \in [rows -> Rows]
  <2>1. \A r \in rows : f[r] \in Rows
    BY <1>3, <1>4 DEF Ordered
  <2>2. QED
    BY <2>1 DEF f
<1>6. CurrentRow(rows2) = f[cur]
  <2>1. f[cur].generation >= cur.generation
    BY <1>1, <1>4, MaxGenerationAssumption DEF Max2, Rows, Generations, NULL
  <2>2. \A r \in rows : /\ f[r].uid = r.uid /\ f[r].created_at = r.created_at
                        /\ r # cur => f[r].generation = r.generation
    BY <1>3, <1>4
  <2> HIDE DEF rows2
  <2>3. QED
    BY <1>2, <1>5, <2>1, <2>2, CurrentKept DEF cur, rows2
<1>7. QED
  BY <1>2, <1>3, <1>4, <1>6 DEF Active, cur

(* An insertion.                                                           *)
LEMMA InsertMovesCurrent ==
    ASSUME Serial, NEW rows, Ordered(rows), NEW new, Ordered(rows \cup {new}),
           new \notin rows
    PROVE  /\ rows = {} => CurrentRow(rows \cup {new}) = new
           /\ rows # {} =>
                 CurrentRow(rows \cup {new}) =
                    IF Outranks(new, CurrentRow(rows)) THEN new
                                                       ELSE CurrentRow(rows)
<1> DEFINE rows2 == rows \cup {new}
           cur == CurrentRow(rows)
<1>1. CASE rows = {}
  BY <1>1, Sight
<1>2. CASE rows # {}
  <2>1. cur \in rows /\ \A s \in rows \ {cur} : Outranks(cur, s)
    BY <1>2, Sight
  <2>2. new \in Rows /\ rows \subseteq Rows /\ cur.uid # new.uid
    BY <2>1 DEF Ordered, UniqueUids
  <2> HIDE DEF cur
  <2>3. CASE Outranks(new, cur)
    <3>1. \A s \in rows2 \ {new} : Outranks(new, s)
      BY <2>1, <2>2, <2>3, OutranksTransitive
    <3>2. QED
      BY <2>3, <3>1, CurrentIs DEF cur
  <2>4. CASE ~Outranks(new, cur)
    <3>1. \A s \in rows2 \ {cur} : Outranks(cur, s)
      BY <2>1, <2>2, <2>4, OutranksTotal
    <3>2. QED
      BY <2>1, <2>4, <3>1, CurrentIs DEF cur
  <2>5. QED
    BY <2>3, <2>4
<1>3. QED
  BY <1>1, <1>2

-----------------------------------------------------------------------------
(* Facts that the steps start from.                                        *)

LEMMA OrderedNow ==
    ASSUME IInv, nextUid <= MaxUid + 1
    PROVE  Ordered(users)
<1>1. TypeOK /\ TableInv
  BY DEF IInv
<1>2. users \in SUBSET Rows /\ nextUid \in Nat /\ clock \in Nat
  BY <1>1 DEF TypeOK
<1>3. /\ UniqueUids(users)
      /\ \A r \in users : 0 < r.uid /\ r.uid < nextUid /\ r.created_at <= clock
  BY <1>1 DEF TableInv
<1>4. \A r \in users : r.uid \in Nat /\ r.created_at \in Nat
  BY <1>2 DEF Rows
<1>5. nextUid + clock \in Nat /\ Bounded(users, nextUid + clock)
  BY <1>2, <1>3, <1>4 DEF Bounded
<1>6. \A r \in users : 0 < r.uid /\ r.uid <= MaxUid
  BY <1>2, <1>3, <1>4, BoundsAssumption
<1>7. QED
  BY <1>2, <1>3, <1>5, <1>6 DEF Ordered

LEMMA OrderedNext ==
    ASSUME IInv', nextUid' <= MaxUid + 1
    PROVE  Ordered(users')
<1>1. TypeOK' /\ TableInv'
  BY DEF IInv
<1>2. users' \in SUBSET Rows /\ nextUid' \in Nat /\ clock' \in Nat
  BY <1>1 DEF TypeOK
<1>3. /\ UniqueUids(users')
      /\ \A r \in users' : 0 < r.uid /\ r.uid < nextUid' /\ r.created_at <= clock'
  BY <1>1 DEF TableInv
<1>4. \A r \in users' : r.uid \in Nat /\ r.created_at \in Nat
  BY <1>2 DEF Rows
<1>5. PICK n \in Nat, t \in Nat : n = nextUid' /\ t = clock'
  BY <1>2
<1>6. ASSUME NEW r \in users'
      PROVE  /\ 0 < r.uid /\ r.uid <= MaxUid
             /\ r.uid <= n + t /\ r.created_at <= n + t
  <2>1. /\ r.uid \in Nat /\ 0 < r.uid /\ r.uid < nextUid'
        /\ r.created_at \in Nat /\ r.created_at <= clock'
    BY <1>3, <1>4
  <2>2. QED
    BY <1>2, <1>5, <2>1, BoundsAssumption
<1>7. n + t \in Nat /\ Bounded(users', n + t)
  BY <1>6 DEF Bounded
<1>8. \E B \in Nat : Bounded(users', B)
  BY <1>7
<1>9. QED
  BY <1>2, <1>3, <1>6, <1>8 DEF Ordered

LEMMA SomeGenerations == MAX_GENERATION \in Nat /\ MAX_GENERATION >= 2
<1>1. Versions[1] \in VersionSet
  BY VersionsAssumption
<1>2. QED
  BY <1>1, MaxGenerationAssumption DEF VersionSet

(* The current row of a table that is not empty.                           *)
LEMMA CurrentFacts ==
    ASSUME Serial, IInv, CurrentInv, users # {}
    PROVE  /\ Current \in users /\ Current \in Rows
           /\ OldRows(users) = users \ {Current}
           /\ \A r \in users : r.uid = Current.uid => r = Current
           /\ Current.generation \in Nat /\ Current.keys_changed_at \in Nat
           /\ Deleted => Retired(Current)
           /\ ~Deleted => Current.generation < MAX_GENERATION
<1>1. Ordered(users)
  BY OrderedNow DEF CurrentInv
<1>2. /\ Current \in users /\ Current \in Rows
      /\ OldRows(users) = users \ {Current}
  BY <1>1, Sight DEF Current, Ordered
<1>3. Deleted => Retired(Current)
  BY <1>1, RetiredFirst DEF Deleted, Current
<1>4. ~Deleted => Current.generation < MAX_GENERATION
  BY <1>2, MaxGenerationAssumption DEF Deleted, Retired, Rows, Generations
<1>5. QED
  BY <1>1, <1>2, <1>3, <1>4, MaxGenerationAssumption
     DEF Ordered, UniqueUids, Rows, Generations

(* A worker that carries on.                                               *)
LEMMA GoIs ==
    ASSUME NEW w \in Workers, IInv, NEW pc, NEW user, NEW stale, NEW since,
           NEW stamp, Go(w, pc, user, stale, since, stamp)
    PROVE  /\ job'[w].pc = pc /\ job'[w].kind = job[w].kind
           /\ job'[w].claims = job[w].claims /\ job'[w].seen = job[w].seen
           /\ job'[w].user = user /\ job'[w].stale = stale
           /\ job'[w].since = since /\ job'[w].stamp = stamp
BY DEF Go, IInv, TypeOK

LEMMA FloorNaturals ==
    ASSUME IInv
    PROVE  floor.generation \in Nat /\ floor.keys_changed_at \in Nat
BY MaxGenerationAssumption DEF IInv, TypeOK, Generations

LEMMA FloorNaturalsNext ==
    ASSUME IInv'
    PROVE  floor'.generation \in Nat /\ floor'.keys_changed_at \in Nat
BY MaxGenerationAssumption DEF IInv, TypeOK, Generations

-----------------------------------------------------------------------------
(* What a step does to the row in use, and that it keeps the invariant.    *)
CurrentMoves ==
    users # {} /\ Live' =>
        /\ Live
        /\ Current'.generation >= Current.generation
        /\ Current'.keys_changed_at >= Current.keys_changed_at
        /\ \/ Current'.client_state = Current.client_state
           \/ /\ Current'.client_state # NoState
              /\ \/ Current'.generation > Current.generation
                 \/ Current'.keys_changed_at > Current.keys_changed_at

TableKept ==
    /\ CurrentInv'
    /\ users = {} => ~Deleted'
    /\ CurrentMoves

SerialStep(w) == TableKept /\ FloorInv' /\ WorkerInv(w)'

LEMMA SameTable ==
    ASSUME Serial, IInv, SerialInv, UNCHANGED <<table, nodeTable>>
    PROVE  /\ TableKept
           /\ users' = users /\ nextUid' = nextUid /\ nodes' = nodes
           /\ Current' = Current /\ (Live' <=> Live) /\ (Deleted' <=> Deleted)
           /\ floor' = floor => FloorInv'
<1>1. /\ users' = users /\ nextUid' = nextUid
      /\ nodes' = nodes /\ removing' = removing
  BY DEF table, nodeTable
<1>2. Current' = Current /\ (Live' <=> Live) /\ (Deleted' <=> Deleted)
  BY <1>1 DEF Current, Live, Deleted
<1>3. Live => Current.generation \in Nat /\ Current.keys_changed_at \in Nat
  BY CurrentFacts DEF SerialInv, Live
<1>4. CurrentMoves
  BY <1>1, <1>2, <1>3 DEF CurrentMoves
<1>5. CurrentInv'
  BY <1>1, <1>2 DEF CurrentInv, SerialInv
<1>6. floor' = floor => FloorInv'
  BY <1>1, <1>2 DEF FloorInv, SerialInv
<1>7. users = {} => ~Deleted'
  BY <1>1 DEF Deleted
<1>8. QED
  BY <1>1, <1>2, <1>4, <1>5, <1>6, <1>7 DEF TableKept

LEMMA EndKeeps ==
    ASSUME NEW w \in Workers, NEW pc \in {"idle", "error"}, IInv, IInv',
           End(w, pc)
    PROVE  WorkerInv(w)'
<1>1. /\ job'[w].pc = pc /\ job'[w].claims.generation = 0
      /\ job'[w].claims.keys_changed_at = 0
      /\ job'[w].seen.generation = 0 /\ job'[w].seen.keys_changed_at = 0
  BY DEF End, Ended, IInv, TypeOK, NoClaims
<1>2. PlaceInv(w)'
  BY <1>1 DEF PlaceInv
<1>3. ClaimsInv(w)'
  BY <1>1, SomeGenerations DEF ClaimsInv
<1>4. SeenInv(w)'
  BY <1>1, FloorNaturalsNext DEF SeenInv
<1>5. QED
  BY <1>2, <1>3, <1>4 DEF WorkerInv

LEMMA QuitSerial ==
    ASSUME Serial, IInv, SerialInv, IInv', NEW w \in Workers,
           Reject(w) \/ StayPut(w) \/ Crash(w)
    PROVE  SerialStep(w)
<1>1. UNCHANGED <<table, nodeTable, world, floor>> /\ End(w, "idle")
  BY DEF Reject, StayPut, Crash
<1>2. QED
  BY <1>1, SameTable, EndKeeps DEF SerialStep

LEMMA StartedClaims ==
    ASSUME NEW v \in 1 .. Len(Versions)
    PROVE  /\ \A client \in Clients :
                /\ ClaimsOf(v, client).generation \in Nat
                /\ ClaimsOf(v, client).keys_changed_at \in Nat
                /\ ClaimsOf(v, client).generation < MAX_GENERATION
                /\ ClaimsOf(v, client).keys_changed_at < MAX_GENERATION
                /\ \/ ClaimsOf(v, client).generation > 0
                   \/ /\ ClaimsOf(v, client).keys_changed_at > 0
                      /\ "oauth" \in Clients
           /\ Versions[v].generation - 1 < MAX_GENERATION
<1>1. Versions[v] \in VersionSet
  BY VersionsAssumption
<1>2. ASSUME NEW client \in Clients
      PROVE  /\ ClaimsOf(v, client).generation \in Nat
             /\ ClaimsOf(v, client).keys_changed_at \in Nat
             /\ ClaimsOf(v, client).generation < MAX_GENERATION
             /\ ClaimsOf(v, client).keys_changed_at < MAX_GENERATION
             /\ \/ ClaimsOf(v, client).generation > 0
                \/ /\ ClaimsOf(v, client).keys_changed_at > 0
                   /\ "oauth" \in Clients
  <2>1. client \in {"full", "oauth", "legacy", "bare"}
    BY ClientsAssumption
  <2>2. QED
    BY <1>1, <2>1, SomeGenerations DEF ClaimsOf, VersionSet
<1>3. QED
  BY <1>1, <1>2, SomeGenerations DEF VersionSet

LEMMA ReceiveSerial ==
    ASSUME Serial, IInv, SerialInv, IInv', NEW w \in Workers,
           Receive(w) \/ ReceiveEvent(w) \/ ReceiveScript(w)
    PROVE  SerialStep(w)
<1>1. PICK kind, claims :
         /\ Start(w, kind, claims)
         /\ claims.generation < MAX_GENERATION
         /\ claims.keys_changed_at < MAX_GENERATION
         /\ kind = "token" =>
               /\ claims.generation > 0 \/ claims.keys_changed_at > 0
               /\ claims.generation > 0 \/ "oauth" \in Clients
  <2>1. CASE Receive(w)
    <3>1. PICK v \in 1 .. account, client \in Clients :
             Start(w, "token", ClaimsOf(v, client))
      BY <2>1 DEF Receive
    <3>2. v \in 1 .. Len(Versions)
      BY <3>1, VersionsAssumption DEF IInv, TypeOK
    <3>3. QED
      BY <3>1, <3>2, StartedClaims
  <2>2. CASE ReceiveEvent(w)
    <3>1. PICK v \in 2 .. account : Start(w, "event", EventClaims(v))
      BY <2>2 DEF ReceiveEvent, StartEvent
    <3>2. v \in 1 .. Len(Versions)
      BY <3>1, VersionsAssumption DEF IInv, TypeOK
    <3>3. /\ EventClaims(v).generation < MAX_GENERATION
          /\ EventClaims(v).keys_changed_at < MAX_GENERATION
      BY <3>2, StartedClaims, SomeGenerations DEF EventClaims, NoClaims
    <3>4. QED
      BY <3>1, <3>3
  <2>3. CASE ReceiveScript(w)
    BY <2>3, SomeGenerations DEF ReceiveScript, NoClaims
  <2>4. QED
    BY <2>1, <2>2, <2>3
<1>2. UNCHANGED <<table, nodeTable, world, floor>>
  BY DEF Receive, ReceiveEvent, StartEvent, ReceiveScript
<1>3. /\ job'[w].pc = "select" /\ job'[w].kind = kind
      /\ job'[w].claims = claims /\ job'[w].stale = {}
      /\ job'[w].seen.generation = floor.generation
      /\ job'[w].seen.keys_changed_at = floor.keys_changed_at
  BY <1>1 DEF Start, IInv, TypeOK
<1>4. PlaceInv(w)'
  BY <1>3 DEF PlaceInv
<1>5. ClaimsInv(w)'
  BY <1>1, <1>3 DEF ClaimsInv
<1>6. SeenInv(w)'
  BY <1>2, <1>3, FloorNaturals DEF SeenInv
<1>7. QED
  BY <1>2, <1>4, <1>5, <1>6, SameTable DEF SerialStep, WorkerInv

-----------------------------------------------------------------------------
(* One lemma per action of a worker.                                       *)

(* The current row is the tombstone, or active and on a node in service.   *)
LEMMA CurrentNeedsNoNode ==
    ASSUME Serial, IInv, SerialInv, users # {}
    PROVE  ~NeedsNode(Current)
<1>1. Current \in Rows /\ (Deleted => Retired(Current))
  BY CurrentFacts DEF SerialInv
<1>2. CASE Deleted
  BY <1>1, <1>2 DEF NeedsNode
<1>3. CASE ~Deleted
  <2>1. Active(Current) /\ nodes = NodeIds
    BY <1>3 DEF SerialInv, CurrentInv, Live
  <2>2. Current.nodeid \in NodeIds
    BY <1>1 DEF Rows
  <2>3. QED
    BY <2>1, <2>2, NoNodeAssumption DEF NeedsNode, NodeOf
<1>4. QED
  BY <1>2, <1>3

LEMMA SelectRecordsSerial ==
    ASSUME Serial, IInv, SerialInv, IInv', NEW w \in Workers,
           SelectRecords(w)
    PROVE  SerialStep(w)
<1> DEFINE stale == {r \in OldRows(users) : Active(r)}
<1>1. /\ UNCHANGED <<table, nodeTable, world, floor>>
      /\ job[w].pc = "select" /\ users # {}
  BY DEF SelectRecords
<1>2. /\ Current \in users /\ Current \in Rows
      /\ OldRows(users) = users \ {Current}
      /\ \A r \in users : r.uid = Current.uid => r = Current
      /\ Deleted => Retired(Current)
  BY <1>1, CurrentFacts DEF SerialInv
<1>3. ~NeedsNode(Current)
  BY <1>1, CurrentNeedsNoNode
<1>4. PICK stamp : Go(w, AfterRead(stale), UserOf(Current), stale, 0, stamp)
  BY <1>3 DEF SelectRecords, Current
<1>5. stale = {r \in users \ {Current} : Active(r)}
  BY <1>2
<1> HIDE DEF stale
<1>6. /\ job'[w].pc = AfterRead(stale) /\ job'[w].kind = job[w].kind
      /\ job'[w].claims = job[w].claims /\ job'[w].seen = job[w].seen
      /\ job'[w].user = UserOf(Current) /\ job'[w].stale = stale
  BY <1>4, GoIs
<1>7. Matches(job'[w].user, Current)
  BY <1>6 DEF Matches, UserOf
<1>8. job'[w].pc \in {"mark", "check"} /\ (job'[w].pc = "mark" <=> stale # {})
  BY <1>6 DEF AfterRead
<1>9. /\ TableKept /\ FloorInv'
      /\ users' = users /\ nextUid' = nextUid /\ clock' = clock
      /\ Current' = Current /\ (Live' <=> Live)
  BY <1>1, SameTable DEF world
<1>10. PlaceInv(w)'
  <2>1. /\ UniqueUids(stale)
        /\ \A s \in stale : s.uid < nextUid /\ s.created_at <= clock
    BY <1>5 DEF IInv, TableInv, UniqueUids
  <2>2. /\ \A s \in stale : s.uid # Current.uid
        /\ \A r \in users : Active(r) =>
              r = Current \/ \E s \in stale : s.uid = r.uid
    BY <1>2, <1>5
  <2>3. stale = {} => OnlyActive(Current)
    BY <1>5 DEF OnlyActive
  <2>4. OnlyActive(Current)' <=> OnlyActive(Current)
    BY <1>9 DEF OnlyActive
  <2>5. Matches(job[w].user, Current)'
    BY <1>7, <1>9 DEF Matches
  <2>6. QED
    BY <1>6, <1>8, <1>9, <2>1, <2>2, <2>3, <2>4, <2>5 DEF PlaceInv
<1>11. ClaimsInv(w)'
  BY <1>1, <1>6, <1>8 DEF ClaimsInv, SerialInv, WorkerInv
<1>12. SeenInv(w)'
  <2>1. /\ job[w].seen.generation <= floor.generation
        /\ job[w].seen.keys_changed_at <= floor.keys_changed_at
        /\ job[w].seen.generation \in Generations
        /\ job[w].seen.keys_changed_at \in Generations
    BY DEF SerialInv, WorkerInv, SeenInv, IInv, TypeOK, Jobs, Seen
  <2>2. /\ job'[w].user.generation = Current.generation
        /\ job'[w].user.keys_changed_at = Current.keys_changed_at
        /\ Current.generation \in Nat /\ Current.keys_changed_at \in Nat
    BY <1>2, <1>7, MaxGenerationAssumption DEF Matches, Rows, Generations
  <2>3. floor.generation >= MAX_GENERATION => Current.generation >= MAX_GENERATION
    BY <1>2 DEF SerialInv, FloorInv, Retired
  <2>4. Deleted => /\ Current.generation >= MAX_GENERATION
                   /\ "delete" \in Operations
    BY <1>2 DEF SerialInv, CurrentInv, Retired
  <2>5. Comparable /\ ~Deleted =>
           /\ floor.generation <= Current.generation
           /\ floor.keys_changed_at <= Current.keys_changed_at
    BY <1>1 DEF SerialInv, FloorInv, Live
  <2>6. floor' = floor
    BY <1>1
  <2>7. QED
    BY <1>6, <2>1, <2>2, <2>3, <2>4, <2>5, <2>6, FloorNaturals,
       MaxGenerationAssumption DEF SeenInv, Generations
<1>13. QED
  BY <1>9, <1>10, <1>11, <1>12 DEF SerialStep, WorkerInv

LEMMA SelectNothingSerial ==
    ASSUME Serial, IInv, SerialInv, IInv', NEW w \in Workers,
           SelectNothing(w)
    PROVE  SerialStep(w)
<1>1. /\ UNCHANGED <<table, nodeTable, world, floor>>
      /\ job[w].pc = "select" /\ users = {}
  BY DEF SelectNothing
<1>2. /\ TableKept /\ FloorInv' /\ users' = users
      /\ Live' <=> Live
  BY <1>1, SameTable
<1>3. CASE End(w, "idle")
  BY <1>2, <1>3, EndKeeps DEF SerialStep
<1>4. CASE ~End(w, "idle")
  <2>1. /\ job'[w].pc = "allocate" /\ job'[w].claims = job[w].claims
        /\ job'[w].seen = job[w].seen /\ job'[w].stale = {}
        /\ job'[w].user.generation \in {0, job[w].claims.generation}
        /\ job'[w].kind = "token" => job[w].kind = "token"
    <3>1. CASE Go(w, "allocate", NewUser(job[w].claims), {}, clock, 0)
      BY <3>1, GoIs DEF NewUser
    <3>2. CASE job' = [job EXCEPT ![w].pc = "allocate", ![w].kind = "place",
                                  ![w].user = NewUser(NoClaims),
                                  ![w].since = clock]
      <4>1. job[w].stale = {}
        BY <1>1 DEF SerialInv, WorkerInv, PlaceInv
      <4>2. QED
        BY <3>2, <4>1 DEF IInv, TypeOK, Jobs, NewUser, NoClaims
    <3>3. QED
      BY <1>1, <1>4, <3>1, <3>2 DEF SelectNothing
  <2>2. PlaceInv(w)'
    BY <1>1, <1>2, <2>1, SomeGenerations
       DEF PlaceInv, Live, SerialInv, WorkerInv, ClaimsInv
  <2>3. ClaimsInv(w)'
    BY <1>1, <2>1 DEF ClaimsInv, SerialInv, WorkerInv
  <2>4. SeenInv(w)'
    <3>1. floor.generation = 0
      BY <1>1 DEF SerialInv, FloorInv
    <3>2. /\ job[w].seen.generation <= floor.generation
          /\ job[w].seen.keys_changed_at <= floor.keys_changed_at
      BY DEF SerialInv, WorkerInv, SeenInv
    <3>3. ~(job[w].seen.generation >= MAX_GENERATION)
      BY <3>1, <3>2, SomeGenerations, MaxGenerationAssumption
         DEF IInv, TypeOK, Jobs, Seen, Generations
    <3>4. QED
      BY <1>1, <2>1, <3>2, <3>3 DEF SeenInv
  <2>5. QED
    BY <1>2, <2>2, <2>3, <2>4 DEF SerialStep, WorkerInv
<1>5. QED
  BY <1>3, <1>4

LEMMA BestNodeSerial ==
    ASSUME Serial, IInv, SerialInv, IInv', NEW w \in Workers, BestNode(w)
    PROVE  SerialStep(w)
<1>1. /\ UNCHANGED <<table, nodeTable, world, floor>>
      /\ job[w].pc = "allocate"
  BY DEF BestNode
<1>2. /\ TableKept /\ FloorInv' /\ users' = users
      /\ Live' <=> Live
  BY <1>1, SameTable
<1>3. CASE End(w, "error")
  BY <1>2, <1>3, EndKeeps DEF SerialStep
<1>4. CASE ~End(w, "error")
  <2>1. PICK n \in nodes :
           Go(w, "insert", [job[w].user EXCEPT !.node = n],
              job[w].stale, job[w].since, job[w].stamp)
    BY <1>4 DEF BestNode
  <2>2. /\ job'[w].pc = "insert" /\ job'[w].kind = job[w].kind
        /\ job'[w].claims = job[w].claims /\ job'[w].seen = job[w].seen
        /\ job'[w].user = [job[w].user EXCEPT !.node = n]
        /\ job'[w].stale = job[w].stale
    BY <2>1, GoIs
  <2>3. job'[w].user.generation = job[w].user.generation
    BY <2>2, JobTypes DEF Users
  <2>4. PlaceInv(w)'
    BY <1>1, <1>2, <2>2, <2>3 DEF PlaceInv, Live, SerialInv, WorkerInv
  <2>5. ClaimsInv(w)'
    BY <1>1, <2>2 DEF ClaimsInv, SerialInv, WorkerInv
  <2>6. SeenInv(w)'
    BY <1>1, <2>2, <2>3 DEF SeenInv, SerialInv, WorkerInv
  <2>7. QED
    BY <1>2, <2>4, <2>5, <2>6 DEF SerialStep, WorkerInv
<1>5. QED
  BY <1>3, <1>4

-----------------------------------------------------------------------------
(* What the steps that change the table start from.                        *)

LEMMA WorkerFacts ==
    ASSUME IInv, SerialInv, NEW w \in Workers
    PROVE  /\ PlaceInv(w) /\ ClaimsInv(w) /\ SeenInv(w)
           /\ job[w].user.generation \in Nat
           /\ job[w].user.keys_changed_at \in Nat
           /\ job[w].claims.generation \in Nat
           /\ job[w].claims.keys_changed_at \in Nat
           /\ job[w].seen.generation \in Nat
           /\ job[w].seen.keys_changed_at \in Nat
<1>1. PlaceInv(w) /\ ClaimsInv(w) /\ SeenInv(w)
  BY DEF SerialInv, WorkerInv
<1>2. Generations \subseteq Nat
  BY MaxGenerationAssumption DEF Generations
<1>3. job[w].seen \in Seen
  BY DEF IInv, TypeOK, Jobs
<1>4. QED
  BY <1>1, <1>2, <1>3, JobTypes DEF Users, Claims, Seen

(* A deletion is never undone, and the table never empty again.            *)
LEMMA DeletedStays ==
    ASSUME IInv, TableStep
    PROVE  /\ Deleted => Deleted'
           /\ users # {} => users' # {}
<1>1. users \in SUBSET Rows
  BY DEF IInv, TypeOK
<1>2. CASE UNCHANGED table
  BY <1>2 DEF table, Deleted
<1>3. CASE Evolves(users, users')
  <2>1. \A r \in users : \E s \in users' : Advances(r, s)
    BY <1>3 DEF Evolves
  <2>2. users' \in SUBSET Rows
    BY <1>3 DEF Evolves
  <2>3. \A r \in users, s \in users' :
           Advances(r, s) /\ Retired(r) => Retired(s)
    BY <1>1, <2>2, MaxGenerationAssumption
       DEF Advances, Retired, Rows, Generations
  <2>4. QED
    BY <2>1, <2>3 DEF Deleted
<1>4. CASE Insertion
  BY <1>4 DEF Insertion, Deleted
<1>5. QED
  BY <1>2, <1>3, <1>4 DEF TableStep

(* The last checks and the token, for a user dict that is not ahead of the *)
(* row in use.                                                             *)
LEMMA AnswerSerial ==
    ASSUME Serial, IInv, SerialInv, IInv', NEW w \in Workers,
           NEW user \in Users, Answer(w, user),
           job[w].kind = "token", job[w].pc \in {"check", "older"},
           TableKept, users' # {}, Deleted' <=> Deleted,
           user.generation >= MAX_GENERATION => Deleted',
           Comparable /\ Live' =>
              /\ floor.generation <= Current'.generation
              /\ floor.keys_changed_at <= Current'.keys_changed_at
              /\ user.generation <= Current'.generation
              /\ user.keys_changed_at <= Current'.keys_changed_at,
           user.generation >= job[w].user.generation,
           user.keys_changed_at >= job[w].user.keys_changed_at
    PROVE  SerialStep(w)
<1>1. user.generation \in Nat /\ user.keys_changed_at \in Nat
  BY MaxGenerationAssumption DEF Users, Generations
<1>2. floor.generation \in Nat /\ floor.keys_changed_at \in Nat
  BY FloorNaturals
<1>3. floor.generation >= MAX_GENERATION <=> Deleted'
  BY DEF SerialInv, FloorInv
<1>4. CASE End(w, "idle") \/ End(w, "error")
  <2>1. floor' = floor
    <3>1. job'[w].pc \in {"idle", "error"}
      BY <1>4 DEF End, Ended, IInv, TypeOK
    <3>2. ~Go(w, "granted", user, {}, 0, 0)
      BY <3>1 DEF Go, IInv, TypeOK
    <3>3. QED
      BY <3>2 DEF Answer
  <2>2. FloorInv'
    BY <1>3, <2>1 DEF FloorInv
  <2>3. WorkerInv(w)'
    BY <1>4, EndKeeps
  <2>4. QED
    BY <2>2, <2>3 DEF SerialStep
<1>5. CASE ~(End(w, "idle") \/ End(w, "error"))
  <2>1. /\ ~Behind(user, job[w].claims)
        /\ Go(w, "granted", user, {}, 0, 0)
        /\ RaiseFloor(user.generation, user.keys_changed_at)
    BY <1>5 DEF Answer
  <2>2. /\ job'[w].pc = "granted" /\ job'[w].kind = "token"
        /\ job'[w].claims = job[w].claims /\ job'[w].seen = job[w].seen
        /\ job'[w].user = user
    BY <2>1, GoIs
  <2>3. /\ floor'.generation = Max2(floor.generation, user.generation)
        /\ floor'.keys_changed_at =
              Max2(floor.keys_changed_at, user.keys_changed_at)
    BY <2>1 DEF RaiseFloor
  <2>4. FloorInv'
    BY <1>1, <1>2, <1>3, <2>3, SomeGenerations DEF FloorInv, Max2
  <2>5. PlaceInv(w)'
    BY <2>2 DEF PlaceInv
  <2>6. ClaimsInv(w)'
    BY <2>1, <2>2, WorkerFacts DEF ClaimsInv
  <2>7. SeenInv(w)'
    BY <1>1, <1>2, <2>2, <2>3, WorkerFacts, SomeGenerations DEF SeenInv, Max2
  <2>8. QED
    BY <2>4, <2>5, <2>6, <2>7 DEF SerialStep, WorkerInv
<1>6. QED
  BY <1>4, <1>5

(* The user dict of a worker at the last checks, when there is no update.  *)
LEMMA CheckingSerial ==
    ASSUME Serial, IInv, SerialInv, NEW w \in Workers, job[w].pc = "check"
    PROVE  /\ users # {}
           /\ ~Deleted => /\ Live /\ Active(Current) /\ OnlyActive(Current)
                          /\ Matches(job[w].user, Current)
                          /\ job[w].user.generation < MAX_GENERATION
<1>1. users # {}
  BY DEF IInv, JobInv, NamesRow
<1>2. ~Deleted => Live
  BY <1>1 DEF Live
<1>3. QED
  BY <1>1, <1>2, WorkerFacts, CurrentFacts
     DEF PlaceInv, SerialInv, CurrentInv, Matches

LEMMA NoUpdateSerial ==
    ASSUME Serial, IInv, SerialInv, IInv', NEW w \in Workers, NoUpdate(w)
    PROVE  SerialStep(w)
<1>1. /\ UNCHANGED <<table, nodeTable, world>> /\ Answer(w, job[w].user)
      /\ job[w].pc = "check" /\ job[w].kind = "token"
  BY DEF NoUpdate, Checking
<1>2. /\ TableKept /\ users' = users /\ Current' = Current
      /\ (Live' <=> Live) /\ (Deleted' <=> Deleted)
  BY <1>1, SameTable
<1>3. job[w].user \in Users
  BY JobTypes
<1>4. Live => ~Deleted
  BY DEF Live
<1>5. users' # {} /\ (job[w].user.generation >= MAX_GENERATION => Deleted')
  BY <1>1, <1>2, CheckingSerial, WorkerFacts, SomeGenerations
<1>6. Comparable /\ Live' =>
         /\ floor.generation <= Current'.generation
         /\ floor.keys_changed_at <= Current'.keys_changed_at
         /\ job[w].user.generation <= Current'.generation
         /\ job[w].user.keys_changed_at <= Current'.keys_changed_at
  BY <1>1, <1>2, <1>4, CheckingSerial, WorkerFacts
     DEF SerialInv, FloorInv, Matches
<1>7. /\ job[w].user.generation >= job[w].user.generation
      /\ job[w].user.keys_changed_at >= job[w].user.keys_changed_at
  BY WorkerFacts
<1>8. QED
  BY <1>1, <1>2, <1>3, <1>5, <1>6, <1>7, AnswerSerial

LEMMA InsertAllocatedSerial ==
    ASSUME Serial, IInv, SerialInv, IInv', NEW w \in Workers,
           InsertAllocated(w)
    PROVE  SerialStep(w)
<1>1. PICK now \in ReadSince(job[w].since) :
         users' = CreateUserRecord(users, nextUid, job[w].user.node,
                                   job[w].user, now)
  BY DEF InsertAllocated
<1>2. /\ job[w].pc = "insert" /\ nextUid <= MaxUid /\ nextUid' = nextUid + 1
      /\ UNCHANGED <<nodeTable, world, floor>>
      /\ Go(w, AfterRead(job[w].stale), Inserted(job[w].user, nextUid),
            job[w].stale, 0, job[w].stamp)
  BY DEF InsertAllocated
<1>3. /\ users = {} /\ job[w].stale = {}
      /\ job[w].user.generation < MAX_GENERATION
  BY <1>2, WorkerFacts DEF PlaceInv
<1>4. /\ floor.generation = 0 /\ floor.keys_changed_at = 0
      /\ job[w].seen.generation = 0 /\ job[w].seen.keys_changed_at = 0
  BY <1>3, WorkerFacts DEF SerialInv, FloorInv, SeenInv
<1>5. PICK new : /\ users' = {new} /\ new.uid = nextUid
                 /\ new.client_state = job[w].user.client_state
                 /\ new.generation = job[w].user.generation
                 /\ new.keys_changed_at = job[w].user.keys_changed_at
                 /\ new.replaced_at = NULL
  <2> DEFINE new == [uid |-> nextUid, nodeid |-> job[w].user.node,
                     client_state |-> job[w].user.client_state,
                     generation |-> job[w].user.generation,
                     keys_changed_at |-> job[w].user.keys_changed_at,
                     created_at |-> now, replaced_at |-> NULL]
  <2>1. users' = {new}
    BY <1>1, <1>3 DEF CreateUserRecord
  <2>2. /\ new.uid = nextUid
        /\ new.client_state = job[w].user.client_state
        /\ new.generation = job[w].user.generation
        /\ new.keys_changed_at = job[w].user.keys_changed_at
        /\ new.replaced_at = NULL
    OBVIOUS
  <2> HIDE DEF new
  <2>3. QED
    BY <2>1, <2>2
<1>6. nextUid' <= MaxUid + 1
  BY <1>2, BoundsAssumption DEF IInv, TypeOK
<1>7. Ordered(users')
  BY <1>6, OrderedNext
<1>8. Current' = new
  BY <1>5, <1>7, Sight DEF Current
<1>9. ~Deleted' /\ Live' /\ Active(Current)' /\ OnlyActive(Current)'
  BY <1>3, <1>5, <1>8, WorkerFacts, SomeGenerations
     DEF Deleted, Live, Retired, Active, OnlyActive
<1>10. TableKept
  BY <1>2, <1>3, <1>6, <1>9
     DEF TableKept, CurrentMoves, CurrentInv, SerialInv, nodeTable
<1>11. FloorInv'
  BY <1>2, <1>4, <1>5, <1>8, <1>9, WorkerFacts, SomeGenerations DEF FloorInv
<1>12. /\ job'[w].pc = "check" /\ job'[w].kind = job[w].kind
       /\ job'[w].claims = job[w].claims /\ job'[w].seen = job[w].seen
       /\ job'[w].user = Inserted(job[w].user, nextUid)
  BY <1>2, <1>3, GoIs DEF AfterRead
<1>13. /\ Matches(job[w].user, Current)'
       /\ job'[w].user.generation = job[w].user.generation
       /\ job'[w].user.keys_changed_at = job[w].user.keys_changed_at
  BY <1>5, <1>8, <1>12, JobTypes DEF Matches, Inserted, Users
<1>14. PlaceInv(w)'
  BY <1>9, <1>12, <1>13 DEF PlaceInv
<1>15. ClaimsInv(w)'
  BY <1>2, <1>12, WorkerFacts DEF ClaimsInv
<1>16. SeenInv(w)'
  BY <1>2, <1>4, <1>12, <1>13, WorkerFacts, SomeGenerations DEF SeenInv
<1>17. QED
  BY <1>10, <1>11, <1>14, <1>15, <1>16 DEF SerialStep, WorkerInv

LEMMA MarkOldSerial ==
    ASSUME Serial, IInv, SerialInv, IInv', NEW w \in Workers, MarkOld(w)
    PROVE  SerialStep(w)
<1> DEFINE stale == job[w].stale
<1>1. PICK row : row = TopRanked(stale)
  OBVIOUS
<1>2. /\ job[w].pc = "mark"
      /\ users' = ReplaceUserRecord(users, row.uid, job[w].stamp)
      /\ \E stamp : Go(w, AfterRead(stale \ {row}), job[w].user,
                       stale \ {row}, 0, stamp)
      /\ UNCHANGED <<nextUid, nodeTable, world, floor>>
  BY <1>1 DEF MarkOld
<1>3. /\ stale # {} /\ UniqueUids(stale) /\ stale \in SUBSET Rows
      /\ \A s \in stale : s.uid < nextUid /\ s.created_at <= clock
  BY <1>2, WorkerFacts, JobTypes DEF PlaceInv
<1>4. row \in stale
  <2>1. nextUid \in Nat /\ clock \in Nat
    BY DEF IInv, TypeOK
  <2>2. nextUid + clock \in Nat /\ Bounded(stale, nextUid + clock)
    BY <1>3, <2>1 DEF Bounded, Rows
  <2>3. QED
    BY <1>1, <1>3, <2>2, TopRankedExists
<1>5. /\ job'[w].pc = AfterRead(stale \ {row}) /\ job'[w].kind = job[w].kind
      /\ job'[w].claims = job[w].claims /\ job'[w].seen = job[w].seen
      /\ job'[w].user = job[w].user /\ job'[w].stale = stale \ {row}
  BY <1>2, GoIs
<1>6. job'[w].pc \in {"mark", "check"}
      /\ (job'[w].pc = "mark" <=> stale \ {row} # {})
  BY <1>5 DEF AfterRead
<1>7. users # {} /\ nextUid' = nextUid /\ nextUid <= MaxUid + 1
  BY <1>2 DEF IInv, JobInv, NamesRow, SerialInv, CurrentInv
<1>8. Ordered(users) /\ Ordered(users')
  BY <1>7, OrderedNow, OrderedNext
<1>9. \A s \in users' : \E r \in users : s.generation = r.generation
  BY <1>2, <1>8 DEF ReplaceUserRecord, Ordered, Rows
<1>10. \A r \in users : \E s \in users' : s.generation = r.generation
  <2>1. ASSUME NEW r \in users
        PROVE  \E s \in users' : s.generation = r.generation
    <3> DEFINE s == IF r.uid = row.uid
                    THEN [r EXCEPT !.replaced_at = job[w].stamp] ELSE r
    <3>1. s \in users'
      BY <1>2 DEF ReplaceUserRecord
    <3>2. s.generation = r.generation
      BY <1>8 DEF Ordered, Rows
    <3>3. QED
      BY <3>1, <3>2
  <2>2. QED
    BY <2>1
<1>11. (Deleted' <=> Deleted) /\ (Live' <=> Live) /\ users' # {}
  BY <1>7, <1>9, <1>10 DEF Deleted, Live, Retired
<1>12. Live => /\ Matches(job[w].user, Current)
               /\ \A s \in stale : s.uid # Current.uid
               /\ \A r \in users : Active(r) =>
                     r = Current \/ \E s \in stale : s.uid = r.uid
  BY <1>2, WorkerFacts DEF PlaceInv
<1>13. Live => /\ Current' = Current
               /\ \A r \in users' : Active(r) => r \in users /\ r.uid # row.uid
  <2>1. Live => row.uid # Current.uid
    BY <1>4, <1>12
  <2>2. job[w].stamp \in Nat
    BY JobTypes
  <2>3. QED
    BY <1>2, <1>7, <1>8, <2>1, <2>2, MarkKeepsCurrent DEF Current
<1>14. Live => /\ Current.generation \in Nat
               /\ Current.keys_changed_at \in Nat
               /\ Active(Current)
  BY CurrentFacts DEF SerialInv, CurrentInv, Live
<1>15. TableKept
  BY <1>2, <1>7, <1>11, <1>13, <1>14
     DEF TableKept, CurrentMoves, CurrentInv, SerialInv, nodeTable
<1>16. FloorInv'
  BY <1>2, <1>7, <1>11, <1>13 DEF FloorInv, SerialInv
<1>17. PlaceInv(w)'
  <2>1. /\ UniqueUids(stale \ {row})
        /\ \A s \in stale \ {row} : s.uid < nextUid' /\ s.created_at <= clock'
    BY <1>2, <1>3 DEF UniqueUids, world
  <2>2. Live =>
           \A r \in users' : Active(r) =>
              r = Current' \/ \E s \in stale \ {row} : s.uid = r.uid
    BY <1>12, <1>13
  <2>3. Live /\ stale \ {row} = {} => OnlyActive(Current)'
    BY <2>2 DEF OnlyActive
  <2>4. Live => /\ Matches(job[w].user, Current)'
                /\ \A s \in stale \ {row} : s.uid # Current'.uid
    BY <1>5, <1>12, <1>13 DEF Matches
  <2> HIDE DEF stale
  <2>5. QED
    BY <1>5, <1>6, <1>11, <2>1, <2>2, <2>3, <2>4 DEF PlaceInv
<1>18. ClaimsInv(w)'
  BY <1>2, <1>5, <1>6, WorkerFacts DEF ClaimsInv
<1>19. SeenInv(w)'
  BY <1>2, <1>5, <1>6, WorkerFacts DEF SeenInv
<1>20. QED
  BY <1>15, <1>16, <1>17, <1>18, <1>19 DEF SerialStep, WorkerInv

(* A timestamp is updated to a newer one that was claimed.                 *)
LEMMA UpdatesAre ==
    ASSUME NEW user, NEW claims,
           user.generation \in Nat, user.keys_changed_at \in Nat,
           claims.generation \in Nat, claims.keys_changed_at \in Nat
    PROVE  LET g == GenerationUpdate(user, claims)
               k == KeysUpdate(user, claims)
           IN  /\ g = NULL \/ /\ g \in {claims.generation, claims.keys_changed_at}
                              /\ g > user.generation
               /\ k = NULL \/ /\ k = claims.keys_changed_at
                              /\ k > user.keys_changed_at
               /\ claims.keys_changed_at > user.keys_changed_at => k # NULL
<1>1. NULL \notin Nat
  BY DEF NULL
<1>2. QED
  BY <1>1 DEF GenerationUpdate, KeysUpdate, KeysAdvance

(* An in-place update that its worker bases on the current row.             *)
LEMMA InPlaceMoves ==
    ASSUME Serial, IInv, SerialInv, IInv', NEW w \in Workers,
           job[w].pc = "check", ~Deleted, nextUid' = nextUid,
           NEW g \in Generations \cup {NULL}, NEW k \in Generations \cup {NULL},
           users' = UpdateUserRecordInPlace(users, g, k),
           \/ k = NULL
           \/ /\ g = NULL \/ g >= Current.generation
              /\ k >= Current.keys_changed_at
    PROVE  /\ Current'.uid = Current.uid
           /\ Current'.client_state = Current.client_state
           /\ Current'.generation = Max2(Current.generation, g)
           /\ Current'.keys_changed_at = Max2(Current.keys_changed_at, k)
           /\ Active(Current')
           /\ \A s \in users' : s \in users \/ s = Current'
<1>1. users # {} /\ nextUid <= MaxUid + 1
  BY CheckingSerial DEF SerialInv, CurrentInv
<1>2. Ordered(users) /\ Ordered(users')
  BY <1>1, OrderedNow, OrderedNext
<1>3. /\ Active(CurrentRow(users))
      /\ \A r \in users : Active(r) => r = CurrentRow(users)
  BY CheckingSerial DEF OnlyActive, Current
<1>4. QED
  BY <1>1, <1>2, <1>3, UpdateMovesCurrent DEF Current

LEMMA UpdateInPlaceSerial ==
    ASSUME Serial, IInv, SerialInv, IInv', NEW w \in Workers,
           UpdateInPlace(w), TableStep
    PROVE  SerialStep(w)
<1> DEFINE generation == GenerationUpdate(job[w].user, job[w].claims)
           keys == KeysUpdate(job[w].user, job[w].claims)
           user == Advanced(job[w].user, generation, keys)
<1>1. /\ job[w].pc = "check" /\ job[w].kind = "token"
      /\ users' = UpdateUserRecordInPlace(users, generation, keys)
      /\ Answer(w, user)
      /\ UNCHANGED <<nextUid, nodeTable, world>>
  BY DEF UpdateInPlace, Checking
<1>2. /\ generation \in Generations \cup {NULL} /\ keys \in Generations \cup {NULL}
      /\ user \in Users
  BY UpdateTypes, AdvancedTypes, JobTypes
<1>3. /\ generation = NULL \/ generation > job[w].user.generation
      /\ keys = NULL \/ keys > job[w].user.keys_changed_at
      /\ generation < MAX_GENERATION /\ keys < MAX_GENERATION
  BY WorkerFacts, SomeGenerations
     DEF ClaimsInv, GenerationUpdate, KeysUpdate, KeysAdvance, NULL
<1>4. /\ user.generation = Max2(job[w].user.generation, generation)
      /\ user.keys_changed_at = Max2(job[w].user.keys_changed_at, keys)
  <2> DEFINE user1 == [job[w].user EXCEPT !.generation = Max2(@, generation)]
  <2>1. /\ user1 \in Users
        /\ user1.generation = Max2(job[w].user.generation, generation)
        /\ user1.keys_changed_at = job[w].user.keys_changed_at
    BY <1>2, JobTypes, MaxTypes DEF Users
  <2>2. user = [user1 EXCEPT !.keys_changed_at = Max2(@, keys)]
    BY DEF Advanced
  <2> HIDE DEF user1
  <2>3. QED
    BY <2>1, <2>2 DEF Users
<1>5. users # {} /\ nextUid <= MaxUid + 1
  BY <1>1, CheckingSerial DEF SerialInv, CurrentInv
<1>7. users' # {} /\ (Deleted => Deleted')
  BY <1>5, DeletedStays
<1> HIDE DEF generation, keys, user
<1>8. /\ user.generation >= job[w].user.generation
      /\ user.keys_changed_at >= job[w].user.keys_changed_at
  BY <1>2, <1>4, WorkerFacts, MaxGenerationAssumption
     DEF Max2, Generations, NULL
<1>9. CASE ~Deleted
  <2>1. /\ Live /\ Active(Current) /\ OnlyActive(Current)
        /\ Matches(job[w].user, Current)
        /\ job[w].user.generation < MAX_GENERATION
    BY <1>1, <1>9, CheckingSerial
  <2>2. /\ Current'.client_state = Current.client_state
        /\ Current'.generation = Max2(Current.generation, generation)
        /\ Current'.keys_changed_at = Max2(Current.keys_changed_at, keys)
        /\ Active(Current')
        /\ \A s \in users' : s \in users \/ s = Current'
    <3>1. \/ keys = NULL
          \/ /\ generation = NULL \/ generation >= Current.generation
             /\ keys >= Current.keys_changed_at
      BY <1>2, <1>3, <2>1, WorkerFacts, MaxGenerationAssumption
         DEF Matches, Generations, NULL
    <3>2. QED
      BY <1>1, <1>2, <1>9, <3>1, InPlaceMoves
  <2>3. /\ Current'.generation = user.generation
        /\ Current'.keys_changed_at = user.keys_changed_at
    BY <1>4, <2>1, <2>2 DEF Matches
  <2>4. user.generation \in Nat /\ user.generation < MAX_GENERATION
    BY <1>2, <1>3, <1>4, <2>1, WorkerFacts, MaxGenerationAssumption
       DEF Max2, Generations, NULL
  <2>5. ~Deleted' /\ Live'
    BY <1>7, <1>9, <2>2, <2>3, <2>4, SomeGenerations
       DEF Deleted, Live, Retired
  <2>6. TableKept
    BY <1>1, <1>5, <1>8, <2>1, <2>2, <2>3, <2>5
       DEF TableKept, CurrentMoves, CurrentInv, SerialInv, nodeTable, Matches
  <2>7. Comparable => /\ floor.generation <= Current'.generation
                      /\ floor.keys_changed_at <= Current'.keys_changed_at
    <3>1. Comparable => /\ floor.generation <= job[w].user.generation
                        /\ floor.keys_changed_at <= job[w].user.keys_changed_at
      BY <2>1 DEF SerialInv, FloorInv, Matches
    <3>2. user.keys_changed_at \in Nat
      BY <1>2, MaxGenerationAssumption DEF Users, Generations
    <3>3. QED
      BY <1>8, <2>3, <2>4, <3>1, <3>2, WorkerFacts, FloorNaturals
  <2>8. /\ user.generation <= Current'.generation
        /\ user.keys_changed_at <= Current'.keys_changed_at
        /\ ~(user.generation >= MAX_GENERATION)
    BY <1>2, <2>3, <2>4, MaxGenerationAssumption DEF Users, Generations
  <2>9. QED
    BY <1>1, <1>2, <1>7, <1>8, <1>9, <2>5, <2>6, <2>7, <2>8, AnswerSerial
<1>10. CASE Deleted
  <2>1. TableKept
    BY <1>1, <1>5, <1>7, <1>10
       DEF TableKept, CurrentMoves, CurrentInv, SerialInv, nodeTable, Live
  <2>2. QED
    BY <1>1, <1>2, <1>7, <1>8, <1>10, <2>1, AnswerSerial DEF Live
<1>11. QED
  BY <1>9, <1>10

LEMMA BumpGenerationSerial ==
    ASSUME Serial, IInv, SerialInv, IInv', NEW w \in Workers,
           BumpGeneration(w), TableStep
    PROVE  SerialStep(w)
<1> DEFINE generation == job[w].claims.generation
<1>1. /\ job[w].pc = "check"
      /\ users' = UpdateUserRecordInPlace(users, generation, NULL)
      /\ RaiseFloor(generation, 0) /\ End(w, "idle")
      /\ UNCHANGED <<nextUid, nodeTable, world>>
  BY DEF BumpGeneration, Checking
<1>2. generation \in Generations /\ generation < MAX_GENERATION
      /\ generation \in Nat
  BY JobTypes, WorkerFacts DEF Claims, ClaimsInv
<1> HIDE DEF generation
<1>3. users # {} /\ nextUid <= MaxUid + 1
  BY <1>1, CheckingSerial DEF SerialInv, CurrentInv
<1>5. users' # {} /\ (Deleted => Deleted')
  BY <1>3, DeletedStays
<1>6. /\ floor'.generation = Max2(floor.generation, generation)
      /\ floor'.keys_changed_at = floor.keys_changed_at
  BY <1>1, FloorNaturals DEF RaiseFloor, Max2
<1>7. floor'.generation >= MAX_GENERATION <=> Deleted
  BY <1>2, <1>6, FloorNaturals, SomeGenerations DEF Max2, SerialInv, FloorInv
<1>8. CASE ~Deleted
  <2>1. Live /\ Active(Current) /\ OnlyActive(Current)
    BY <1>1, <1>8, CheckingSerial
  <2>2. /\ Current'.client_state = Current.client_state
        /\ Current'.generation = Max2(Current.generation, generation)
        /\ Current'.keys_changed_at = Max2(Current.keys_changed_at, NULL)
        /\ Active(Current')
        /\ \A s \in users' : s \in users \/ s = Current'
    <3>1. PICK none \in Generations \cup {NULL} : none = NULL
      OBVIOUS
    <3>2. users' = UpdateUserRecordInPlace(users, generation, none)
      BY <1>1, <3>1
    <3>3. QED
      BY <1>1, <1>2, <1>8, <3>1, <3>2, InPlaceMoves
  <2>3. /\ Current.generation \in Nat /\ Current.keys_changed_at \in Nat
        /\ Current.generation < MAX_GENERATION
    BY <1>3, <1>8, CurrentFacts DEF SerialInv
  <2>4. /\ Current'.generation >= Current.generation
        /\ Current'.generation >= generation
        /\ Current'.generation < MAX_GENERATION
        /\ Current'.generation \in Nat
        /\ Current'.keys_changed_at = Current.keys_changed_at
    BY <1>2, <2>2, <2>3 DEF Max2, NULL
  <2>5. ~Deleted' /\ Live'
    BY <1>5, <1>8, <2>2, <2>4, SomeGenerations DEF Deleted, Live, Retired
  <2>6. TableKept
    BY <1>1, <1>3, <2>1, <2>2, <2>3, <2>4, <2>5
       DEF TableKept, CurrentMoves, CurrentInv, SerialInv, nodeTable
  <2>7. FloorInv'
    BY <1>2, <1>5, <1>6, <1>7, <1>8, <2>1, <2>3, <2>4, <2>5, FloorNaturals
       DEF FloorInv, SerialInv, Max2
  <2>8. QED
    BY <1>1, <2>6, <2>7, EndKeeps DEF SerialStep
<1>9. CASE Deleted
  <2>1. TableKept
    BY <1>1, <1>3, <1>5, <1>9
       DEF TableKept, CurrentMoves, CurrentInv, SerialInv, nodeTable, Live
  <2>2. FloorInv'
    BY <1>5, <1>7, <1>9 DEF FloorInv, Live
  <2>3. QED
    BY <1>1, <2>1, <2>2, EndKeeps DEF SerialStep
<1>10. QED
  BY <1>8, <1>9

LEMMA LookupNodeSerial ==
    ASSUME Serial, IInv, SerialInv, IInv', NEW w \in Workers, LookupNode(w)
    PROVE  SerialStep(w)
<1> DEFINE user == NewStateUser(job[w].user, job[w].claims)
<1>1. /\ UNCHANGED <<table, nodeTable, world, floor>>
      /\ job[w].pc = "check" /\ job[w].kind = "token"
      /\ StateChange(job[w].user, job[w].claims)
      /\ ~Refused(job[w].user, job[w].claims)
  BY DEF LookupNode, Checking
<1>2. /\ TableKept /\ FloorInv' /\ users' = users
      /\ Current' = Current /\ (Live' <=> Live)
  BY <1>1, SameTable
<1>3. CASE End(w, "error")
  BY <1>2, <1>3, EndKeeps DEF SerialStep
<1>4. CASE ~End(w, "error")
  <2>1. Go(w, "create", user, {}, clock, 0)
    BY <1>4 DEF LookupNode
  <2> DEFINE g == GenerationUpdate(job[w].user, job[w].claims)
             k == KeysUpdate(job[w].user, job[w].claims)
  <2>2. /\ user.client_state = job[w].claims.client_state
        /\ user.generation = Max2(job[w].user.generation, g)
        /\ user.keys_changed_at = Max2(job[w].user.keys_changed_at, k)
    BY DEF NewStateUser
  <2> HIDE DEF user
  <2>3. /\ job[w].claims.client_state # NoState
        /\ job[w].claims.generation > 0 => g # NULL
        /\ job[w].user.keys_changed_at > 0 => k # NULL
    BY <1>1 DEF Refused
  <2>4. /\ g = NULL \/ (g \in Nat /\ g > job[w].user.generation)
        /\ k = NULL \/ (k \in Nat /\ k > job[w].user.keys_changed_at)
        /\ g < MAX_GENERATION
        /\ job[w].claims.keys_changed_at > job[w].user.keys_changed_at =>
              k # NULL
    <3>1. /\ g = NULL \/ /\ g \in {job[w].claims.generation,
                                     job[w].claims.keys_changed_at}
                           /\ g > job[w].user.generation
          /\ k = NULL \/ /\ k = job[w].claims.keys_changed_at
                          /\ k > job[w].user.keys_changed_at
          /\ job[w].claims.keys_changed_at > job[w].user.keys_changed_at =>
                k # NULL
      BY UpdatesAre, WorkerFacts
    <3> HIDE DEF g, k
    <3>2. /\ job[w].claims.generation < MAX_GENERATION
          /\ job[w].claims.keys_changed_at < MAX_GENERATION
      BY WorkerFacts DEF ClaimsInv
    <3>3. NULL < MAX_GENERATION
      BY SomeGenerations DEF NULL
    <3>4. QED
      BY <3>1, <3>2, <3>3, WorkerFacts
  <2>5. /\ user.generation \in Nat /\ user.keys_changed_at \in Nat
        /\ user.generation >= job[w].user.generation
        /\ user.keys_changed_at >= job[w].user.keys_changed_at
        /\ job[w].user.generation < MAX_GENERATION =>
              user.generation < MAX_GENERATION
        /\ job[w].claims.generation > 0 =>
              user.generation > job[w].user.generation
    <3> HIDE DEF g, k
    <3>1. QED
      BY <2>2, <2>3, <2>4, WorkerFacts DEF Max2, NULL
  <2>6. \/ user.generation > job[w].user.generation
        \/ user.keys_changed_at > job[w].user.keys_changed_at
    <3>1. CASE job[w].claims.generation > 0
      BY <2>5, <3>1
    <3>2. CASE ~(job[w].claims.generation > 0)
      <4>1. job[w].claims.keys_changed_at > 0
        BY <1>1, <3>2, WorkerFacts DEF ClaimsInv
      <4>2. k # NULL
        BY <2>3, <2>4, <4>1, WorkerFacts
      <4> HIDE DEF g, k
      <4>3. QED
        BY <2>2, <2>4, <4>2, WorkerFacts DEF Max2, NULL
    <3>3. QED
      BY <3>1, <3>2
  <2>7. /\ job'[w].pc = "create" /\ job'[w].kind = "token"
        /\ job'[w].claims = job[w].claims /\ job'[w].seen = job[w].seen
        /\ job'[w].user = user /\ job'[w].since = clock
    BY <1>1, <2>1, GoIs
  <2>8. users # {} /\ \A r \in users : r.created_at <= clock
    BY <1>1, CheckingSerial DEF IInv, TableInv
  <2>9. Live => Succeeds(user, job[w].claims, "token")
    <3>1. Live => /\ Matches(job[w].user, Current)
                  /\ job[w].user.generation < MAX_GENERATION
      BY <1>1, CheckingSerial DEF Live
    <3>2. QED
      BY <2>2, <2>3, <2>5, <2>6, <3>1 DEF Matches, Succeeds
  <2>10. Live' => /\ Succeeds(job[w].user, job[w].claims, job[w].kind)'
                  /\ OnlyActive(Current)'
    <3>1. Live => OnlyActive(Current)
      BY <1>1, CheckingSerial DEF Live
    <3>2. QED
      BY <1>2, <2>7, <2>9, <3>1 DEF Succeeds, OnlyActive
  <2>11. PlaceInv(w)'
    BY <1>2, <2>7, <2>8, <2>10 DEF PlaceInv
  <2>12. ClaimsInv(w)'
    BY <1>1, <2>7, WorkerFacts DEF ClaimsInv
  <2>13. SeenInv(w)'
    BY <1>1, <2>5, <2>7, WorkerFacts, SomeGenerations DEF SeenInv
  <2>14. QED
    BY <1>2, <2>11, <2>12, <2>13 DEF SerialStep, WorkerInv
<1>5. QED
  BY <1>3, <1>4

LEMMA MoveUserSerial ==
    ASSUME Serial, IInv, SerialInv, IInv', NEW w \in Workers, MoveUser(w)
    PROVE  SerialStep(w)
<1>1. /\ UNCHANGED <<table, nodeTable, world, floor>>
      /\ job[w].pc = "check" /\ job[w].kind = "move"
  BY DEF MoveUser, Checking
<1>2. /\ TableKept /\ FloorInv' /\ users' = users
      /\ Current' = Current /\ (Live' <=> Live)
  BY <1>1, SameTable
<1>3. PICK n \in nodes :
         Go(w, "create", MovedUser(job[w].user, n), {}, clock, 0)
  BY DEF MoveUser
<1>4. /\ job'[w].pc = "create" /\ job'[w].kind = "move"
      /\ job'[w].claims = job[w].claims /\ job'[w].seen = job[w].seen
      /\ job'[w].user = MovedUser(job[w].user, n) /\ job'[w].since = clock
  BY <1>1, <1>3, GoIs
<1>5. /\ job'[w].user.client_state = job[w].user.client_state
      /\ job'[w].user.generation = job[w].user.generation
      /\ job'[w].user.keys_changed_at = job[w].user.keys_changed_at
  BY <1>4, JobTypes DEF MovedUser, Users
<1>6. users # {} /\ \A r \in users : r.created_at <= clock
  BY <1>1, CheckingSerial DEF IInv, TableInv
<1>7. Live => /\ Matches(job[w].user, Current) /\ OnlyActive(Current)
              /\ job[w].user.generation < MAX_GENERATION
  BY <1>1, CheckingSerial DEF Live
<1>8. Live' => /\ Succeeds(job[w].user, job[w].claims, job[w].kind)'
               /\ OnlyActive(Current)'
  BY <1>2, <1>4, <1>5, <1>7, WorkerFacts DEF Succeeds, Matches, OnlyActive
<1>9. PlaceInv(w)'
  BY <1>2, <1>4, <1>6, <1>8 DEF PlaceInv
<1>10. ClaimsInv(w)'
  BY <1>4, WorkerFacts DEF ClaimsInv
<1>11. SeenInv(w)'
  BY <1>1, <1>4, <1>5, WorkerFacts DEF SeenInv
<1>12. QED
  BY <1>2, <1>9, <1>10, <1>11 DEF SerialStep, WorkerInv

LEMMA CreateReplacementSerial ==
    ASSUME Serial, IInv, SerialInv, IInv', NEW w \in Workers,
           CreateReplacement(w), TableStep
    PROVE  SerialStep(w)
<1>1. PICK now \in ReadSince(job[w].since) :
         /\ users' = CreateUserRecord(users, nextUid, job[w].user.node,
                                      job[w].user, now)
         /\ Go(w, "older", Inserted(job[w].user, nextUid), {}, 0, now)
  BY DEF CreateReplacement
<1>2. /\ job[w].pc = "create" /\ nextUid <= MaxUid /\ nextUid' = nextUid + 1
      /\ UNCHANGED <<nodeTable, world, floor>>
  BY DEF CreateReplacement
<1>3. users # {} /\ \A r \in users : r.created_at <= job[w].since
  BY <1>2, WorkerFacts DEF PlaceInv
<1>4. PICK new : /\ users' = users \cup {new} /\ new.uid = nextUid
                 /\ new.client_state = job[w].user.client_state
                 /\ new.generation = job[w].user.generation
                 /\ new.keys_changed_at = job[w].user.keys_changed_at
                 /\ new.created_at = now /\ new.replaced_at = NULL
  <2> DEFINE new == [uid |-> nextUid, nodeid |-> job[w].user.node,
                     client_state |-> job[w].user.client_state,
                     generation |-> job[w].user.generation,
                     keys_changed_at |-> job[w].user.keys_changed_at,
                     created_at |-> now, replaced_at |-> NULL]
  <2>1. users' = users \cup {new}
    BY <1>1 DEF CreateUserRecord
  <2>2. /\ new.uid = nextUid
        /\ new.client_state = job[w].user.client_state
        /\ new.generation = job[w].user.generation
        /\ new.keys_changed_at = job[w].user.keys_changed_at
        /\ new.created_at = now /\ new.replaced_at = NULL
    OBVIOUS
  <2> HIDE DEF new
  <2>3. QED
    BY <2>1, <2>2
<1>5. nextUid \in Nat /\ nextUid <= MaxUid + 1 /\ nextUid' <= MaxUid + 1
  BY <1>2, BoundsAssumption DEF IInv, TypeOK
<1>6. Ordered(users) /\ Ordered(users')
  BY <1>5, OrderedNow, OrderedNext
<1>7. users' # {} /\ (Deleted => Deleted')
  BY <1>3, DeletedStays
<1>8. /\ job'[w].pc = "older" /\ job'[w].kind = job[w].kind
      /\ job'[w].claims = job[w].claims /\ job'[w].seen = job[w].seen
      /\ job'[w].user = Inserted(job[w].user, nextUid)
      /\ job'[w].stamp = now
  BY <1>1, GoIs
<1>9. /\ job'[w].user.uid = nextUid
      /\ job'[w].user.client_state = job[w].user.client_state
      /\ job'[w].user.generation = job[w].user.generation
      /\ job'[w].user.keys_changed_at = job[w].user.keys_changed_at
  BY <1>8, JobTypes DEF Inserted, Users
<1>10. ClaimsInv(w)'
  BY <1>2, <1>8, WorkerFacts DEF ClaimsInv
<1>11. SeenInv(w)'
  BY <1>2, <1>8, <1>9, WorkerFacts DEF SeenInv
<1>12. floor.generation >= MAX_GENERATION <=> Deleted
  BY DEF SerialInv, FloorInv
<1>13. CASE Deleted
  <2>1. TableKept
    BY <1>2, <1>3, <1>5, <1>7, <1>13
       DEF TableKept, CurrentMoves, CurrentInv, SerialInv, nodeTable, Live
  <2>2. FloorInv'
    BY <1>2, <1>7, <1>12, <1>13 DEF FloorInv, Live
  <2>3. PlaceInv(w)'
    BY <1>7, <1>8, <1>13 DEF PlaceInv, Live
  <2>4. QED
    BY <1>10, <1>11, <2>1, <2>2, <2>3 DEF SerialStep, WorkerInv
<1>14. CASE ~Deleted
  <2>1. /\ Live /\ Active(Current)
        /\ Succeeds(job[w].user, job[w].claims, job[w].kind)
    BY <1>2, <1>3, <1>14, WorkerFacts DEF PlaceInv, SerialInv, CurrentInv, Live
  <2>2. /\ Current \in users
        /\ Current.generation \in Nat /\ Current.keys_changed_at \in Nat
    BY <1>3, CurrentFacts DEF SerialInv
  <2>3. /\ new \notin users /\ Current.created_at \in Nat
        /\ Current.uid \in Nat /\ Current.uid < nextUid
    BY <1>4, <1>5, <2>2 DEF IInv, TypeOK, TableInv, Rows
  <2>4. Current' = IF Outranks(new, Current) THEN new ELSE Current
    BY <1>3, <1>4, <1>6, <2>3, InsertMovesCurrent DEF Current
  <2>5. ~Deleted' /\ Live' /\ Active(Current')
    BY <1>4, <1>7, <1>14, <2>1, <2>4, WorkerFacts, SomeGenerations
       DEF Deleted, Live, Retired, Succeeds, Active
  <2>6. /\ Current'.generation >= Current.generation
        /\ Current'.keys_changed_at >= Current.keys_changed_at
        /\ \/ Current'.client_state = Current.client_state
           \/ /\ Current'.client_state # NoState
              /\ \/ Current'.generation > Current.generation
                 \/ Current'.keys_changed_at > Current.keys_changed_at
        /\ Current'.generation \in Nat /\ Current'.keys_changed_at \in Nat
    BY <1>4, <2>1, <2>2, <2>4, WorkerFacts DEF Succeeds
  <2>7. TableKept
    BY <1>2, <1>5, <2>1, <2>5, <2>6
       DEF TableKept, CurrentMoves, CurrentInv, SerialInv, nodeTable
  <2>8. FloorInv'
    BY <1>2, <1>7, <1>12, <1>14, <2>1, <2>2, <2>5, <2>6, FloorNaturals
       DEF FloorInv, SerialInv
  <2>9. now \in Nat /\ now >= job[w].since - ClockSkew
    BY <1>1, <1>2, BoundsAssumption, JobTypes
       DEF ReadSince, IInv, TypeOK, JobInv
  <2>10. now <= Current'.created_at
    BY <1>4, <2>1, <2>2, <2>3, <2>4, <2>9, WorkerFacts
       DEF Outranks, FetchedBefore, Succeeds
  <2>11. ASSUME Comparable, job[w].kind = "token"
         PROVE  Current' = new
    <3>1. CASE job[w].claims.generation > 0
      BY <1>4, <2>1, <2>4, <2>11, <3>1 DEF Succeeds, Outranks
    <3>2. CASE ~(job[w].claims.generation > 0)
      <4>1. ClockSkew = 0
        BY <1>2, <2>11, <3>2, WorkerFacts DEF ClaimsInv, Comparable
      <4>2. now >= Current.created_at
        BY <1>3, <2>2, <2>3, <2>9, <4>1, JobTypes
      <4>3. Outranks(new, Current)
        BY <1>4, <1>5, <2>1, <2>2, <2>3, <2>9, <4>2, WorkerFacts
           DEF Outranks, FetchedBefore, Succeeds
      <4>4. QED
        BY <2>4, <4>3
    <3>3. QED
      BY <3>1, <3>2
  <2>12. Comparable /\ job[w].kind = "token" =>
            Matches(job[w].user, Current)'
    BY <1>4, <1>9, <2>11 DEF Matches
  <2>13. PlaceInv(w)'
    BY <1>7, <1>8, <1>9, <2>1, <2>10, <2>12 DEF PlaceInv, Succeeds
  <2>14. QED
    BY <1>10, <1>11, <2>7, <2>8, <2>13 DEF SerialStep, WorkerInv
<1>15. QED
  BY <1>13, <1>14

(* Older rows are marked.                                                  *)
LEMMA MarkedOlder ==
    ASSUME Serial, IInv, SerialInv, IInv', NEW w \in Workers,
           job[w].pc = "older", users' = ReplaceUserRecords(users, job[w].stamp),
           UNCHANGED <<nextUid, nodeTable, world>>, TableStep
    PROVE  /\ TableKept /\ users' # {} /\ (Deleted' <=> Deleted)
           /\ (Live' <=> Live) /\ (Live => Current' = Current)
<1>1. users # {} /\ nextUid <= MaxUid + 1
  BY DEF IInv, JobInv, NamesRow, SerialInv, CurrentInv
<1>2. Ordered(users) /\ Ordered(users')
  BY <1>1, OrderedNow, OrderedNext
<1>3. users' # {} /\ (Deleted => Deleted')
  BY <1>1, DeletedStays
<1>4. \A s \in users' : \E r \in users : s.generation = r.generation
  BY <1>2 DEF ReplaceUserRecords, Ordered, Rows
<1>5. (Deleted' <=> Deleted) /\ (Live' <=> Live)
  BY <1>1, <1>3, <1>4 DEF Deleted, Live, Retired
<1>6. Live => Current' = Current
  <2>1. Live => job[w].stamp <= Current.created_at
    BY WorkerFacts DEF PlaceInv
  <2>2. job[w].stamp \in Nat
    BY JobTypes
  <2>3. QED
    BY <1>1, <1>2, <2>1, <2>2, ReplaceKeepsCurrent DEF Current
<1>7. Live => /\ Current.generation \in Nat /\ Current.keys_changed_at \in Nat
              /\ Active(Current)
  BY CurrentFacts DEF SerialInv, CurrentInv, Live
<1>8. TableKept
  BY <1>1, <1>5, <1>6, <1>7
     DEF TableKept, CurrentMoves, CurrentInv, SerialInv, nodeTable
<1>9. QED
  BY <1>3, <1>5, <1>6, <1>8

LEMMA ReplaceOlderSerial ==
    ASSUME Serial, IInv, SerialInv, IInv', NEW w \in Workers,
           ReplaceOlder(w), TableStep
    PROVE  SerialStep(w)
<1>1. /\ job[w].pc = "older" /\ job[w].kind = "token"
      /\ users' = ReplaceUserRecords(users, job[w].stamp)
      /\ Answer(w, job[w].user)
      /\ UNCHANGED <<nextUid, nodeTable, world>>
  BY DEF ReplaceOlder
<1>2. /\ TableKept /\ users' # {} /\ (Deleted' <=> Deleted)
      /\ (Live' <=> Live) /\ (Live => Current' = Current)
  BY <1>1, MarkedOlder
<1>3. users # {} /\ (~Deleted => Live)
  BY <1>1 DEF IInv, JobInv, NamesRow, Live
<1>4. job[w].user.generation >= MAX_GENERATION => Deleted'
  BY <1>1, <1>2, <1>3, WorkerFacts, SomeGenerations DEF PlaceInv
<1>5. Comparable /\ Live' =>
         /\ floor.generation <= Current'.generation
         /\ floor.keys_changed_at <= Current'.keys_changed_at
         /\ job[w].user.generation <= Current'.generation
         /\ job[w].user.keys_changed_at <= Current'.keys_changed_at
  BY <1>1, <1>2, WorkerFacts DEF PlaceInv, SerialInv, FloorInv, Matches
<1>6. /\ job[w].user.generation >= job[w].user.generation
      /\ job[w].user.keys_changed_at >= job[w].user.keys_changed_at
      /\ job[w].user \in Users
  BY WorkerFacts, JobTypes
<1>7. QED
  BY <1>1, <1>2, <1>4, <1>5, <1>6, AnswerSerial

LEMMA FinishMoveSerial ==
    ASSUME Serial, IInv, SerialInv, IInv', NEW w \in Workers,
           FinishMove(w), TableStep
    PROVE  SerialStep(w)
<1>1. /\ job[w].pc = "older" /\ End(w, "idle") /\ floor' = floor
      /\ users' = ReplaceUserRecords(users, job[w].stamp)
      /\ UNCHANGED <<nextUid, nodeTable, world>>
  BY DEF FinishMove
<1>2. /\ TableKept /\ users' # {} /\ (Deleted' <=> Deleted)
      /\ (Live' <=> Live) /\ (Live => Current' = Current)
  BY <1>1, MarkedOlder
<1>3. FloorInv'
  BY <1>1, <1>2 DEF SerialInv, FloorInv
<1>4. QED
  BY <1>1, <1>2, <1>3, EndKeeps DEF SerialStep

(* A step of a worker.                                                     *)
LEMMA StepSerial ==
    ASSUME Serial, IInv, SerialInv, IInv', NEW w \in Workers, Step(w)
    PROVE  SerialStep(w)
<1>1. TableStep
  BY WorkerStep DEF GoodStep
<1>2. QED
  BY <1>1, ReceiveSerial, SelectRecordsSerial, SelectNothingSerial,
     BestNodeSerial, InsertAllocatedSerial, MarkOldSerial, QuitSerial,
     NoUpdateSerial, UpdateInPlaceSerial, BumpGenerationSerial,
     LookupNodeSerial, CreateReplacementSerial, ReplaceOlderSerial,
     MoveUserSerial, FinishMoveSerial DEF Step

-----------------------------------------------------------------------------
(* The environment's steps, and the invariant.                             *)

(* Time passes, and nothing happens to a worker.                           *)
LEMMA PlaceKept ==
    ASSUME IInv, IInv', NEW w \in Workers, PlaceInv(w), job' = job,
           users' = users, nextUid' = nextUid, clock' >= clock,
           Current' = Current, Live' <=> Live
    PROVE  PlaceInv(w)'
<1>1. \A s \in job[w].stale : s.created_at <= clock => s.created_at <= clock'
  BY JobTypes DEF Rows, IInv, TypeOK
<1>2. /\ Matches(job[w].user, Current)' <=> Matches(job[w].user, Current)
      /\ OnlyActive(Current)' <=> OnlyActive(Current)
      /\ Succeeds(job[w].user, job[w].claims, job[w].kind)' <=>
            Succeeds(job[w].user, job[w].claims, job[w].kind)
  BY DEF Matches, OnlyActive, Succeeds
<1>3. QED
  BY <1>1, <1>2 DEF PlaceInv

LEMMA EnvironmentSerial ==
    ASSUME Serial, IInv, SerialInv, IInv', Environment
    PROVE  TableKept /\ SerialInv'
<1>1. TableStep /\ job' = job /\ clock' >= clock /\ clock' \in Nat
  BY EnvironmentStep DEF GoodEnvironmentStep
<1>2. CASE Tick \/ ChangeAccount
  <2>1. UNCHANGED <<table, nodeTable>> /\ floor' = floor
    BY <1>2 DEF Tick, ChangeAccount
  <2>2. /\ TableKept /\ FloorInv' /\ users' = users /\ nextUid' = nextUid
        /\ Current' = Current /\ (Live' <=> Live)
    BY <2>1, SameTable
  <2>3. ASSUME NEW w \in Workers
        PROVE  WorkerInv(w)'
    <3>1. PlaceInv(w)'
      BY <1>1, <2>2, PlaceKept, WorkerFacts
    <3>2. ClaimsInv(w)' /\ SeenInv(w)'
      BY <1>1, <2>1, WorkerFacts DEF ClaimsInv, SeenInv
    <3>3. QED
      BY <3>1, <3>2 DEF WorkerInv
  <2>4. QED
    BY <2>2, <2>3 DEF SerialInv, TableKept
<1>3. CASE RetireUser
  <2>1. /\ "delete" \in Operations /\ users # {}
        /\ floor' = [floor EXCEPT !.generation = MAX_GENERATION]
        /\ UNCHANGED <<nextUid, nodeTable, world, job>>
    BY <1>3 DEF RetireUser
  <2>2. PICK now \in Int : users' = RetireUserRecords(users, now)
    BY <1>3, BoundsAssumption DEF RetireUser, ReadSince, IInv, TypeOK
  <2>3. users' # {} /\ (Deleted => Deleted')
    BY <1>1, <2>1, DeletedStays
  <2>4. Deleted'
    <3>1. CASE Deleted
      BY <2>3, <3>1
    <3>2. CASE ~Deleted
      <4>1. Current \in users /\ Active(Current) /\ Current \in Rows
        BY <2>1, <3>2, CurrentFacts DEF SerialInv, CurrentInv, Live
      <4>2. PICK s : s = [Current EXCEPT !.replaced_at = now,
                                         !.generation = MAX_GENERATION]
        OBVIOUS
      <4>3. s \in users'
        BY <2>2, <4>1, <4>2 DEF RetireUserRecords
      <4>4. s.generation = MAX_GENERATION
        BY <4>1, <4>2 DEF Rows
      <4>5. QED
        BY <4>3, <4>4, SomeGenerations DEF Deleted, Retired
    <3>3. QED
      BY <3>1, <3>2
  <2>5. ~Live'
    BY <2>4 DEF Live
  <2>6. TableKept
    BY <2>1, <2>4, <2>5
       DEF TableKept, CurrentMoves, CurrentInv, SerialInv, nodeTable
  <2>7. FloorInv'
    <3>1. floor'.generation = MAX_GENERATION
      BY <2>1 DEF IInv, TypeOK
    <3>2. QED
      BY <2>3, <2>4, <2>5, <3>1, SomeGenerations DEF FloorInv
  <2>8. ASSUME NEW w \in Workers
        PROVE  WorkerInv(w)'
    <3>1. \A s \in users' : \E r \in users : s.created_at = r.created_at
      BY <1>1, <2>1, <2>2 DEF RetireUserRecords, IInv, TypeOK, Rows
    <3>2. PlaceInv(w)'
      BY <2>1, <2>3, <2>5, <3>1, WorkerFacts DEF PlaceInv, world
    <3>3. ClaimsInv(w)'
      BY <2>1, WorkerFacts DEF ClaimsInv
    <3>4. /\ floor'.keys_changed_at = floor.keys_changed_at
          /\ floor'.generation >= floor.generation /\ floor'.generation \in Nat
      BY <2>1, MaxGenerationAssumption DEF IInv, TypeOK, Generations
    <3>5. SeenInv(w)'
      BY <2>1, <3>4, WorkerFacts, FloorNaturals DEF SeenInv
    <3>6. QED
      BY <3>2, <3>3, <3>5 DEF WorkerInv
  <2>9. QED
    BY <2>6, <2>7, <2>8 DEF SerialInv, TableKept
<1>4. ~\E n \in NodeIds : UnassignNode(n) \/ DeleteNode(n) \/ UnassignRemoved(n)
  <2>1. removing = {}
    BY DEF SerialInv, CurrentInv
  <2>2. QED
    BY <2>1 DEF Serial, NoneReassigned, UnassignNode, DeleteNode, UnassignRemoved
<1>5. QED
  BY <1>2, <1>3, <1>4 DEF Environment

LEMMA SerialInit ==
    ASSUME Serial, Init
    PROVE  SerialInv
<1>1. /\ users = {} /\ nextUid = 1 /\ nodes = NodeIds /\ removing = {}
      /\ floor.generation = 0 /\ floor.keys_changed_at = 0
      /\ job = [w \in Workers |-> Ended("idle")]
  BY DEF Init
<1>2. ~Deleted /\ ~Live
  BY <1>1 DEF Deleted, Live
<1>3. CurrentInv /\ FloorInv
  BY <1>1, <1>2, SomeGenerations, BoundsAssumption DEF CurrentInv, FloorInv
<1>4. ASSUME NEW w \in Workers
      PROVE  WorkerInv(w)
  <2>1. /\ job[w].pc = "idle" /\ job[w].claims.generation = 0
        /\ job[w].claims.keys_changed_at = 0
        /\ job[w].seen.generation = 0 /\ job[w].seen.keys_changed_at = 0
    BY <1>1 DEF Ended, NoClaims
  <2>2. QED
    BY <1>1, <2>1, SomeGenerations
       DEF WorkerInv, PlaceInv, ClaimsInv, SeenInv
<1>5. QED
  BY <1>3, <1>4 DEF SerialInv

LEMMA SerialNext ==
    ASSUME Serial, IInv, SerialInv, IInv', [Next]_vars
    PROVE  TableKept /\ SerialInv'
<1>1. CASE Environment
  BY <1>1, EnvironmentSerial
<1>2. ASSUME NEW w \in Workers, Step(w)
      PROVE  TableKept /\ SerialInv'
  <2>1. SerialStep(w)
    BY <1>2, StepSerial
  <2>2. \A v \in Workers : v = w
    BY DEF Serial, OneAtATime
  <2>3. QED
    BY <2>1, <2>2 DEF SerialStep, SerialInv, TableKept
<1>3. CASE UNCHANGED vars
  <2>1. UNCHANGED <<table, nodeTable, world, job, floor>>
    BY <1>3 DEF vars
  <2>2. /\ TableKept /\ FloorInv' /\ users' = users /\ nextUid' = nextUid
        /\ Current' = Current /\ (Live' <=> Live)
    BY <2>1, SameTable
  <2>3. ASSUME NEW w \in Workers
        PROVE  WorkerInv(w)'
    <3>1. PlaceInv(w)'
      <4>1. clock' >= clock
        BY <2>1 DEF world, IInv, TypeOK
      <4>2. QED
        BY <2>1, <2>2, <4>1, PlaceKept, WorkerFacts
    <3>2. ClaimsInv(w)' /\ SeenInv(w)'
      BY <2>1, WorkerFacts DEF ClaimsInv, SeenInv
    <3>3. QED
      BY <3>1, <3>2 DEF WorkerInv
  <2>4. QED
    BY <2>2, <2>3 DEF SerialInv, TableKept
<1>4. QED
  BY <1>1, <1>2, <1>3 DEF Next

LEMMA SerialInvariance ==
    ASSUME Serial
    PROVE  Spec => [](IInv /\ SerialInv)
<1>1. Init => IInv /\ SerialInv
  BY InitInv, SerialInit
<1>2. IInv /\ SerialInv /\ [Next]_vars => (IInv /\ SerialInv)'
  BY NextInv, SerialNext
<1>3. QED
  BY <1>1, <1>2, PTL DEF Spec

-----------------------------------------------------------------------------
(* What follows for the account.                                           *)

(* Once the account was deleted nobody who reports a generation gets a     *)
(* token, as long as operators do not reassign nodes: the tombstone is the *)
(* current row for good, whatever crashes leave half done.                 *)
THEOREM DeletedAccountsStayOut ==
    ASSUME Serial
    PROVE  Spec => []RetiredStaysLockedOut
<1>1. ASSUME IInv, SerialInv
      PROVE  RetiredStaysLockedOut
  <2> SUFFICES ASSUME NEW w \in Workers, job[w].pc = "granted",
                      job[w].claims.generation > 0,
                      job[w].seen.generation >= MAX_GENERATION
               PROVE  FALSE
    BY <1>1, WorkerFacts, SomeGenerations DEF RetiredStaysLockedOut
  <2>1. /\ job[w].user.generation >= MAX_GENERATION
        /\ job[w].claims.generation < MAX_GENERATION
        /\ ~Behind(job[w].user, job[w].claims)
    BY <1>1, WorkerFacts DEF SeenInv, ClaimsInv
  <2>2. QED
    BY <1>1, <2>1, WorkerFacts, SomeGenerations DEF Behind
<1>2. QED
  BY <1>1, SerialInvariance, PTL

(* The current row of an account in use is active, and its node exists: no *)
(* user is moved to another node unasked.                                  *)
THEOREM NobodyIsMovedUnasked ==
    ASSUME Serial
    PROVE  Spec => []NoSpuriousReassignment
<1>1. ASSUME IInv, SerialInv
      PROVE  NoSpuriousReassignment
  <2> SUFFICES ASSUME users # {}
               PROVE  ~NeedsNode(Current)
    BY DEF NoSpuriousReassignment, Current
  <2>1. QED
    BY <1>1, CurrentNeedsNoNode
<1>2. QED
  BY <1>1, SerialInvariance, PTL

(* What a request was given is not behind what had been accepted.          *)
LEMMA NoneStale ==
    ASSUME Serial, Comparable, IInv, SerialInv
    PROVE  NoStaleToken
<1> SUFFICES ASSUME NEW w \in Workers, job[w].pc = "granted"
             PROVE  /\ \/ job[w].claims.generation = 0
                       \/ job[w].claims.generation >= job[w].seen.generation
                    /\ job[w].claims.keys_changed_at >=
                          job[w].seen.keys_changed_at
  BY DEF NoStaleToken
<1>1. /\ ~Behind(job[w].user, job[w].claims) /\ job[w].kind = "token"
      /\ job[w].claims.generation < MAX_GENERATION
      /\ job[w].claims.generation > 0 \/ "oauth" \in Clients
  BY WorkerFacts DEF ClaimsInv
<1>2. /\ job[w].user.generation >= job[w].seen.generation
      /\ \/ job[w].user.keys_changed_at >= job[w].seen.keys_changed_at
         \/ /\ job[w].user.generation >= MAX_GENERATION
            /\ "delete" \in Operations
  BY WorkerFacts DEF SeenInv
<1>3. job[w].user.keys_changed_at >= job[w].seen.keys_changed_at
  BY <1>1, <1>2, WorkerFacts, SomeGenerations DEF Behind, Comparable
<1>4. QED
  BY <1>1, <1>2, <1>3, WorkerFacts DEF Behind

(* No token is issued for claims behind those accepted before its request  *)
(* arrived, when claims can be compared at all.                            *)
THEOREM NoTokenIsStale ==
    ASSUME Serial, Comparable
    PROVE  Spec => []NoStaleToken
<1>1. IInv /\ SerialInv => NoStaleToken
  BY NoneStale
<1>2. QED
  BY <1>1, SerialInvariance, PTL

-----------------------------------------------------------------------------
(* The row in use implements the account's mark.                           *)

MarkShows ==
    /\ users = {} => Mark = A!NoMark
    /\ Deleted => Mark = A!Tombstone
    /\ Live => /\ Mark \in A!InUse
               /\ Mark.generation = Current.generation
               /\ Mark.keys_changed_at = Current.keys_changed_at
               /\ Mark.client_state = Current.client_state

LEMMA MarkIs ==
    ASSUME Serial, IInv, SerialInv
    PROVE  MarkShows
<1>1. users = {} => Mark = A!NoMark
  BY DEF Mark, M!NoMark, A!NoMark
<1>2. Deleted => Mark = A!Tombstone
  <2> SUFFICES ASSUME Deleted PROVE Mark = A!Tombstone
    OBVIOUS
  <2>1. users # {}
    BY DEF Deleted
  <2>2. Retired(Current)
    BY <2>1, CurrentFacts DEF SerialInv
  <2>3. QED
    BY <2>1, <2>2 DEF Mark, MarkOf, Current, M!Tombstone, A!Tombstone
<1>3. Live => /\ Mark \in A!InUse
              /\ Mark.generation = Current.generation
              /\ Mark.keys_changed_at = Current.keys_changed_at
              /\ Mark.client_state = Current.client_state
  <2> SUFFICES ASSUME Live
               PROVE  /\ Mark \in A!InUse
                      /\ Mark.generation = Current.generation
                      /\ Mark.keys_changed_at = Current.keys_changed_at
                      /\ Mark.client_state = Current.client_state
    OBVIOUS
  <2>1. /\ users # {} /\ Current \in Rows /\ Current \in users /\ ~Deleted
        /\ Current.generation < MAX_GENERATION
    BY CurrentFacts DEF SerialInv, Live
  <2>2. Mark = [generation |-> Current.generation,
                keys_changed_at |-> Current.keys_changed_at,
                client_state |-> Current.client_state]
    BY <2>1 DEF Mark, MarkOf, Current, Deleted
  <2>3. Mark \in A!InUse
    BY <2>1, <2>2, SomeGenerations DEF A!InUse, Rows, Generations, States
  <2>4. QED
    BY <2>2, <2>3
<1>4. QED
  BY <1>1, <1>2, <1>3 DEF MarkShows

LEMMA MarkIsNext ==
    ASSUME Serial
    PROVE  (IInv /\ SerialInv)' => MarkShows'
<1>1. IInv /\ SerialInv => MarkShows
  BY MarkIs
<1>2. QED
  BY <1>1, PTL

LEMMA MarkMoves ==
    ASSUME Serial, IInv, SerialInv, IInv', SerialInv', TableKept, TableStep
    PROVE  [A!Next]_Mark
<1>1. /\ Deleted => Deleted'
      /\ users # {} => users' # {}
      /\ users = {} => ~Deleted'
  BY DeletedStays DEF TableKept
<1>2. MarkShows /\ MarkShows'
  BY MarkIs, MarkIsNext
<1>3. CASE Mark' = Mark
  BY <1>3
<1>4. CASE Mark' # Mark
  <2>1. A!Moved(Mark, Mark')
    <3>1. CASE users = {}
      <4>1. users' # {} /\ Live'
        BY <1>1, <1>2, <1>4, <3>1 DEF Live, MarkShows
      <4>2. A!Created(Mark, Mark')
        BY <1>2, <3>1, <4>1 DEF A!Created, MarkShows
      <4>3. QED
        BY <1>4, <4>2 DEF A!Moved
    <3>2. CASE users # {} /\ Deleted'
      <4>1. Mark # A!NoMark
        <5>1. CASE Deleted
          BY <1>2, <5>1, SomeGenerations DEF A!Tombstone, A!NoMark, MarkShows
        <5>2. CASE ~Deleted
          BY <1>2, <3>2, <5>2 DEF Live, A!InUse, A!NoMark, MarkShows
        <5>3. QED
          BY <5>1, <5>2
      <4>2. A!Retired(Mark, Mark')
        BY <1>2, <3>2, <4>1 DEF A!Retired, MarkShows
      <4>3. QED
        BY <1>4, <4>2 DEF A!Moved
    <3>3. CASE users # {} /\ ~Deleted'
      <4>1. Live /\ Live'
        BY <1>1, <3>3 DEF Live
      <4>2. /\ Current'.generation >= Current.generation
            /\ Current'.keys_changed_at >= Current.keys_changed_at
            /\ \/ Current'.client_state = Current.client_state
               \/ /\ Current'.client_state # NoState
                  /\ \/ Current'.generation > Current.generation
                     \/ Current'.keys_changed_at > Current.keys_changed_at
        BY <3>3, <4>1 DEF TableKept, CurrentMoves
      <4>3. A!NotBehind(Mark, Mark')
        BY <1>2, <4>1, <4>2 DEF A!NotBehind, MarkShows
      <4>4. A!Advanced(Mark, Mark') \/ A!Replaced(Mark, Mark')
        BY <1>2, <4>1, <4>2, <4>3 DEF A!Advanced, A!Replaced, MarkShows
      <4>5. QED
        BY <1>4, <4>4 DEF A!Moved
    <3>4. QED
      BY <3>1, <3>2, <3>3
  <2>2. QED
    BY <2>1 DEF A!Next
<1>5. QED
  BY <1>3, <1>4

LEMMA SteppedTable ==
    ASSUME IInv, [Next]_vars
    PROVE  TableStep
<1>1. CASE Environment
  BY <1>1, EnvironmentStep DEF GoodEnvironmentStep
<1>2. ASSUME NEW w \in Workers, Step(w)
      PROVE  TableStep
  BY <1>2, WorkerStep DEF GoodStep
<1>3. CASE UNCHANGED vars
  BY <1>3 DEF vars, TableStep
<1>4. QED
  BY <1>1, <1>2, <1>3 DEF Next

(* Statement by statement, with crashes in between, the rows implement the *)
(* account's high-water mark: no step leaves the row in use with an older  *)
(* timestamp, with a new client state and no newer timestamp, or back in   *)
(* use after a deletion.                                                   *)
THEOREM RowsImplementAccount ==
    ASSUME Serial
    PROVE  Spec => ImplementsAccount
<1>1. Init => A!Init
  BY DEF Init, A!Init, Mark, M!NoMark, A!NoMark
<1>2. ASSUME IInv /\ SerialInv, [Next]_vars, (IInv /\ SerialInv)'
      PROVE  [users' # users => [A!Next]_Mark]_users
  <2>1. TableKept /\ TableStep
    BY <1>2, SerialNext, SteppedTable
  <2>2. QED
    BY <1>2, <2>1, MarkMoves
<1>3. QED
  BY <1>1, <1>2, SerialInvariance, PTL DEF Spec, ImplementsAccount

-----------------------------------------------------------------------------
(* What the rows say of the account's versions, when FxA keeps its         *)
(* promises and every client reports when the keys were changed.           *)

(* Timestamps do not go back, and keys, their fingerprint and both         *)
(* timestamps change together.                                             *)
VersionsAdvance ==
    \A u, v \in 1 .. Len(Versions) : u < v =>
        /\ Versions[u].generation <= Versions[v].generation
        /\ \/ /\ Versions[u].client_state = Versions[v].client_state
              /\ Versions[u].keys_changed_at = Versions[v].keys_changed_at
           \/ /\ Versions[u].client_state # Versions[v].client_state
              /\ Versions[u].keys_changed_at < Versions[v].keys_changed_at
              /\ Versions[u].generation < Versions[v].generation

(* Every client reports when the keys were changed.                        *)
KeysReported == Clients \subseteq {"full", "oauth"}

Newest == Versions[account]

(* The keys of a row or a user dict: those of a version, or none.          *)
KeysFrom(x) ==
    \/ /\ "allocate" \in Operations
       /\ x.client_state = NoState /\ x.keys_changed_at = 0
    \/ \E v \in 1 .. account :
          /\ x.client_state = Versions[v].client_state
          /\ x.keys_changed_at = Versions[v].keys_changed_at

(* Its generation: the newest one only with the newest keys.               *)
GenerationFrom(x) ==
    \/ x.generation < Newest.generation
    \/ /\ x.generation = Newest.generation
       /\ x.client_state = Newest.client_state

From(x) == KeysFrom(x) /\ GenerationFrom(x)

RowsInv ==
    Live => \A r \in users :
        /\ From(r)
        /\ Comparable => r.keys_changed_at <= Current.keys_changed_at

RequestInv(w) ==
    /\ job[w].kind \in {"move", "place"} => "allocate" \in Operations
    /\ job[w].pc \notin {"idle", "error"} /\ job[w].kind = "token" =>
          \E v \in 1 .. account :
             /\ job[w].claims.client_state = Versions[v].client_state
             /\ job[w].claims.keys_changed_at = Versions[v].keys_changed_at
             /\ job[w].claims.generation \in {0, Versions[v].generation}
    /\ job[w].pc \notin {"idle", "error"} /\ job[w].kind = "event" =>
          job[w].claims.generation < Newest.generation
    /\ job[w].pc \in {"allocate", "insert"} => From(job[w].user)
    /\ job[w].pc = "create" /\ Live =>
          /\ From(job[w].user)
          /\ job[w].kind # "token" =>
                job[w].user.keys_changed_at = Current.keys_changed_at

VersionsInv == RowsInv /\ \A w \in Workers : RequestInv(w)

VersionsStep(w) == RowsInv' /\ RequestInv(w)'

LEMMA VersionFacts ==
    ASSUME NEW v \in 1 .. Len(Versions)
    PROVE  /\ Versions[v].generation \in Nat
           /\ Versions[v].keys_changed_at \in Nat
           /\ 0 < Versions[v].keys_changed_at
           /\ Versions[v].keys_changed_at <= Versions[v].generation
           /\ Versions[v].client_state # NoState
<1>1. Versions[v] \in VersionSet
  BY VersionsAssumption
<1>2. QED
  BY <1>1, VersionsAssumption, NoStateAssumption, SomeGenerations
     DEF VersionSet

(* No version so far is newer than the account's.                          *)
LEMMA NewestFacts ==
    ASSUME VersionsAdvance, IInv
    PROVE  /\ account \in 1 .. Len(Versions)
           /\ Newest.generation \in Nat /\ Newest.keys_changed_at \in Nat
           /\ Newest.keys_changed_at <= Newest.generation
           /\ 0 < Newest.generation
           /\ \A v \in 1 .. account :
                 /\ v \in 1 .. Len(Versions)
                 /\ Versions[v].generation <= Newest.generation
                 /\ Versions[v].keys_changed_at <= Newest.keys_changed_at
                 /\ \/ Versions[v].client_state = Newest.client_state
                    \/ /\ Versions[v].generation < Newest.generation
                       /\ Versions[v].keys_changed_at < Newest.keys_changed_at
<1>1. account \in 1 .. Len(Versions) /\ Len(Versions) \in Nat
  BY VersionsAssumption DEF IInv, TypeOK
<1>2. /\ Newest.generation \in Nat /\ Newest.keys_changed_at \in Nat
      /\ Newest.keys_changed_at <= Newest.generation /\ 0 < Newest.generation
  BY <1>1, VersionFacts DEF Newest
<1>3. ASSUME NEW v \in 1 .. account
      PROVE  /\ v \in 1 .. Len(Versions)
             /\ Versions[v].generation <= Newest.generation
             /\ Versions[v].keys_changed_at <= Newest.keys_changed_at
             /\ \/ Versions[v].client_state = Newest.client_state
                \/ /\ Versions[v].generation < Newest.generation
                   /\ Versions[v].keys_changed_at < Newest.keys_changed_at
  <2>1. v \in 1 .. Len(Versions)
    BY <1>1
  <2>2. CASE v = account
    BY <1>2, <2>1, <2>2 DEF Newest
  <2>3. CASE v # account
    BY <1>1, <1>2, <2>1, <2>3, VersionFacts DEF VersionsAdvance, Newest
  <2>4. QED
    BY <2>1, <2>2, <2>3
<1>4. QED
  BY <1>1, <1>2, <1>3

(* One client state has one time at which its keys were changed, and a     *)
(* later one has a later time.                                             *)
LEMMA VersionsAgree ==
    ASSUME VersionsAdvance, NEW u \in 1 .. Len(Versions),
           NEW v \in 1 .. Len(Versions)
    PROVE  Versions[u].client_state = Versions[v].client_state <=>
           Versions[u].keys_changed_at = Versions[v].keys_changed_at
<1>1. u \in Int /\ v \in Int
  BY VersionsAssumption
<1>2. QED
  BY <1>1, VersionFacts DEF VersionsAdvance

LEMMA KeysFromVersion ==
    ASSUME VersionsAdvance, IInv, NEW x, KeysFrom(x), NEW v \in 1 .. account
    PROVE  /\ x.client_state = Versions[v].client_state <=>
              x.keys_changed_at = Versions[v].keys_changed_at
           /\ x.keys_changed_at \in Nat
<1>1. \A u \in 1 .. account : u \in 1 .. Len(Versions)
  BY NewestFacts
<1>2. CASE x.client_state = NoState /\ x.keys_changed_at = 0
  BY <1>1, <1>2, VersionFacts
<1>3. CASE \E u \in 1 .. account :
              /\ x.client_state = Versions[u].client_state
              /\ x.keys_changed_at = Versions[u].keys_changed_at
  BY <1>1, <1>3, VersionFacts, VersionsAgree
<1>4. QED
  BY <1>2, <1>3 DEF KeysFrom

LEMMA KeysFromAgree ==
    ASSUME VersionsAdvance, IInv, NEW x, KeysFrom(x), NEW y, KeysFrom(y),
           x.client_state = y.client_state
    PROVE  x.keys_changed_at = y.keys_changed_at
<1>1. \A v \in 1 .. account : Versions[v].client_state # NoState
  BY NewestFacts, VersionFacts
<1>2. QED
  BY <1>1, KeysFromVersion DEF KeysFrom

(* What a version says is from a version, for good.                        *)
LEMMA ClaimedFrom ==
    ASSUME VersionsAdvance, IInv, NEW v \in 1 .. account, NEW x,
           x.client_state = Versions[v].client_state,
           x.keys_changed_at = Versions[v].keys_changed_at,
           x.generation \in {0, Versions[v].keys_changed_at,
                             Versions[v].generation}
    PROVE  From(x)
<1>1. KeysFrom(x)
  BY DEF KeysFrom
<1>2. GenerationFrom(x)
  <2>1. x.generation <= Versions[v].generation
    BY NewestFacts, VersionFacts
  <2>2. x.generation \in Nat
    BY NewestFacts, VersionFacts
  <2>3. QED
    BY <2>1, <2>2, NewestFacts, VersionFacts DEF GenerationFrom
<1>3. QED
  BY <1>1, <1>2 DEF From

LEMMA FromGrows ==
    ASSUME VersionsAdvance, IInv, IInv',
           account' = account \/ account' = account + 1
    PROVE  /\ \A x : x.generation \in Nat /\ From(x) => From(x)'
           /\ \A g \in Nat : g < Newest.generation => g < Newest'.generation
           /\ \A v \in 1 .. account : v \in 1 .. account'
<1>1. account \in 1 .. Len(Versions) /\ account' \in 1 .. Len(Versions)
  BY VersionsAssumption DEF IInv, TypeOK
<1>2. \A v \in 1 .. account : v \in 1 .. account'
  BY <1>1
<1>3. /\ Newest.generation \in Nat /\ Newest'.generation \in Nat
      /\ Newest.generation <= Newest'.generation
      /\ \/ Newest'.client_state = Newest.client_state
         \/ Newest.generation < Newest'.generation
  <2>1. CASE account' = account
    BY <1>1, <2>1, VersionFacts DEF Newest
  <2>2. CASE account' = account + 1
    <3>1. account < account'
      BY <1>1, <2>2
    <3>2. /\ Versions[account].generation <= Versions[account'].generation
          /\ \/ Versions[account].client_state = Versions[account'].client_state
             \/ Versions[account].generation < Versions[account'].generation
      BY <1>1, <3>1 DEF VersionsAdvance
    <3>3. QED
      BY <1>1, <3>2, VersionFacts DEF Newest
  <2>3. QED
    BY <2>1, <2>2
<1>4. ASSUME NEW x, x.generation \in Nat, From(x)
      PROVE  From(x)'
  BY <1>2, <1>3, <1>4 DEF From, KeysFrom, GenerationFrom
<1>5. QED
  BY <1>2, <1>3, <1>4

(* Provenance is kept while the account stays as it is.                    *)
LEMMA FromSame ==
    ASSUME account' = account
    PROVE  /\ \A x : From(x)' <=> From(x)
           /\ Newest' = Newest
BY DEF From, KeysFrom, GenerationFrom, Newest

LEMMA EndRequest ==
    ASSUME IInv, NEW w \in Workers, NEW pc \in {"idle", "error"}, End(w, pc)
    PROVE  RequestInv(w)'
<1>1. job'[w].pc = pc /\ job'[w].kind = "token"
  BY DEF End, Ended, IInv, TypeOK
<1>2. QED
  BY <1>1 DEF RequestInv

LEMMA GoRequest ==
    ASSUME IInv, NEW w \in Workers, RequestInv(w), account' = account,
           job[w].pc \notin {"idle", "error"},
           NEW pc \in PCs \ {"allocate", "insert", "create"},
           NEW user, NEW stale, NEW since, NEW stamp,
           Go(w, pc, user, stale, since, stamp)
    PROVE  RequestInv(w)'
<1>1. /\ job'[w].pc = pc /\ job'[w].kind = job[w].kind
      /\ job'[w].claims = job[w].claims
  BY GoIs
<1>2. Newest' = Newest
  BY FromSame
<1>3. QED
  BY <1>1, <1>2 DEF RequestInv

LEMMA AnswerRequest ==
    ASSUME IInv, NEW w \in Workers, RequestInv(w), account' = account,
           job[w].pc \notin {"idle", "error"}, NEW user, Answer(w, user)
    PROVE  RequestInv(w)'
BY EndRequest, GoRequest DEF Answer, PCs

(* The rows still say what they said.                                      *)
LEMMA RowsSay ==
    ASSUME Serial, IInv, SerialInv, RowsInv, IInv', SerialInv', TableKept,
           account' = account, users # {},
           \A s \in users' : \E r \in users :
              /\ s.client_state = r.client_state
              /\ s.generation = r.generation
              /\ s.keys_changed_at = r.keys_changed_at
    PROVE  RowsInv'
<1> SUFFICES ASSUME Live', NEW s \in users'
             PROVE  /\ From(s)
                    /\ Comparable =>
                          s.keys_changed_at <= Current'.keys_changed_at
  BY FromSame DEF RowsInv
<1>1. Live /\ Current'.keys_changed_at >= Current.keys_changed_at
  BY DEF TableKept, CurrentMoves
<1>2. PICK r \in users : /\ s.client_state = r.client_state
                         /\ s.generation = r.generation
                         /\ s.keys_changed_at = r.keys_changed_at
  OBVIOUS
<1>3. From(r) /\ (Comparable => r.keys_changed_at <= Current.keys_changed_at)
  BY <1>1 DEF RowsInv
<1>4. From(s)
  BY <1>2, <1>3 DEF From, KeysFrom, GenerationFrom
<1>5. /\ r.keys_changed_at \in Nat /\ Current.keys_changed_at \in Nat
      /\ Current'.keys_changed_at \in Nat
  <2>1. users \in SUBSET Rows /\ users' \in SUBSET Rows
    BY DEF IInv, TypeOK
  <2>2. Current' \in users'
    <3>1. nextUid' <= MaxUid + 1
      BY DEF SerialInv, CurrentInv
    <3>2. Ordered(users') /\ users' # {}
      BY <3>1, OrderedNext DEF Live
    <3>3. QED
      BY <3>2, Sight DEF Current
  <2>3. QED
    BY <2>1, <2>2, CurrentFacts, MaxGenerationAssumption
       DEF SerialInv, Rows, Generations
<1>6. QED
  BY <1>1, <1>2, <1>3, <1>4, <1>5

LEMMA RowsSayTheSame ==
    ASSUME IInv, RowsInv, account' = account,
           users' = users, Current' = Current, Live' <=> Live
    PROVE  RowsInv'
BY FromSame DEF RowsInv

LEMMA QuietVersions ==
    ASSUME Serial, VersionsAdvance, KeysReported, IInv, SerialInv, VersionsInv,
           IInv', NEW w \in Workers,
           Receive(w) \/ ReceiveEvent(w) \/ ReceiveScript(w)
              \/ Reject(w) \/ StayPut(w) \/ Crash(w)
    PROVE  VersionsStep(w)
<1>1. UNCHANGED <<table, nodeTable, world, floor>>
  BY DEF Receive, ReceiveEvent, StartEvent, ReceiveScript, Reject, StayPut,
         Crash
<1>2. RowsInv'
  BY <1>1, SameTable, RowsSayTheSame DEF VersionsInv, world
<1>3. CASE Receive(w)
  <2>1. PICK v \in 1 .. account, client \in Clients :
           Start(w, "token", ClaimsOf(v, client))
    BY <1>3 DEF Receive
  <2>2. job'[w].kind = "token" /\ job'[w].claims = ClaimsOf(v, client)
        /\ job'[w].pc = "select"
    BY <2>1 DEF Start, IInv, TypeOK
  <2>3. client \in {"full", "oauth"}
    BY DEF KeysReported
  <2>4. Versions[v] \in VersionSet
    BY NewestFacts, VersionsAssumption
  <2>5. /\ job'[w].claims.client_state = Versions[v].client_state
        /\ job'[w].claims.keys_changed_at = Versions[v].keys_changed_at
        /\ job'[w].claims.generation \in {0, Versions[v].generation}
    BY <2>2, <2>3, <2>4 DEF ClaimsOf, VersionSet
  <2>6. RequestInv(w)'
    BY <1>1, <2>2, <2>5 DEF RequestInv, world
  <2>7. QED
    BY <1>2, <2>6 DEF VersionsStep
<1>4. CASE ReceiveEvent(w)
  <2>1. PICK v \in 2 .. account : Start(w, "event", EventClaims(v))
    BY <1>4 DEF ReceiveEvent, StartEvent
  <2>2. /\ job'[w].kind = "event" /\ job'[w].pc = "select"
        /\ job'[w].claims.generation = Versions[v].generation - 1
    BY <2>1 DEF Start, IInv, TypeOK, EventClaims, NoClaims
  <2>3. v \in 1 .. account
    BY NewestFacts
  <2>4. job'[w].claims.generation < Newest.generation
    BY <2>2, <2>3, NewestFacts, VersionFacts
  <2>5. RequestInv(w)'
    BY <1>1, <2>2, <2>4, FromSame DEF RequestInv, world
  <2>6. QED
    BY <1>2, <2>5 DEF VersionsStep
<1>5. CASE ReceiveScript(w)
  <2>1. /\ job'[w].kind = "move" /\ job'[w].pc = "select"
        /\ "allocate" \in Operations
    BY <1>5 DEF ReceiveScript, Start, IInv, TypeOK
  <2>2. RequestInv(w)'
    BY <2>1 DEF RequestInv
  <2>3. QED
    BY <1>2, <2>2 DEF VersionsStep
<1>6. CASE Reject(w) \/ StayPut(w) \/ Crash(w)
  BY <1>2, <1>6, EndRequest DEF VersionsStep, Reject, StayPut, Crash
<1>7. QED
  BY <1>3, <1>4, <1>5, <1>6

LEMMA ReadVersions ==
    ASSUME Serial, VersionsAdvance, KeysReported, IInv, SerialInv, VersionsInv,
           IInv', NEW w \in Workers,
           SelectRecords(w) \/ SelectNothing(w) \/ BestNode(w) \/ NoUpdate(w)
    PROVE  VersionsStep(w)
<1>1. UNCHANGED <<table, nodeTable, world>> /\ RequestInv(w)
  BY DEF SelectRecords, SelectNothing, BestNode, NoUpdate, VersionsInv
<1>2. RowsInv'
  BY <1>1, SameTable, RowsSayTheSame DEF VersionsInv, world
<1>3. account' = account
  BY <1>1 DEF world
<1>4. CASE SelectRecords(w)
  <2>1. ~NeedsNode(Current)
    BY <1>4, CurrentNeedsNoNode DEF SelectRecords
  <2>2. PICK stale, stamp :
           Go(w, AfterRead(stale), UserOf(Current), stale, 0, stamp)
    BY <1>4, <2>1 DEF SelectRecords, Current
  <2>3. AfterRead(stale) \in PCs \ {"allocate", "insert", "create"}
    BY DEF AfterRead, PCs
  <2>4. job[w].pc = "select"
    BY <1>4 DEF SelectRecords
  <2>5. QED
    BY <1>1, <1>2, <1>3, <2>2, <2>3, <2>4, GoRequest DEF VersionsStep
<1>5. CASE SelectNothing(w)
  <2>1. job[w].pc = "select"
    BY <1>5 DEF SelectNothing
  <2>2. CASE End(w, "idle")
    BY <1>2, <2>2, EndRequest DEF VersionsStep
  <2>3. CASE job[w].kind = "token" /\
             Go(w, "allocate", NewUser(job[w].claims), {}, clock, 0)
    <3>1. /\ job'[w].pc = "allocate" /\ job'[w].kind = "token"
          /\ job'[w].claims = job[w].claims
          /\ job'[w].user = NewUser(job[w].claims)
      BY <2>3, GoIs
    <3>2. PICK v \in 1 .. account :
             /\ job[w].claims.client_state = Versions[v].client_state
             /\ job[w].claims.keys_changed_at = Versions[v].keys_changed_at
             /\ job[w].claims.generation \in {0, Versions[v].generation}
      BY <1>1, <2>1, <2>3 DEF RequestInv
    <3>3. From(job'[w].user)
      BY <3>1, <3>2, ClaimedFrom DEF NewUser
    <3>4. RequestInv(w)'
      BY <1>3, <3>1, <3>2, <3>3, FromSame DEF RequestInv
    <3>5. QED
      BY <1>2, <3>4 DEF VersionsStep
  <2>4. CASE job[w].kind = "move" /\
             job' = [job EXCEPT ![w].pc = "allocate", ![w].kind = "place",
                                ![w].user = NewUser(NoClaims),
                                ![w].since = clock]
    <3>1. /\ job'[w].pc = "allocate" /\ job'[w].kind = "place"
          /\ job'[w].user = NewUser(NoClaims)
      BY <2>4 DEF IInv, TypeOK, Jobs
    <3>2. "allocate" \in Operations
      BY <1>1, <2>4 DEF RequestInv
    <3>3. From(job'[w].user)
      BY <3>1, <3>2, NewestFacts
         DEF From, KeysFrom, GenerationFrom, NewUser, NoClaims
    <3>4. RequestInv(w)'
      BY <1>3, <3>1, <3>2, <3>3, FromSame DEF RequestInv
    <3>5. QED
      BY <1>2, <3>4 DEF VersionsStep
  <2>5. QED
    BY <1>5, <2>2, <2>3, <2>4 DEF SelectNothing
<1>6. CASE BestNode(w)
  <2>1. CASE End(w, "error")
    BY <1>2, <2>1, EndRequest DEF VersionsStep
  <2>2. CASE ~End(w, "error")
    <3>1. PICK n \in nodes :
             Go(w, "insert", [job[w].user EXCEPT !.node = n],
                job[w].stale, job[w].since, job[w].stamp)
      BY <1>6, <2>2 DEF BestNode
    <3>2. /\ job'[w].pc = "insert" /\ job'[w].kind = job[w].kind
          /\ job'[w].claims = job[w].claims
          /\ job'[w].user = [job[w].user EXCEPT !.node = n]
      BY <3>1, GoIs
    <3>3. /\ job'[w].user.client_state = job[w].user.client_state
          /\ job'[w].user.generation = job[w].user.generation
          /\ job'[w].user.keys_changed_at = job[w].user.keys_changed_at
      BY <3>2, JobTypes DEF Users
    <3>4. From(job[w].user)
      BY <1>1, <1>6 DEF RequestInv, BestNode
    <3>5. From(job'[w].user)
      BY <3>3, <3>4 DEF From, KeysFrom, GenerationFrom
    <3>6. RequestInv(w)'
      BY <1>1, <1>3, <1>6, <3>2, <3>5, FromSame DEF RequestInv, BestNode
    <3>7. QED
      BY <1>2, <3>6 DEF VersionsStep
  <2>3. QED
    BY <2>1, <2>2
<1>7. CASE NoUpdate(w)
  BY <1>1, <1>2, <1>3, <1>7, AnswerRequest
     DEF NoUpdate, Checking, VersionsStep
<1>8. QED
  BY <1>4, <1>5, <1>6, <1>7

LEMMA LookupVersions ==
    ASSUME Serial, VersionsAdvance, KeysReported, IInv, SerialInv, VersionsInv,
           IInv', NEW w \in Workers, LookupNode(w)
    PROVE  VersionsStep(w)
<1> DEFINE user == NewStateUser(job[w].user, job[w].claims)
<1>1. /\ UNCHANGED <<table, nodeTable, world>> /\ RequestInv(w)
      /\ job[w].pc = "check" /\ job[w].kind = "token"
      /\ StateChange(job[w].user, job[w].claims)
      /\ ~Refused(job[w].user, job[w].claims)
  BY DEF LookupNode, Checking, VersionsInv
<1>2. RowsInv' /\ Current' = Current /\ (Live' <=> Live)
  BY <1>1, SameTable, RowsSayTheSame DEF VersionsInv, world
<1>3. account' = account
  BY <1>1 DEF world
<1>4. CASE End(w, "error")
  BY <1>2, <1>4, EndRequest DEF VersionsStep
<1>5. CASE ~End(w, "error")
  <2>1. Go(w, "create", user, {}, clock, 0)
    BY <1>5 DEF LookupNode
  <2>2. /\ job'[w].pc = "create" /\ job'[w].kind = "token"
        /\ job'[w].claims = job[w].claims /\ job'[w].user = user
    BY <1>1, <2>1, GoIs
  <2>3. PICK v \in 1 .. account :
           /\ job[w].claims.client_state = Versions[v].client_state
           /\ job[w].claims.keys_changed_at = Versions[v].keys_changed_at
           /\ job[w].claims.generation \in {0, Versions[v].generation}
    BY <1>1 DEF RequestInv
  <2> DEFINE g == GenerationUpdate(job[w].user, job[w].claims)
             k == KeysUpdate(job[w].user, job[w].claims)
  <2>4. /\ user.client_state = job[w].claims.client_state
        /\ user.generation = Max2(job[w].user.generation, g)
        /\ user.keys_changed_at = Max2(job[w].user.keys_changed_at, k)
    BY DEF NewStateUser
  <2> HIDE DEF user
  <2>5. /\ job[w].claims.generation > 0 => g # NULL
        /\ job[w].user.keys_changed_at > 0 => k # NULL
    BY <1>1 DEF Refused
  <2>6. /\ g = NULL \/ /\ g \in {job[w].claims.generation,
                                 job[w].claims.keys_changed_at}
                       /\ g > job[w].user.generation
        /\ k = NULL \/ /\ k = job[w].claims.keys_changed_at
                       /\ k > job[w].user.keys_changed_at
        /\ job[w].claims.keys_changed_at > job[w].user.keys_changed_at =>
              k # NULL
    BY UpdatesAre, WorkerFacts
  <2> HIDE DEF g, k
  <2>7. v \in 1 .. Len(Versions)
    BY NewestFacts
  <2>8. /\ k = Versions[v].keys_changed_at
        /\ k > job[w].user.keys_changed_at
    BY <2>3, <2>5, <2>6, <2>7, VersionFacts, WorkerFacts
  <2>9. user.keys_changed_at = Versions[v].keys_changed_at
    BY <2>4, <2>7, <2>8, VersionFacts, WorkerFacts DEF Max2
  <2>10. ASSUME Live
         PROVE  From(user)
    <3>1. From(Current) /\ Matches(job[w].user, Current) /\ users # {}
      BY <1>1, <2>10, CheckingSerial, CurrentFacts
         DEF VersionsInv, RowsInv, Live, SerialInv
    <3>2. CASE g = NULL
      <4>1. user.generation = Current.generation
        BY <2>4, <3>1, <3>2, WorkerFacts DEF Max2, NULL, Matches
      <4>2. Versions[v].keys_changed_at > Current.keys_changed_at
        BY <2>8, <3>1 DEF Matches
      <4>3. Current.keys_changed_at < Newest.keys_changed_at
        <5>1. Versions[v].keys_changed_at <= Newest.keys_changed_at
          BY NewestFacts
        <5>2. /\ Versions[v].keys_changed_at \in Nat
              /\ Newest.keys_changed_at \in Nat
              /\ Current.keys_changed_at \in Nat
          BY <2>7, <3>1, NewestFacts, VersionFacts, CurrentFacts DEF SerialInv
        <5>3. QED
          BY <4>2, <5>1, <5>2
      <4>4. account \in 1 .. account
        BY NewestFacts
      <4>5. Current.client_state # Newest.client_state
        <5>1. Current.keys_changed_at \in Nat /\ Newest.keys_changed_at \in Nat
          BY <3>1, NewestFacts, CurrentFacts DEF SerialInv
        <5>2. Current.keys_changed_at # Newest.keys_changed_at
          BY <4>3, <5>1
        <5>3. QED
          BY <3>1, <4>4, <5>2, KeysFromVersion DEF From, Newest
      <4>6. user.generation < Newest.generation
        BY <3>1, <4>1, <4>5 DEF From, GenerationFrom
      <4>7. QED
        BY <2>3, <2>4, <2>9, <4>6 DEF From, KeysFrom, GenerationFrom
    <3>3. CASE g # NULL
      <4>1. user.generation = g
        BY <2>3, <2>4, <2>6, <2>7, <3>3, VersionFacts, WorkerFacts DEF Max2
      <4>2. g \in {0, Versions[v].keys_changed_at, Versions[v].generation}
        BY <2>3, <2>6, <3>3
      <4>3. QED
        BY <2>3, <2>4, <2>9, <4>1, <4>2, ClaimedFrom
    <3>4. QED
      BY <3>2, <3>3
  <2>11. RequestInv(w)'
    BY <1>1, <1>2, <1>3, <2>2, <2>3, <2>10, FromSame DEF RequestInv
  <2>12. QED
    BY <1>2, <2>11 DEF VersionsStep
<1>6. QED
  BY <1>4, <1>5

LEMMA MoveVersions ==
    ASSUME Serial, VersionsAdvance, KeysReported, IInv, SerialInv, VersionsInv,
           IInv', NEW w \in Workers, MoveUser(w)
    PROVE  VersionsStep(w)
<1>1. /\ UNCHANGED <<table, nodeTable, world>> /\ RequestInv(w)
      /\ job[w].pc = "check" /\ job[w].kind = "move"
  BY DEF MoveUser, Checking, VersionsInv
<1>2. RowsInv' /\ Current' = Current /\ (Live' <=> Live)
  BY <1>1, SameTable, RowsSayTheSame DEF VersionsInv, world
<1>3. account' = account
  BY <1>1 DEF world
<1>4. PICK n \in nodes :
         Go(w, "create", MovedUser(job[w].user, n), {}, clock, 0)
  BY DEF MoveUser
<1>5. /\ job'[w].pc = "create" /\ job'[w].kind = "move"
      /\ job'[w].user = MovedUser(job[w].user, n)
  BY <1>1, <1>4, GoIs
<1>6. /\ job'[w].user.client_state = job[w].user.client_state
      /\ job'[w].user.generation = job[w].user.generation
      /\ job'[w].user.keys_changed_at = job[w].user.keys_changed_at
  BY <1>5, JobTypes DEF MovedUser, Users
<1>7. Live => From(Current) /\ Matches(job[w].user, Current)
  BY <1>1, CheckingSerial, CurrentFacts DEF VersionsInv, RowsInv, Live, SerialInv
<1>8. Live => /\ From(job'[w].user)
              /\ job'[w].user.keys_changed_at = Current.keys_changed_at
  BY <1>6, <1>7 DEF From, KeysFrom, GenerationFrom, Matches
<1>9. "allocate" \in Operations
  BY <1>1 DEF RequestInv
<1>10. RequestInv(w)'
  BY <1>2, <1>3, <1>5, <1>8, <1>9, FromSame DEF RequestInv
<1>11. QED
  BY <1>2, <1>10 DEF VersionsStep

LEMMA MarkVersions ==
    ASSUME Serial, VersionsAdvance, KeysReported, IInv, SerialInv, VersionsInv,
           IInv', SerialInv', TableKept, NEW w \in Workers,
           MarkOld(w) \/ ReplaceOlder(w) \/ FinishMove(w)
    PROVE  VersionsStep(w)
<1>1. /\ users \in SUBSET Rows /\ users # {} /\ account' = account
      /\ job[w].pc \in {"mark", "older"} /\ RequestInv(w)
  BY DEF IInv, TypeOK, JobInv, NamesRow, MarkOld, ReplaceOlder, FinishMove,
         world, VersionsInv
<1>2. \A s \in users' : \E r \in users :
         /\ s.client_state = r.client_state
         /\ s.generation = r.generation
         /\ s.keys_changed_at = r.keys_changed_at
  <2>1. CASE MarkOld(w)
    <3>1. PICK uid : users' = ReplaceUserRecord(users, uid, job[w].stamp)
      BY <2>1 DEF MarkOld
    <3>2. QED
      BY <1>1, <3>1 DEF ReplaceUserRecord, Rows
  <2>2. CASE ReplaceOlder(w) \/ FinishMove(w)
    <3>1. users' = ReplaceUserRecords(users, job[w].stamp)
      BY <2>2 DEF ReplaceOlder, FinishMove
    <3>2. QED
      BY <1>1, <3>1 DEF ReplaceUserRecords, Rows
  <2>3. QED
    BY <2>1, <2>2
<1>3. RowsInv'
  BY <1>1, <1>2, RowsSay DEF VersionsInv
<1>4. RequestInv(w)'
  <2>1. CASE MarkOld(w)
    <3>1. PICK stale, stamp :
             Go(w, AfterRead(stale), job[w].user, stale, 0, stamp)
      BY <2>1 DEF MarkOld
    <3>2. AfterRead(stale) \in PCs \ {"allocate", "insert", "create"}
      BY DEF AfterRead, PCs
    <3>3. QED
      BY <1>1, <3>1, <3>2, GoRequest
  <2>2. CASE ReplaceOlder(w)
    BY <1>1, <2>2, AnswerRequest DEF ReplaceOlder
  <2>3. CASE FinishMove(w)
    BY <2>3, EndRequest DEF FinishMove
  <2>4. QED
    BY <2>1, <2>2, <2>3
<1>5. QED
  BY <1>3, <1>4 DEF VersionsStep

(* A row inserted with what a user dict says.                              *)
LEMMA InsertVersions ==
    ASSUME Serial, VersionsAdvance, KeysReported, IInv, SerialInv, VersionsInv,
           IInv', SerialInv', TableKept, NEW w \in Workers,
           InsertAllocated(w) \/ CreateReplacement(w)
    PROVE  VersionsStep(w)
<1>1. /\ account' = account /\ RequestInv(w)
      /\ job[w].pc \in {"insert", "create"}
  BY DEF InsertAllocated, CreateReplacement, world, VersionsInv
<1>2. PICK now : users' = CreateUserRecord(users, nextUid, job[w].user.node,
                                           job[w].user, now)
  BY DEF InsertAllocated, CreateReplacement
<1>3. PICK new : /\ users' = users \cup {new}
                 /\ new.client_state = job[w].user.client_state
                 /\ new.generation = job[w].user.generation
                 /\ new.keys_changed_at = job[w].user.keys_changed_at
  <2> DEFINE new == [uid |-> nextUid, nodeid |-> job[w].user.node,
                     client_state |-> job[w].user.client_state,
                     generation |-> job[w].user.generation,
                     keys_changed_at |-> job[w].user.keys_changed_at,
                     created_at |-> now, replaced_at |-> NULL]
  <2>1. users' = users \cup {new}
    BY <1>2 DEF CreateUserRecord
  <2>2. /\ new.client_state = job[w].user.client_state
        /\ new.generation = job[w].user.generation
        /\ new.keys_changed_at = job[w].user.keys_changed_at
    OBVIOUS
  <2> HIDE DEF new
  <2>3. QED
    BY <2>1, <2>2
<1>4. PICK pc, user, stale, since, stamp :
         /\ pc \in PCs \ {"allocate", "insert", "create"}
         /\ Go(w, pc, user, stale, since, stamp)
         /\ user = Inserted(job[w].user, nextUid)
         /\ job[w].pc = "create" => pc = "older"
  BY DEF InsertAllocated, CreateReplacement, AfterRead, PCs
<1>5. RequestInv(w)'
  BY <1>1, <1>4, GoRequest
<1>6. CASE users = {}
  <2>1. job[w].pc = "insert"
    BY <1>1, <1>6, WorkerFacts DEF PlaceInv
  <2>2. From(new)
    BY <1>1, <1>3, <2>1 DEF RequestInv, From, KeysFrom, GenerationFrom
  <2>3. new = Current' /\ new.keys_changed_at \in Nat
    <3>1. Ordered(users')
      BY OrderedNext DEF SerialInv, CurrentInv
    <3>2. QED
      BY <1>3, <1>6, <3>1, Sight, WorkerFacts DEF Current
  <2>4. RowsInv'
    BY <1>1, <1>3, <1>6, <2>2, <2>3, FromSame DEF RowsInv
  <2>5. QED
    BY <1>5, <2>4 DEF VersionsStep
<1>7. CASE users # {}
  <2>1. job[w].pc = "create"
    BY <1>1, <1>7, WorkerFacts DEF PlaceInv
  <2>2. SUFFICES ASSUME Live', NEW s \in users'
                 PROVE  /\ From(s)
                        /\ Comparable =>
                              s.keys_changed_at <= Current'.keys_changed_at
    BY <1>1, <1>5, FromSame DEF RowsInv, VersionsStep
  <2>3. /\ Live /\ Current'.keys_changed_at >= Current.keys_changed_at
        /\ Current.keys_changed_at \in Nat
    BY <1>7, <2>2, CurrentFacts DEF TableKept, CurrentMoves, SerialInv
  <2>4. CASE s \in users
    <3>1. From(s) /\ (Comparable => s.keys_changed_at <= Current.keys_changed_at)
      BY <2>3, <2>4 DEF VersionsInv, RowsInv
    <3>2. s.keys_changed_at \in Nat /\ Current'.keys_changed_at \in Nat
      <4>1. users \in SUBSET Rows /\ users' \in SUBSET Rows
        BY DEF IInv, TypeOK
      <4>2. Ordered(users')
        BY OrderedNext DEF SerialInv, CurrentInv
      <4>3. Current' \in users'
        BY <2>2, <4>2, Sight DEF Current
      <4>4. QED
        BY <2>4, <4>1, <4>3, MaxGenerationAssumption DEF Rows, Generations
    <3>3. QED
      BY <2>3, <3>1, <3>2
  <2>5. CASE s = new
    <3>1. From(s)
      BY <1>1, <1>3, <2>1, <2>3, <2>5
         DEF RequestInv, From, KeysFrom, GenerationFrom
    <3>2. CASE job[w].kind = "token"
      <4>1. /\ job'[w].pc = "older" /\ job'[w].kind = "token"
            /\ job'[w].user = Inserted(job[w].user, nextUid)
        BY <1>4, <2>1, <3>2, GoIs
      <4>2. job'[w].user.keys_changed_at = s.keys_changed_at
        BY <1>3, <2>5, <4>1, JobTypes DEF Inserted, Users
      <4>3. Comparable => Matches(job[w].user, Current)'
        BY <2>2, <4>1 DEF SerialInv, WorkerInv, PlaceInv
      <4>4. Comparable => Current'.keys_changed_at = s.keys_changed_at
        BY <4>2, <4>3 DEF Matches
      <4>5. s.keys_changed_at \in Nat
        BY <1>3, <2>5, WorkerFacts
      <4>6. QED
        BY <3>1, <4>4, <4>5
    <3>3. CASE job[w].kind # "token"
      <4>1. s.keys_changed_at = Current.keys_changed_at
        BY <1>1, <1>3, <2>1, <2>3, <2>5, <3>3 DEF RequestInv
      <4>2. QED
        BY <2>3, <3>1, <4>1
    <3>4. QED
      BY <3>2, <3>3
  <2>6. QED
    BY <1>3, <2>4, <2>5
<1>8. QED
  BY <1>6, <1>7

(* The rows after an in-place update that moved the current one alone.     *)
LEMMA RowsMoved ==
    ASSUME Serial, VersionsAdvance, IInv, SerialInv, RowsInv, Live,
           account' = account,
           Current'.client_state = Current.client_state,
           Current'.keys_changed_at = Current.keys_changed_at,
           \/ Current'.generation = Current.generation
           \/ Current'.generation < Newest.generation
           \/ /\ Current'.generation = Newest.generation
              /\ Current.client_state = Newest.client_state,
           \A s \in users' : s \in users \/ s = Current'
    PROVE  RowsInv'
<1>1. From(Current) /\ Current.keys_changed_at \in Nat
  BY CurrentFacts DEF RowsInv, SerialInv, Live
<1>2. From(Current')
  BY <1>1 DEF From, KeysFrom, GenerationFrom
<1>3. QED
  BY <1>1, <1>2, FromSame DEF RowsInv

LEMMA UpdateVersions ==
    ASSUME Serial, VersionsAdvance, KeysReported, IInv, SerialInv, VersionsInv,
           IInv', SerialInv', TableKept, NEW w \in Workers, UpdateInPlace(w)
    PROVE  VersionsStep(w)
<1> DEFINE g == GenerationUpdate(job[w].user, job[w].claims)
           k == KeysUpdate(job[w].user, job[w].claims)
<1>1. /\ job[w].pc = "check" /\ job[w].kind = "token" /\ RequestInv(w)
      /\ users' = UpdateUserRecordInPlace(users, g, k)
      /\ ~StateChange(job[w].user, job[w].claims)
      /\ nextUid' = nextUid /\ account' = account
  BY DEF UpdateInPlace, Checking, VersionsInv, world
<1>2. RequestInv(w)'
  BY <1>1, AnswerRequest DEF UpdateInPlace
<1>3. CASE ~Deleted
  <2>1. /\ Live /\ Matches(job[w].user, Current) /\ From(Current)
        /\ users # {}
    BY <1>1, <1>3, CheckingSerial, CurrentFacts
       DEF VersionsInv, RowsInv, SerialInv, Live
  <2>2. PICK v \in 1 .. account :
           /\ job[w].claims.client_state = Versions[v].client_state
           /\ job[w].claims.keys_changed_at = Versions[v].keys_changed_at
           /\ job[w].claims.generation \in {0, Versions[v].generation}
    BY <1>1 DEF RequestInv
  <2>3. /\ Current.client_state = Versions[v].client_state
        /\ Current.keys_changed_at = Versions[v].keys_changed_at
    BY <1>1, <2>1, <2>2, KeysFromVersion DEF StateChange, Matches, From
  <2>4. k = NULL /\ (g = NULL \/ /\ g = Versions[v].generation
                                 /\ g > job[w].user.generation)
    <3>1. ~KeysAdvance(job[w].user, job[w].claims)
      BY <2>1, <2>2, <2>3, CurrentFacts DEF KeysAdvance, Matches, SerialInv
    <3>2. v \in 1 .. Len(Versions) /\ job[w].user.generation \in Nat
      BY NewestFacts, WorkerFacts
    <3>3. QED
      BY <2>2, <3>1, <3>2, VersionFacts DEF KeysUpdate, GenerationUpdate
  <2>5. g \in Generations \cup {NULL} /\ k \in Generations \cup {NULL}
    BY UpdateTypes, JobTypes
  <2> HIDE DEF g, k
  <2>6. /\ Current'.client_state = Current.client_state
        /\ Current'.generation = Max2(Current.generation, g)
        /\ Current'.keys_changed_at = Max2(Current.keys_changed_at, k)
        /\ \A s \in users' : s \in users \/ s = Current'
    BY <1>1, <1>3, <2>4, <2>5, InPlaceMoves
  <2>7. /\ Current'.keys_changed_at = Current.keys_changed_at
        /\ \/ Current'.generation = Current.generation
           \/ Current'.generation = Versions[v].generation
    <3>1. /\ Current.keys_changed_at \in Nat /\ Current.generation \in Nat
      BY <2>1, CurrentFacts DEF SerialInv
    <3>2. QED
      BY <2>4, <2>6, <3>1 DEF Max2, NULL
  <2>8. \/ Current'.generation = Current.generation
        \/ Current'.generation < Newest.generation
        \/ /\ Current'.generation = Newest.generation
           /\ Current.client_state = Newest.client_state
    <3>1. /\ v \in 1 .. Len(Versions)
          /\ Versions[v].generation <= Newest.generation
          /\ \/ Versions[v].client_state = Newest.client_state
             \/ Versions[v].generation < Newest.generation
          /\ Newest.generation \in Nat
      BY NewestFacts
    <3>2. Versions[v].generation \in Nat
      BY <3>1, VersionFacts
    <3>3. QED
      BY <2>3, <2>7, <3>1, <3>2
  <2>9. RowsInv'
    BY <1>1, <2>1, <2>6, <2>7, <2>8, RowsMoved DEF VersionsInv
  <2>10. QED
    BY <1>2, <2>9 DEF VersionsStep
<1>4. CASE Deleted
  <2>1. ~Live'
    BY <1>1, <1>4, CheckingSerial DEF TableKept, CurrentMoves, Live
  <2>2. QED
    BY <1>2, <2>1 DEF VersionsStep, RowsInv
<1>5. QED
  BY <1>3, <1>4

LEMMA BumpVersions ==
    ASSUME Serial, VersionsAdvance, KeysReported, IInv, SerialInv, VersionsInv,
           IInv', SerialInv', TableKept, NEW w \in Workers, BumpGeneration(w)
    PROVE  VersionsStep(w)
<1> DEFINE g == job[w].claims.generation
<1>1. /\ job[w].pc = "check" /\ job[w].kind = "event" /\ RequestInv(w)
      /\ users' = UpdateUserRecordInPlace(users, g, NULL)
      /\ nextUid' = nextUid /\ account' = account /\ End(w, "idle")
  BY DEF BumpGeneration, Checking, VersionsInv, world
<1>2. RequestInv(w)'
  BY <1>1, EndRequest
<1>3. g < Newest.generation /\ g \in Generations /\ g \in Nat
  BY <1>1, JobTypes, WorkerFacts DEF RequestInv, Claims
<1> HIDE DEF g
<1>4. CASE ~Deleted
  <2>1. Live /\ users # {}
    BY <1>1, <1>4, CheckingSerial DEF Live
  <2>2. /\ Current'.client_state = Current.client_state
        /\ Current'.generation = Max2(Current.generation, g)
        /\ Current'.keys_changed_at = Max2(Current.keys_changed_at, NULL)
        /\ \A s \in users' : s \in users \/ s = Current'
    <3>1. PICK none \in Generations \cup {NULL} : none = NULL
      OBVIOUS
    <3>2. users' = UpdateUserRecordInPlace(users, g, none)
      BY <1>1, <3>1
    <3>3. QED
      BY <1>1, <1>3, <1>4, <3>1, <3>2, InPlaceMoves
  <2>3. Current.keys_changed_at \in Nat /\ Current.generation \in Nat
    BY <2>1, CurrentFacts DEF SerialInv
  <2>4. /\ Current'.keys_changed_at = Current.keys_changed_at
        /\ \/ Current'.generation = Current.generation
           \/ Current'.generation < Newest.generation
    BY <1>3, <2>2, <2>3 DEF Max2, NULL
  <2>5. RowsInv'
    BY <1>1, <2>1, <2>2, <2>4, RowsMoved DEF VersionsInv
  <2>6. QED
    BY <1>2, <2>5 DEF VersionsStep
<1>5. CASE Deleted
  <2>1. ~Live'
    BY <1>1, <1>5, CheckingSerial DEF TableKept, CurrentMoves, Live
  <2>2. QED
    BY <1>2, <2>1 DEF VersionsStep, RowsInv
<1>6. QED
  BY <1>4, <1>5

LEMMA StepVersions ==
    ASSUME Serial, VersionsAdvance, KeysReported, IInv, SerialInv, VersionsInv,
           IInv', SerialInv', TableKept, NEW w \in Workers, Step(w)
    PROVE  VersionsStep(w)
BY QuietVersions, ReadVersions, LookupVersions, MoveVersions, MarkVersions,
   InsertVersions, UpdateVersions, BumpVersions DEF Step

LEMMA EnvironmentVersions ==
    ASSUME Serial, VersionsAdvance, KeysReported, IInv, SerialInv, VersionsInv,
           IInv', SerialInv', Environment
    PROVE  VersionsInv'
<1>1. job' = job
  BY EnvironmentStep DEF GoodEnvironmentStep
<1>2. CASE Tick \/ ChangeAccount
  <2>1. /\ UNCHANGED <<table, nodeTable>>
        /\ account' = account \/ account' = account + 1
    BY <1>2 DEF Tick, ChangeAccount
  <2>2. users' = users /\ Current' = Current /\ (Live' <=> Live)
    BY <2>1, SameTable
  <2>3. /\ \A x : x.generation \in Nat /\ From(x) => From(x)'
        /\ \A g \in Nat : g < Newest.generation => g < Newest'.generation
        /\ \A v \in 1 .. account : v \in 1 .. account'
    BY <2>1, FromGrows
  <2>4. \A r \in users : r.generation \in Nat
    BY MaxGenerationAssumption DEF IInv, TypeOK, Rows, Generations
  <2>5. RowsInv'
    BY <2>2, <2>3, <2>4 DEF VersionsInv, RowsInv
  <2>6. ASSUME NEW w \in Workers
        PROVE  RequestInv(w)'
    <3>1. /\ RequestInv(w) /\ job[w].user.generation \in Nat
          /\ job[w].claims.generation \in Nat
      BY WorkerFacts DEF VersionsInv
    <3>2. From(job[w].user) => From(job[w].user)'
      <4>1. PICK user : user = job[w].user
        OBVIOUS
      <4>2. From(user) => From(user)'
        BY <2>3, <3>1, <4>1
      <4>3. QED
        BY <1>1, <4>1, <4>2 DEF From, KeysFrom, GenerationFrom
    <3>3. job[w].claims.generation < Newest.generation =>
             job[w].claims.generation < Newest'.generation
      BY <2>3, <3>1
    <3>4. ASSUME NEW v \in 1 .. account
          PROVE  v \in 1 .. account'
      BY <2>3
    <3> DEFINE Claimed(v) ==
          /\ job[w].claims.client_state = Versions[v].client_state
          /\ job[w].claims.keys_changed_at = Versions[v].keys_changed_at
          /\ job[w].claims.generation \in {0, Versions[v].generation}
    <3>5. (\E v \in 1 .. account : Claimed(v)) =>
             \E v \in 1 .. account' : Claimed(v)
      BY <3>4
    <3>6. QED
      BY <1>1, <2>2, <3>1, <3>2, <3>3, <3>5 DEF RequestInv
  <2>7. QED
    BY <2>5, <2>6 DEF VersionsInv
<1>3. CASE RetireUser
  <2>1. /\ account' = account /\ floor'.generation = MAX_GENERATION
    BY <1>3 DEF RetireUser, world, IInv, TypeOK
  <2>2. ~Live'
    BY <2>1, SomeGenerations DEF SerialInv, FloorInv, Live
  <2>3. ASSUME NEW w \in Workers
        PROVE  RequestInv(w)'
    BY <1>1, <2>1, <2>2, FromSame DEF VersionsInv, RequestInv
  <2>4. QED
    BY <2>2, <2>3 DEF VersionsInv, RowsInv
<1>4. ~\E n \in NodeIds : UnassignNode(n) \/ DeleteNode(n) \/ UnassignRemoved(n)
  <2>1. removing = {}
    BY DEF SerialInv, CurrentInv
  <2>2. QED
    BY <2>1 DEF Serial, NoneReassigned, UnassignNode, DeleteNode, UnassignRemoved
<1>5. QED
  BY <1>2, <1>3, <1>4 DEF Environment

LEMMA VersionsInit ==
    ASSUME Init
    PROVE  VersionsInv
<1>1. ~Live /\ \A w \in Workers : job[w].pc = "idle" /\ job[w].kind = "token"
  BY DEF Init, Live, Ended
<1>2. QED
  BY <1>1 DEF VersionsInv, RowsInv, RequestInv

LEMMA VersionsNext ==
    ASSUME Serial, VersionsAdvance, KeysReported, IInv, SerialInv, VersionsInv,
           IInv', SerialInv', [Next]_vars
    PROVE  VersionsInv'
<1>1. TableKept
  BY SerialNext
<1>2. CASE Environment
  BY <1>2, EnvironmentVersions
<1>3. ASSUME NEW w \in Workers, Step(w)
      PROVE  VersionsInv'
  <2>1. VersionsStep(w)
    BY <1>1, <1>3, StepVersions
  <2>2. \A v \in Workers : v = w
    BY DEF Serial, OneAtATime
  <2>3. QED
    BY <2>1, <2>2 DEF VersionsStep, VersionsInv
<1>4. CASE UNCHANGED vars
  <2>1. UNCHANGED <<table, nodeTable, world, job>> /\ account' = account
    BY <1>4 DEF vars, world
  <2>2. users' = users /\ Current' = Current /\ (Live' <=> Live)
    BY <2>1, SameTable
  <2>3. QED
    BY <2>1, <2>2, RowsSayTheSame, FromSame DEF VersionsInv, RequestInv
<1>5. QED
  BY <1>2, <1>3, <1>4 DEF Next

LEMMA VersionsInvariance ==
    ASSUME Serial, VersionsAdvance, KeysReported
    PROVE  Spec => [](IInv /\ SerialInv /\ VersionsInv)
<1>1. Init => IInv /\ SerialInv /\ VersionsInv
  BY InitInv, SerialInit, VersionsInit
<1>2. IInv /\ SerialInv /\ VersionsInv /\ [Next]_vars =>
         (IInv /\ SerialInv /\ VersionsInv)'
  BY NextInv, SerialNext, VersionsNext
<1>3. QED
  BY <1>1, <1>2, PTL DEF Spec

(* The last version with a client state.                                   *)
LEMMA VersionOfIs ==
    ASSUME NEW state, NEW v \in 1 .. Len(Versions),
           Versions[v].client_state = state
    PROVE  /\ VersionOf(state) \in 1 .. Len(Versions)
           /\ Versions[VersionOf(state)].client_state = state
<1> DEFINE P == {u \in 1 .. Len(Versions) : Versions[u].client_state = state}
<1>1. Len(Versions) \in Nat
  BY VersionsAssumption
<1>2. /\ P \in SUBSET Nat /\ v \in P
      /\ \A u \in P : u <= Len(Versions)
  BY <1>1
<1>3. PICK last \in P : \A u \in P : u <= last
  <2> HIDE DEF P
  <2>1. QED
    BY <1>1, <1>2, GreatestNatural
<1>4. /\ last \in 1 .. Len(Versions) /\ Versions[last].client_state = state
      /\ \A u \in last + 1 .. Len(Versions) : Versions[u].client_state # state
  BY <1>1, <1>3
<1>5. QED
  BY <1>4 DEF VersionOf

(* The keys of a row in use are not newer than the account's.              *)
LEMMA KeysNotAhead ==
    ASSUME VersionsAdvance, IInv, NEW x, KeysFrom(x)
    PROVE  x.keys_changed_at \in Nat /\ x.keys_changed_at <= Newest.keys_changed_at
BY NewestFacts, VersionFacts DEF KeysFrom

(* The keys in use are those of a version.                                 *)
KeysInUse ==
    Live => \E v \in 1 .. Len(Versions) :
               /\ Versions[v].client_state = Current.client_state
               /\ Versions[v].keys_changed_at = Current.keys_changed_at

LEMMA KeysInUseNow ==
    ASSUME Serial, VersionsAdvance, "allocate" \notin Operations,
           IInv, SerialInv, VersionsInv
    PROVE  KeysInUse
<1>1. Live => KeysFrom(Current)
  BY CurrentFacts DEF VersionsInv, RowsInv, From, SerialInv, Live
<1>2. QED
  BY <1>1, NewestFacts DEF KeysFrom, KeysInUse

LEMMA KeysInUseNext ==
    ASSUME Serial, VersionsAdvance, "allocate" \notin Operations
    PROVE  (IInv /\ SerialInv /\ VersionsInv)' => KeysInUse'
<1>1. IInv /\ SerialInv /\ VersionsInv => KeysInUse
  BY KeysInUseNow
<1>2. QED
  BY <1>1, PTL

(* The client state in use does not go back when its keys do not.          *)
LEMMA StateAdvances ==
    ASSUME VersionsAdvance, KeysInUse, KeysInUse', Live, Live',
           Current'.keys_changed_at >= Current.keys_changed_at
    PROVE  VersionOf(Current'.client_state) >= VersionOf(Current.client_state)
<1>1. PICK u \in 1 .. Len(Versions) :
         /\ Versions[u].client_state = Current.client_state
         /\ Versions[u].keys_changed_at = Current.keys_changed_at
  BY DEF KeysInUse
<1>2. PICK v \in 1 .. Len(Versions) :
         /\ Versions[v].client_state = Current'.client_state
         /\ Versions[v].keys_changed_at = Current'.keys_changed_at
  BY DEF KeysInUse
<1>3. PICK m \in 1 .. Len(Versions) :
         /\ m = VersionOf(Current.client_state)
         /\ Versions[m].client_state = Current.client_state
  BY <1>1, VersionOfIs
<1>4. PICK n \in 1 .. Len(Versions) :
         /\ n = VersionOf(Current'.client_state)
         /\ Versions[n].client_state = Current'.client_state
  BY <1>2, VersionOfIs
<1>5. /\ Versions[m].keys_changed_at = Current.keys_changed_at
      /\ Versions[n].keys_changed_at = Current'.keys_changed_at
  BY <1>1, <1>2, <1>3, <1>4, VersionsAgree
<1>6. /\ m \in Int /\ n \in Int
      /\ Versions[m].keys_changed_at \in Nat
      /\ Versions[n].keys_changed_at \in Nat
  BY VersionFacts, VersionsAssumption
<1>7. n >= m
  <2>1. SUFFICES ASSUME n < m PROVE FALSE
    BY <1>6
  <2>2. Versions[n].client_state = Versions[m].client_state
    BY <1>5, <1>6, <2>1 DEF VersionsAdvance
  <2>3. QED
    BY <1>3, <1>4, <1>6, <2>1, <2>2
<1>8. QED
  BY <1>3, <1>4, <1>7

(* The client state in use never goes back to an earlier version's: the    *)
(* time at which its keys were changed would go back with it.              *)
THEOREM NoStateComesBack ==
    ASSUME Serial, VersionsAdvance, KeysReported, "allocate" \notin Operations
    PROVE  Spec => NoStateRevival
<1> DEFINE Inv == IInv /\ SerialInv /\ VersionsInv
<1>1. Inv => KeysInUse
  BY KeysInUseNow
<1>2. Inv' => KeysInUse'
  BY KeysInUseNext
<1>3. ASSUME Inv, [Next]_vars, Inv'
      PROVE  [users # {} /\ floor'.generation < MAX_GENERATION =>
                VersionOf(CurrentRow(users').client_state) >=
                VersionOf(CurrentRow(users).client_state)]_vars
  <2> SUFFICES ASSUME users # {}, floor'.generation < MAX_GENERATION
               PROVE  VersionOf(Current'.client_state) >=
                      VersionOf(Current.client_state)
    BY DEF Current
  <2>1. TableKept /\ TableStep
    BY <1>3, SerialNext, SteppedTable
  <2>2. Live'
    <3>1. ~Deleted'
      BY <1>3, SomeGenerations, FloorNaturalsNext DEF SerialInv, FloorInv
    <3>2. users' # {}
      BY <1>3, <2>1, DeletedStays
    <3>3. QED
      BY <3>1, <3>2 DEF Live
  <2>3. Live /\ Current'.keys_changed_at >= Current.keys_changed_at
    BY <2>1, <2>2 DEF TableKept, CurrentMoves
  <2>4. QED
    BY <1>1, <1>2, <1>3, <2>2, <2>3, StateAdvances
<1>4. QED
  BY <1>3, VersionsInvariance, PTL DEF Spec, NoStateRevival

(* The newest credentials pass the checks against any current row.         *)
LEMMA NewestAccepted ==
    ASSUME Serial, Comparable, VersionsAdvance, IInv, SerialInv, VersionsInv
    PROVE  NewestClientAccepted
<1> SUFFICES ASSUME floor.generation < MAX_GENERATION, users # {}
             PROVE  LET user == UserOf(Current) IN
                    /\ ~Refused(user, Newest)
                    /\ ~Behind(Advanced(user, GenerationUpdate(user, Newest),
                                        KeysUpdate(user, Newest)), Newest)
  BY DEF NewestClientAccepted, WouldAccept, Current, Newest
<1>1. Live
  BY SomeGenerations, FloorNaturals DEF SerialInv, FloorInv, Live
<1>2. /\ \A r \in users : From(r) /\ r.keys_changed_at <= Current.keys_changed_at
      /\ From(Current)
  BY <1>1, CurrentFacts DEF VersionsInv, RowsInv, SerialInv
<1>3. /\ Current.keys_changed_at \in Nat /\ Current.generation \in Nat
      /\ Current.keys_changed_at <= Newest.keys_changed_at
      /\ Current.generation <= Newest.generation
      /\ Current.client_state # Newest.client_state =>
            /\ Current.generation < Newest.generation
            /\ Current.keys_changed_at < Newest.keys_changed_at
  <2>1. /\ Current.keys_changed_at \in Nat /\ Current.generation \in Nat
        /\ Newest.keys_changed_at \in Nat /\ Newest.generation \in Nat
        /\ account \in 1 .. account
    BY CurrentFacts, NewestFacts DEF SerialInv
  <2>2. Current.keys_changed_at <= Newest.keys_changed_at
    BY <1>2, KeysNotAhead DEF From
  <2>3. Current.client_state # Newest.client_state =>
           Current.keys_changed_at # Newest.keys_changed_at
    BY <1>2, <2>1, KeysFromVersion DEF From, Newest
  <2>4. QED
    BY <1>2, <2>1, <2>2, <2>3 DEF From, GenerationFrom
<1>4. \A r \in users : r.client_state = Newest.client_state =>
         Current.client_state = Newest.client_state
  <2> SUFFICES ASSUME NEW r \in users, r.client_state = Newest.client_state
               PROVE  Current.client_state = Newest.client_state
    OBVIOUS
  <2>1. account \in 1 .. account
    BY NewestFacts
  <2>2. r.keys_changed_at = Newest.keys_changed_at
    BY <1>2, <2>1, KeysFromVersion DEF From, Newest
  <2>3. QED
    BY <1>2, <1>3, <2>2, NewestFacts
<1>5. /\ Newest.keys_changed_at \in Nat /\ Newest.generation \in Nat
      /\ Newest.keys_changed_at <= Newest.generation
      /\ 0 < Newest.generation /\ Newest.client_state # NoState
  BY NewestFacts, VersionFacts DEF Newest
<1> DEFINE user == UserOf(Current)
           g == GenerationUpdate(user, Newest)
           k == KeysUpdate(user, Newest)
<1>6. /\ user.client_state = Current.client_state
      /\ user.generation = Current.generation
      /\ user.keys_changed_at = Current.keys_changed_at
      /\ \A s \in user.old_client_states :
            \E r \in users : r.client_state = s
      /\ user \in [uid : {Current.uid}, node : {NodeOf(Current)},
                   client_state : {Current.client_state},
                   generation : {Current.generation},
                   keys_changed_at : {Current.keys_changed_at},
                   old_client_states : {user.old_client_states}]
  BY CurrentFacts DEF UserOf, SerialInv
<1> HIDE DEF user
<1>7. /\ Newest.generation > user.generation => g = Newest.generation
      /\ ~(Newest.generation > user.generation) => g = NULL
      /\ Newest.keys_changed_at > user.keys_changed_at =>
            k = Newest.keys_changed_at
      /\ ~(Newest.keys_changed_at > user.keys_changed_at) => k = NULL
  BY <1>5 DEF GenerationUpdate, KeysUpdate, KeysAdvance
<1>8. ~Refused(user, Newest)
  <2>1. ~Missequenced(user, Newest)
    BY <1>5 DEF Missequenced
  <2>2. StateChange(user, Newest) =>
           /\ Newest.client_state \notin user.old_client_states
           /\ g # NULL /\ k # NULL
    <3> HIDE DEF g, k
    <3>1. QED
      BY <1>3, <1>4, <1>5, <1>6, <1>7 DEF StateChange, NULL
  <2>3. QED
    BY <1>5, <2>1, <2>2 DEF Refused
<1>9. ~Behind(Advanced(user, g, k), Newest)
  <2> HIDE DEF g, k
  <2>1. /\ Max2(user.generation, g) <= Newest.generation
        /\ Max2(user.keys_changed_at, k) <= Newest.keys_changed_at
        /\ Max2(user.generation, g) \in Nat
        /\ Max2(user.keys_changed_at, k) \in Nat
    BY <1>3, <1>5, <1>6, <1>7 DEF Max2, NULL
  <2>2. PICK G, K : G = Max2(user.generation, g) /\ K = Max2(user.keys_changed_at, k)
    OBVIOUS
  <2>3. Advanced(user, g, k) =
           [user EXCEPT !.generation = G, !.keys_changed_at = K]
    BY <2>2 DEF Advanced
  <2>4. /\ Advanced(user, g, k).generation = G
        /\ Advanced(user, g, k).keys_changed_at = K
    BY <1>6, <2>3
  <2>5. QED
    BY <1>5, <2>1, <2>2, <2>4 DEF Behind
<1>10. QED
  BY <1>8, <1>9 DEF user, g, k

(* The account's newest credentials are good for a token, unless the       *)
(* account was deleted: they are never behind a row, nor is their client   *)
(* state among the old ones before it is the current one.                  *)
THEOREM NewestClientGetsIn ==
    ASSUME Serial, Comparable, VersionsAdvance, KeysReported
    PROVE  Spec => []NewestClientAccepted
<1>1. IInv /\ SerialInv /\ VersionsInv => NewestClientAccepted
  BY NewestAccepted
<1>2. QED
  BY <1>1, VersionsInvariance, PTL

-----------------------------------------------------------------------------
(* Where operators move a user.                                            *)

(* What the allocate_user script knows of a user in use whom it moves: the *)
(* generation of the current row, then that its own row is the current one. *)
MovingInv(w) ==
    job[w].kind = "move" /\ floor.generation < MAX_GENERATION =>
        /\ job[w].pc \in {"allocate", "insert", "mark", "check", "create"} =>
              /\ users # {}
              /\ job[w].user.generation = CurrentRow(users).generation
        /\ job[w].pc \in {"allocate", "insert", "create"} =>
              \A r \in users : r.created_at <= job[w].since
        /\ job[w].pc = "older" => CurrentRow(users).uid = job[w].user.uid

MovesInv == \A w \in Workers : MovingInv(w)

LEMMA UsersFinite ==
    ASSUME IInv
    PROVE  /\ users \in SUBSET Rows /\ UniqueUids(users) /\ IsFiniteSet(users)
           /\ nextUid + clock \in Nat /\ Bounded(users, nextUid + clock)
<1>1. /\ users \in SUBSET Rows /\ UniqueUids(users) /\ nextUid \in Nat
      /\ clock \in Nat /\ \A r \in users : 0 < r.uid /\ r.uid < nextUid
  BY DEF IInv, TypeOK, TableInv
<1>2. IsFiniteSet(users)
  BY <1>1, TableFinite
<1>3. Bounded(users, nextUid + clock)
  BY DEF IInv, TypeOK, TableInv, Bounded, Rows
<1>4. QED
  BY <1>1, <1>2, <1>3

FiniteTable == users \in SUBSET Rows /\ UniqueUids(users) /\ IsFiniteSet(users)

LEMMA FiniteNext == IInv' => FiniteTable'
<1>1. IInv => FiniteTable
  BY UsersFinite DEF FiniteTable
<1>2. QED
  BY <1>1, PTL

(* Marking rows as replaced leaves the order of the rows alone.            *)
LEMMA MarkingKeepsPlaces ==
    ASSUME NEW rows \in SUBSET Rows, NEW t
    PROVE  /\ SamePlaces(rows, ReplaceUserRecords(rows, t))
           /\ \A u : SamePlaces(rows, ReplaceUserRecord(rows, u, t))
           /\ \A n : SamePlaces(rows, UnassignRows(rows, n, t))
           /\ SamePlaces(rows, rows)
<1>1. \A r \in rows : SamePlace(r, [r EXCEPT !.replaced_at = t])
  BY DEF SamePlace, Rows
<1>2. \A r \in rows : SamePlace(r, r)
  BY DEF SamePlace
<1>3. QED
  BY <1>1, <1>2
     DEF SamePlaces, ReplaceUserRecords, ReplaceUserRecord, UnassignRows

LEMMA PlacesKept ==
    ASSUME IInv, IInv', users # {}, SamePlaces(users, users')
    PROVE  /\ users' # {}
           /\ SamePlace(CurrentRow(users), CurrentRow(users'))
           /\ \A t : (\A r \in users : r.created_at <= t) =>
                        \A r \in users' : r.created_at <= t
<1>1. /\ users' \in SUBSET Rows /\ UniqueUids(users') /\ IsFiniteSet(users')
  BY FiniteNext DEF FiniteTable
<1>2. users' # {} /\ \A s \in users' : \E r \in users : SamePlace(r, s)
  BY DEF SamePlaces
<1>3. SamePlace(CurrentRow(users), CurrentRow(users'))
  BY <1>1, UsersFinite, SamePlacesKeepCurrent
<1>4. QED
  BY <1>2, <1>3 DEF SamePlace

(* A worker that stays where it is, or carries on with the same user dict, *)
(* while rows are only marked.                                             *)
LEMMA MarkingMoves ==
    ASSUME IInv, IInv', NEW w \in Workers, MovingInv(w),
           floor' = floor, SamePlaces(users, users'),
           job'[w].kind = job[w].kind,
           job'[w].user.generation = job[w].user.generation,
           job'[w].user.uid = job[w].user.uid,
           \/ job'[w].pc = job[w].pc /\ job'[w].since = job[w].since
           \/ job[w].pc = "mark" /\ job'[w].pc \in {"mark", "check"}
           \/ /\ job[w].pc = "allocate" /\ job'[w].pc = "insert"
              /\ job'[w].since = job[w].since
    PROVE  MovingInv(w)'
<1> SUFFICES ASSUME job[w].kind = "move", floor.generation < MAX_GENERATION
             PROVE  MovingInv(w)'
  BY DEF MovingInv
<1>1. CASE job'[w].pc \in {"allocate", "insert", "mark", "check", "create"}
  <2>1. /\ users # {} /\ job[w].user.generation = CurrentRow(users).generation
        /\ job'[w].pc \in {"allocate", "insert", "create"} =>
              /\ \A r \in users : r.created_at <= job[w].since
              /\ job'[w].since = job[w].since
    BY <1>1 DEF MovingInv
  <2>2. QED
    BY <1>1, <2>1, PlacesKept DEF MovingInv, SamePlace
<1>2. CASE job'[w].pc = "older"
  <2>1. job[w].pc = "older" /\ CurrentRow(users).uid = job[w].user.uid
    BY <1>2 DEF MovingInv
  <2>2. users # {}
    BY <2>1, JobTypes DEF JobInv, NamesRow
  <2>3. QED
    BY <1>2, <2>1, <2>2, PlacesKept DEF MovingInv, SamePlace
<1>3. QED
  BY <1>1, <1>2 DEF MovingInv

(* No other job than the script's, and none that has ended.                *)
LEMMA NotMoving ==
    ASSUME NEW w \in Workers,
           \/ job'[w].kind # "move"
           \/ job'[w].pc \in {"idle", "error", "granted", "select"}
    PROVE  MovingInv(w)'
BY DEF MovingInv

LEMMA EndedIsNotMoving ==
    ASSUME NEW w \in Workers, IInv, NEW pc, End(w, pc)
    PROVE  MovingInv(w)'
<1>1. job'[w].kind = "token"
  BY DEF End, Ended, IInv, TypeOK
<1>2. QED
  BY <1>1, NotMoving

(* The script's job at each of its steps.                                  *)

LEMMA SelectMoves ==
    ASSUME IInv, NEW w \in Workers, SelectRecords(w) \/ SelectNothing(w)
    PROVE  MovingInv(w)'
<1>1. CASE SelectRecords(w)
  <2> DEFINE row == CurrentRow(users)
             stale == {r \in OldRows(users) : Active(r)}
             stamp == IF stale = {} THEN 0 ELSE row.created_at
  <2>1. users # {} /\ users' = users /\ clock' = clock
    BY <1>1 DEF SelectRecords, table, world
  <2>2. \/ Go(w, "allocate", NodelessUserOf(row), stale, clock, stamp)
        \/ Go(w, AfterRead(stale), UserOf(row), stale, 0, stamp)
    BY <1>1 DEF SelectRecords
  <2>3. /\ UserOf(row).generation = row.generation
        /\ NodelessUserOf(row).generation = row.generation
    BY DEF UserOf, NodelessUserOf
  <2>4. \A r \in users : r.created_at <= clock
    BY DEF IInv, TableInv
  <2>5. AfterRead(stale) \in {"mark", "check"}
    BY DEF AfterRead
  <2> HIDE DEF row, stale, stamp
  <2>6. /\ job'[w].user.generation = row.generation
        /\ \/ job'[w].pc = "allocate" /\ job'[w].since = clock
           \/ job'[w].pc \in {"mark", "check"}
    BY <2>2, <2>3, <2>5, GoIs
  <2>7. QED
    BY <2>1, <2>4, <2>6 DEF MovingInv, row
<1>2. CASE SelectNothing(w)
  <2>1. job \in [Workers -> Jobs]
    BY DEF IInv, TypeOK
  <2>2. \/ \E pc : End(w, pc)
        \/ /\ job[w].kind = "token"
           /\ Go(w, "allocate", NewUser(job[w].claims), {}, clock, 0)
        \/ job' = [job EXCEPT ![w].pc = "allocate", ![w].kind = "place",
                              ![w].user = NewUser(NoClaims),
                              ![w].since = clock]
    BY <1>2 DEF SelectNothing
  <2>3. CASE /\ job[w].kind = "token"
             /\ Go(w, "allocate", NewUser(job[w].claims), {}, clock, 0)
    <3>1. job'[w].kind = "token"
      BY <2>3, GoIs
    <3>2. QED
      BY <3>1, NotMoving
  <2>4. CASE job' = [job EXCEPT ![w].pc = "allocate", ![w].kind = "place",
                                ![w].user = NewUser(NoClaims),
                                ![w].since = clock]
    <3>1. job'[w].kind = "place"
      BY <2>1, <2>4 DEF Jobs
    <3>2. QED
      BY <3>1, NotMoving
  <2>5. QED
    BY <2>2, <2>3, <2>4, EndedIsNotMoving
<1>3. QED
  BY <1>1, <1>2

LEMMA BestNodeMoves ==
    ASSUME IInv, IInv', NEW w \in Workers, MovingInv(w), BestNode(w)
    PROVE  MovingInv(w)'
<1>1. CASE nodes = {} /\ End(w, "error")
  BY <1>1, EndedIsNotMoving
<1>2. ASSUME NEW n \in nodes,
             Go(w, "insert", [job[w].user EXCEPT !.node = n], job[w].stale,
                job[w].since, job[w].stamp)
      PROVE  MovingInv(w)'
  <2>1. [job[w].user EXCEPT !.node = n].generation = job[w].user.generation
        /\ [job[w].user EXCEPT !.node = n].uid = job[w].user.uid
    BY JobTypes DEF Users
  <2>2. /\ job'[w].kind = job[w].kind /\ job'[w].pc = "insert"
        /\ job'[w].user = [job[w].user EXCEPT !.node = n]
        /\ job'[w].since = job[w].since
    BY <1>2, GoIs
  <2>3. /\ job[w].pc = "allocate" /\ floor' = floor
        /\ SamePlaces(users, users')
    BY MarkingKeepsPlaces, JobTypes DEF BestNode, table
  <2>4. QED
    BY <2>1, <2>2, <2>3, MarkingMoves
<1>3. QED
  BY <1>1, <1>2 DEF BestNode

(* The row inserted for a user that is moved is the current one.           *)
LEMMA MovedRow ==
    ASSUME ClockSkew = 0, IInv, NEW w \in Workers, MovingInv(w),
           job[w].kind = "move", floor.generation < MAX_GENERATION,
           job[w].pc \in {"insert", "create"},
           NEW now \in ReadSince(job[w].since),
           users' = CreateUserRecord(users, nextUid, job[w].user.node,
                                     job[w].user, now)
    PROVE  /\ users' # {}
           /\ CurrentRow(users').uid = nextUid
           /\ CurrentRow(users').generation = job[w].user.generation
<1> DEFINE row == [uid |-> nextUid, nodeid |-> job[w].user.node,
                   client_state |-> job[w].user.client_state,
                   generation |-> job[w].user.generation,
                   keys_changed_at |-> job[w].user.keys_changed_at,
                   created_at |-> now, replaced_at |-> NULL]
<1>1. users' = users \cup {row}
  BY DEF CreateUserRecord
<1>2. now \in Nat /\ now >= job[w].since
  BY JobTypes DEF ReadSince, IInv, TypeOK
<1>3. /\ users # {} /\ job[w].user.generation = CurrentRow(users).generation
      /\ \A r \in users : r.created_at <= job[w].since
  BY DEF MovingInv
<1>4. /\ job[w].user \in Users /\ job[w].user.node \in NodeIds
      /\ nextUid \in Nat
  BY JobTypes DEF JobInv, IInv, TypeOK
<1>5. row \in Rows
  BY <1>2, <1>4 DEF Rows, Users
<1>6. \A r \in users : r.uid < row.uid /\ r.created_at <= row.created_at
  <2>1. \A r \in users : r.created_at \in Nat /\ r.uid < nextUid
    BY DEF IInv, TypeOK, TableInv, Rows
  <2>2. job[w].since \in Nat
    BY JobTypes
  <2>3. QED
    BY <1>2, <1>3, <2>1, <2>2
<1>7. row.generation = CurrentRow(users).generation
  BY <1>3
<1>8. row.uid = nextUid /\ row.generation = job[w].user.generation
  OBVIOUS
<1> HIDE DEF row
<1>9. CurrentRow(users \cup {row}) = row
  BY <1>3, <1>5, <1>6, <1>7, UsersFinite, InsertedIsCurrent
<1>10. QED
  BY <1>1, <1>8, <1>9

LEMMA InsertMoves ==
    ASSUME ClockSkew = 0, IInv, NEW w \in Workers, MovingInv(w),
           InsertAllocated(w) \/ CreateReplacement(w)
    PROVE  MovingInv(w)'
<1> SUFFICES ASSUME job'[w].kind = "move", floor'.generation < MAX_GENERATION
             PROVE  MovingInv(w)'
  BY DEF MovingInv
<1>1. floor' = floor
  BY DEF InsertAllocated, CreateReplacement
<1>2. /\ Inserted(job[w].user, nextUid).uid = nextUid
      /\ Inserted(job[w].user, nextUid).generation = job[w].user.generation
  BY JobTypes DEF Inserted, Users
<1>3. CASE InsertAllocated(w)
  <2>1. PICK now \in ReadSince(job[w].since) :
           users' = CreateUserRecord(users, nextUid, job[w].user.node,
                                     job[w].user, now)
    BY <1>3 DEF InsertAllocated
  <2>2. /\ job[w].pc = "insert"
        /\ Go(w, AfterRead(job[w].stale), Inserted(job[w].user, nextUid),
              job[w].stale, 0, job[w].stamp)
    BY <1>3 DEF InsertAllocated
  <2>3. AfterRead(job[w].stale) \in {"mark", "check"}
    BY DEF AfterRead
  <2>4. /\ job'[w].kind = job[w].kind /\ job'[w].pc \in {"mark", "check"}
        /\ job'[w].user = Inserted(job[w].user, nextUid)
    BY <2>2, <2>3, GoIs
  <2>5. QED
    BY <1>1, <1>2, <2>1, <2>2, <2>4, MovedRow DEF MovingInv
<1>4. CASE CreateReplacement(w)
  <2>1. PICK now \in ReadSince(job[w].since) :
           /\ users' = CreateUserRecord(users, nextUid, job[w].user.node,
                                        job[w].user, now)
           /\ Go(w, "older", Inserted(job[w].user, nextUid), {}, 0, now)
    BY <1>4 DEF CreateReplacement
  <2>2. /\ job[w].pc = "create"
        /\ job'[w].kind = job[w].kind /\ job'[w].pc = "older"
        /\ job'[w].user = Inserted(job[w].user, nextUid)
    BY <1>4, <2>1, GoIs DEF CreateReplacement
  <2>3. QED
    BY <1>1, <1>2, <2>1, <2>2, MovedRow DEF MovingInv
<1>5. QED
  BY <1>3, <1>4

LEMMA MarkOldMoves ==
    ASSUME IInv, IInv', NEW w \in Workers, MovingInv(w), MarkOld(w)
    PROVE  MovingInv(w)'
<1> DEFINE row == TopRanked(job[w].stale)
           stale == job[w].stale \ {row}
<1>1. /\ job[w].pc = "mark" /\ floor' = floor
      /\ users' = ReplaceUserRecord(users, row.uid, job[w].stamp)
      /\ Go(w, AfterRead(stale), job[w].user, stale, 0,
            IF stale = {} THEN 0 ELSE job[w].stamp)
  BY DEF MarkOld
<1>2. AfterRead(stale) \in {"mark", "check"}
  BY DEF AfterRead
<1> HIDE DEF row, stale
<1>3. /\ job'[w].kind = job[w].kind /\ job'[w].pc \in {"mark", "check"}
      /\ job'[w].user = job[w].user
  BY <1>1, <1>2, GoIs
<1>4. SamePlaces(users, users')
  BY <1>1, MarkingKeepsPlaces, JobTypes
<1>5. QED
  BY <1>1, <1>3, <1>4, MarkingMoves

LEMMA MoveUserMoves ==
    ASSUME IInv, NEW w \in Workers, MovingInv(w), MoveUser(w)
    PROVE  MovingInv(w)'
<1>1. PICK n \in nodes :
         Go(w, "create", MovedUser(job[w].user, n), {}, clock, 0)
  BY DEF MoveUser
<1>2. /\ job[w].pc = "check" /\ job[w].kind = "move"
      /\ users' = users /\ floor' = floor
  BY DEF MoveUser, Checking, table
<1>3. MovedUser(job[w].user, n).generation = job[w].user.generation
  BY JobTypes DEF MovedUser, Users
<1>4. /\ job'[w].pc = "create" /\ job'[w].since = clock
      /\ job'[w].user.generation = job[w].user.generation
  BY <1>1, <1>3, GoIs
<1>5. \A r \in users : r.created_at <= clock
  BY DEF IInv, TableInv
<1>6. QED
  BY <1>2, <1>4, <1>5 DEF MovingInv

(* A request's or an event's job is not the script's.                      *)
LEMMA RequestIsNotMoving ==
    ASSUME IInv, NEW w \in Workers,
           \/ Reject(w) \/ NoUpdate(w) \/ UpdateInPlace(w)
           \/ BumpGeneration(w) \/ LookupNode(w) \/ ReplaceOlder(w)
    PROVE  MovingInv(w)'
<1>1. ASSUME NEW user, Answer(w, user), job[w].kind = "token"
      PROVE  MovingInv(w)'
  <2>1. CASE Go(w, "granted", user, {}, 0, 0)
    <3>1. job'[w].pc = "granted"
      BY <2>1, GoIs
    <3>2. QED
      BY <3>1, NotMoving
  <2>2. QED
    BY <1>1, <2>1, EndedIsNotMoving DEF Answer
<1>2. CASE Reject(w) \/ BumpGeneration(w)
  BY <1>2, EndedIsNotMoving DEF Reject, BumpGeneration
<1>3. CASE NoUpdate(w) \/ UpdateInPlace(w) \/ ReplaceOlder(w)
  BY <1>1, <1>3 DEF NoUpdate, UpdateInPlace, ReplaceOlder, Checking
<1>4. CASE LookupNode(w)
  <2>1. CASE Go(w, "create", NewStateUser(job[w].user, job[w].claims), {},
                clock, 0)
    <3>1. job'[w].kind = "token"
      BY <1>4, <2>1, GoIs DEF LookupNode, Checking
    <3>2. QED
      BY <3>1, NotMoving
  <2>2. QED
    BY <1>4, <2>1, EndedIsNotMoving DEF LookupNode
<1>5. QED
  BY <1>2, <1>3, <1>4

LEMMA StepMoves ==
    ASSUME ClockSkew = 0, IInv, IInv', NEW w \in Workers, MovingInv(w), Step(w)
    PROVE  MovingInv(w)'
<1>1. CASE Receive(w) \/ ReceiveEvent(w) \/ ReceiveScript(w)
  <2>1. job'[w].pc = "select"
    BY <1>1 DEF Receive, ReceiveEvent, StartEvent, ReceiveScript, Start, IInv,
      TypeOK
  <2>2. QED
    BY <2>1, NotMoving
<1>2. CASE StayPut(w) \/ FinishMove(w) \/ Crash(w)
  BY <1>2, EndedIsNotMoving DEF StayPut, FinishMove, Crash
<1>3. QED
  BY <1>1, <1>2, SelectMoves, BestNodeMoves, InsertMoves, MarkOldMoves,
     MoveUserMoves, RequestIsNotMoving DEF Step

(* Operators and the queue mark rows; after a deletion nothing is claimed. *)
LEMMA EnvironmentMoves ==
    ASSUME IInv, IInv', NEW w \in Workers, MovingInv(w), Environment
    PROVE  MovingInv(w)'
<1>1. job' = job
  BY DEF Environment, Tick, ChangeAccount, RetireUser, UnassignNode,
         DeleteNode, UnassignRemoved
<1>2. CASE RetireUser
  <2>1. floor'.generation = MAX_GENERATION
    BY <1>2 DEF RetireUser, IInv, TypeOK, FloorType
  <2>2. QED
    BY <2>1, MaxGenerationAssumption DEF MovingInv
<1>3. CASE ~RetireUser
  <2>1. floor' = floor
    BY <1>3 DEF Environment, Tick, ChangeAccount, UnassignNode,
                DeleteNode, UnassignRemoved
  <2>2. \/ users' = users
        \/ \E n, now : users' = UnassignRows(users, n, now)
    BY <1>3 DEF Environment, Tick, ChangeAccount, UnassignNode,
                DeleteNode, UnassignRemoved, table
  <2>3. SamePlaces(users, users')
    BY <2>2, MarkingKeepsPlaces, JobTypes
  <2>4. QED
    BY <1>1, <2>1, <2>3, MarkingMoves
<1>4. QED
  BY <1>2, <1>3

LEMMA MovesNext ==
    ASSUME OneAtATime, ClockSkew = 0, IInv, IInv', MovesInv, [Next]_vars
    PROVE  MovesInv'
<1> SUFFICES ASSUME NEW w \in Workers
             PROVE  MovingInv(w)'
  BY DEF MovesInv
<1>1. MovingInv(w)
  BY DEF MovesInv
<1>2. CASE UNCHANGED vars
  BY <1>1, <1>2 DEF vars, table, nodeTable, world, MovingInv
<1>3. CASE Next
  <2>1. \A v \in Workers : Step(v) => Step(w)
    BY DEF OneAtATime
  <2>2. QED
    BY <1>1, <1>3, <2>1, StepMoves, EnvironmentMoves DEF Next
<1>4. QED
  BY <1>2, <1>3

LEMMA MoveFinishes ==
    ASSUME IInv, IInv', NEW w \in Workers, MovingInv(w), FinishMove(w),
           floor.generation < MAX_GENERATION
    PROVE  CurrentRow(users').uid = job[w].user.uid
<1>1. /\ job[w].pc = "older" /\ job[w].kind = "move"
      /\ users' = ReplaceUserRecords(users, job[w].stamp)
  BY DEF FinishMove
<1>2. users # {} /\ CurrentRow(users).uid = job[w].user.uid
  BY <1>1, JobTypes DEF MovingInv, JobInv, NamesRow
<1>3. SamePlaces(users, users')
  BY <1>1, MarkingKeepsPlaces, JobTypes
<1>4. QED
  BY <1>2, <1>3, PlacesKept DEF SamePlace

(* A user in use whom an operator moves is on the node he was moved to,    *)
(* for any rows, also out of get_user's sight, and whatever else operators *)
(* do to nodes meanwhile; with workers that take turns and one clock: a    *)
(* row inserted on a clock that lags ranks below the one it copies.        *)
THEOREM MovesTakeEffect ==
    ASSUME OneAtATime, ClockSkew = 0
    PROVE  Spec => MoveTakesEffect
<1> DEFINE Done == \A w \in Workers :
                      FinishMove(w) /\ floor.generation < MAX_GENERATION =>
                         CurrentRow(users').uid = job[w].user.uid
<1>1. Init => MovesInv
  BY DEF Init, MovesInv, MovingInv, Ended
<1>2. IInv /\ IInv' /\ MovesInv /\ [Next]_vars => MovesInv'
  BY MovesNext
<1>3. IInv /\ IInv' /\ MovesInv => [Done]_vars
  BY MoveFinishes DEF MovesInv
<1>4. QED
  BY <1>1, <1>2, <1>3, Invariance, PTL DEF Spec, MoveTakesEffect

=============================================================================
