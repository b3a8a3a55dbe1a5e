----------------------------- MODULE MaterialsProofs -----------------------------
(***************************************************************************)
(* Theorems about Materials, for any plan, any number of threads, people   *)
(* and materials, and any sequence of requests.                            *)
(***************************************************************************)
EXTENDS Materials, FiniteSetTheorems, TLAPS

Open == {"out", "used"}

(***************************************************************************)
(* What request r does to the issue p, if anything: it opens it or records *)
(* its return.                                                             *)
(***************************************************************************)
Opens(loaded, left, p) == loaded.issue[p] = "none" /\ left.issue[p] \in Open
Closes(loaded, left, p) == loaded.issue[p] = "out" /\ left.issue[p] = "back"

(***************************************************************************)
(* What every handler's decision left, made on the rows loaded, satisfies. *)
(***************************************************************************)
Decision(loaded, left) ==
  /\ \A a \in Assignments : loaded.checkin[a] => left.checkin[a]
  /\ \A p \in Issues : left.issue[p] # "none" => left.checkin[p[1]]
  /\ \A p \in Issues : \/ left.issue[p] = loaded.issue[p]
                       \/ Opens(loaded, left, p)
                       \/ Closes(loaded, left, p)
  /\ \A p, q \in Issues :
       Opens(loaded, left, p) /\ Opens(loaded, left, q) /\ p[2] = q[2] => p = q

\* Threads about to issue material m.
Issuing(m) ==
  {t \in Busy : \E a \in Assignments :
     Opens(request[t].seen, request[t].wanted, <<a, m>>)}

(***************************************************************************)
(* The inductive invariant: requests in flight carry decisions made on     *)
(* rows whose check-in records are still there; and whoever is about to    *)
(* issue a material counts as if the issue were committed.                 *)
(***************************************************************************)
SessionsDecide ==
  \A t \in Busy :
    /\ Decision(request[t].seen, request[t].wanted)
    /\ \A a \in Assignments : request[t].seen.checkin[a] => db.checkin[a]

StockIsBounded ==
  \A m \in Materials :
    /\ db.available[m] <= peak[m]
    /\ Used(m) + Cardinality(Issuing(m)) <= peak[m] + Cardinality(Threads) - 1

IInv == TypeOK /\ References(db) /\ SessionsDecide /\ StockIsBounded

-----------------------------------------------------------------------------
(***************************************************************************)
(* Rows stay rows.                                                         *)
(***************************************************************************)
LEMMA FlushedRows ==
  ASSUME NEW r, r.seen \in Rows, r.wanted \in Rows, db \in Rows
  PROVE  Flushed(r) \in Rows
BY DEF Flushed, Columns, Rows

LEMMA CascadedRows ==
  ASSUME NEW rows \in Rows
  PROVE  Cascaded(rows) \in Rows
BY PlanAssumption DEF Cascaded, Rows

-----------------------------------------------------------------------------
(***************************************************************************)
(* Every handler leaves well-typed rows and a decision as described.       *)
(***************************************************************************)
Decided(t) ==
  \E left \in Rows, given \in SUBSET Issues, taken \in SUBSET Issues,
     overrides \in SUBSET Assignments :
    /\ Handled(t, left, given, taken, overrides)
    /\ Decision(db, left)
    /\ \A p \in Issues : Opens(db, left, p) => InStock(p[2])

LEMMA IssuesArePairs ==
  ASSUME NEW p \in Issues
  PROVE  p[1] \in Assignments /\ p[2] \in Materials /\ p = <<p[1], p[2]>>
BY DEF Issues

LEMMA KeptDesk ==
  ASSUME TypeOK, References(db), NEW left \in Rows,
         \A a \in Assignments : left.checkin[a] = db.checkin[a],
         \A p \in Issues : left.issue[p] = db.issue[p]
  PROVE  /\ Decision(db, left)
         /\ \A p \in Issues : ~ Opens(db, left, p)
<1>1. \A p \in Issues : ~ Opens(db, left, p)
  BY DEF Opens, Open
<1>2. \A p \in Issues : left.issue[p] # "none" => left.checkin[p[1]]
  BY IssuesArePairs DEF References
<1> QED BY <1>1, <1>2 DEF Decision

LEMMA PlannedDecides ==
  ASSUME TypeOK, References(db), NEW t \in Threads, NEW left \in Rows, Planned(t, left),
         \A a \in Assignments : left.checkin[a] = db.checkin[a],
         \A p \in Issues : left.issue[p] = db.issue[p]
  PROVE  Decided(t)
<1>1. /\ Decision(db, left)
      /\ \A p \in Issues : ~ Opens(db, left, p)
  BY KeptDesk
<1>2. Handled(t, left, {}, {}, {})
  BY DEF Planned
<1> QED BY <1>1, <1>2 DEF Decided

LEMMA CheckInDecides ==
  ASSUME TypeOK, References(db), NEW t \in Threads, NEW a \in Assignments,
         NEW selected \in SUBSET Materials, check_in_assignment(t, a, selected)
  PROVE  Decided(t)
<1> DEFINE left == [db EXCEPT !.status[a] = "checked_in", !.checkin[a] = TRUE,
                              !.issue = Issued(a, selected)]
           given == {a} \X (selected \ Consumables)
<1>1. Issued(a, selected) \in [Issues -> IssueStates]
  BY DEF Issued, TypeOK, Rows, IssueStates
<1>2. left \in Rows
  BY <1>1 DEF TypeOK, Rows, Statuses
<1>3. /\ left.issue = Issued(a, selected)
      /\ \A b \in Assignments : left.checkin[b] = IF b = a THEN TRUE ELSE db.checkin[b]
  BY DEF TypeOK, Rows
<1>4. Handled(t, left, given, {}, {})
  BY DEF check_in_assignment
<1>5. given \in SUBSET Issues
  BY DEF Issues
<1> HIDE DEF left, given
<1>6. \A p \in Issues :
        \/ left.issue[p] = db.issue[p]
        \/ /\ p[1] = a /\ p[2] \in selected
           /\ db.issue[p] = "none" /\ left.issue[p] \in Open
  BY <1>3 DEF Issued, Open
<1>7. \A p \in Issues : Opens(db, left, p) => InStock(p[2])
  <2>1. SUFFICES ASSUME NEW p \in Issues, Opens(db, left, p)
                 PROVE  InStock(p[2])
    OBVIOUS
  <2>2. p[1] = a /\ p[2] \in selected /\ db.issue[p] = "none"
    BY <1>6, <2>1 DEF Opens, Open
  <2>3. db.issue[<<a, p[2]>>] = "none"
    BY <2>2, IssuesArePairs
  <2> QED BY <2>2, <2>3 DEF check_in_assignment
<1>8. Decision(db, left)
  <2>0. \A p \in Issues : db.issue[p] # "none" => db.checkin[p[1]]
    BY IssuesArePairs DEF References
  <2>1. \A p \in Issues : left.issue[p] # "none" => left.checkin[p[1]]
    BY <1>3, <1>6, <2>0, IssuesArePairs
  <2>2. \A p, q \in Issues :
          Opens(db, left, p) /\ Opens(db, left, q) /\ p[2] = q[2] => p = q
    BY <1>6, IssuesArePairs DEF Opens, Open
  <2> QED BY <1>3, <1>6, <2>1, <2>2 DEF Decision, Opens
<1> QED BY <1>2, <1>4, <1>5, <1>7, <1>8 DEF Decided

LEMMA CheckOutDecides ==
  ASSUME TypeOK, References(db), NEW t \in Threads, NEW a \in Assignments,
         check_out_assignment(t, a)
  PROVE  Decided(t)
<1> DEFINE left == [db EXCEPT !.status[a] = "attended", !.issue = Returned(a)]
           taken == {p \in Issues : p[1] = a /\ db.issue[p] = "out"}
<1>1. Returned(a) \in [Issues -> IssueStates]
  BY DEF Returned, TypeOK, Rows, IssueStates
<1>2. left \in Rows
  BY <1>1 DEF TypeOK, Rows, Statuses
<1>3. left.issue = Returned(a) /\ left.checkin = db.checkin
  BY DEF TypeOK, Rows
<1>4. Handled(t, left, {}, taken, {})
  BY DEF check_out_assignment
<1>5. taken \in SUBSET Issues
  OBVIOUS
<1> HIDE DEF left, taken
<1>6. \A p \in Issues :
        \/ left.issue[p] = db.issue[p]
        \/ db.issue[p] = "out" /\ left.issue[p] = "back"
  BY <1>3 DEF Returned
<1>7. \A p \in Issues : ~ Opens(db, left, p)
  BY <1>6 DEF Opens, Open
<1>8. \A p \in Issues : left.issue[p] # "none" => left.checkin[p[1]]
  BY <1>3, <1>6, IssuesArePairs DEF References
<1>9. Decision(db, left)
  BY <1>3, <1>6, <1>7, <1>8 DEF Decision, Closes
<1> QED BY <1>2, <1>4, <1>5, <1>7, <1>9 DEF Decided

LEMMA StatusDecides ==
  ASSUME TypeOK, References(db), NEW t \in Threads, NEW a \in Assignments,
         NEW status \in Statuses, change_assignment_status(t, a, status)
  PROVE  Decided(t)
<1> DEFINE left == [db EXCEPT !.status[a] = status]
           overrides == IF db.checkin[a] THEN {a} ELSE {}
<1>1. /\ left \in Rows
      /\ left.issue = db.issue /\ left.checkin = db.checkin
  BY DEF TypeOK, Rows
<1>2. Handled(t, left, {}, {}, overrides) /\ overrides \in SUBSET Assignments
  BY DEF change_assignment_status
<1> HIDE DEF left, overrides
<1>3. /\ Decision(db, left)
      /\ \A p \in Issues : ~ Opens(db, left, p)
  BY <1>1, KeptDesk
<1> QED BY <1>1, <1>2, <1>3 DEF Decided

LEMMA PlanningDecides ==
  ASSUME TypeOK, References(db), NEW t \in Threads, PlanningStep(t)
  PROVE  Decided(t)
<1>1. ASSUME NEW k \in Teams, create_team(t, k)
      PROVE  Decided(t)
  <2> DEFINE left == [db EXCEPT !.team[k] = TRUE]
  <2>1. /\ left \in Rows
        /\ left.checkin = db.checkin /\ left.issue = db.issue
    BY DEF TypeOK, Rows
  <2>2. Planned(t, left)
    BY <1>1 DEF create_team
  <2> HIDE DEF left
  <2> QED BY <2>1, <2>2, PlannedDecides
<1>2. ASSUME NEW k \in Teams, delete_empty_team(t, k)
      PROVE  Decided(t)
  <2> DEFINE left == [db EXCEPT !.team[k] = FALSE,
       !.role = [r \in Roles |-> db.role[r] /\ TeamOfRole[r] # k],
       !.material = [m \in Materials |-> db.material[m] /\ TeamOfMaterial[m] # k]]
  <2>1. /\ left \in Rows
        /\ left.checkin = db.checkin /\ left.issue = db.issue
    BY DEF TypeOK, Rows
  <2>2. Planned(t, left)
    BY <1>2 DEF delete_empty_team
  <2> HIDE DEF left
  <2> QED BY <2>1, <2>2, PlannedDecides
<1>3. ASSUME NEW r \in Roles, create_role(t, r)
      PROVE  Decided(t)
  <2> DEFINE left == [db EXCEPT !.role[r] = TRUE]
  <2>1. /\ left \in Rows
        /\ left.checkin = db.checkin /\ left.issue = db.issue
    BY DEF TypeOK, Rows
  <2>2. Planned(t, left)
    BY <1>3 DEF create_role
  <2> HIDE DEF left
  <2> QED BY <2>1, <2>2, PlannedDecides
<1>4. ASSUME NEW r \in Roles, delete_unused_role(t, r)
      PROVE  Decided(t)
  <2> DEFINE left == [db EXCEPT !.role[r] = FALSE]
  <2>1. /\ left \in Rows
        /\ left.checkin = db.checkin /\ left.issue = db.issue
    BY DEF TypeOK, Rows
  <2>2. Planned(t, left)
    BY <1>4 DEF delete_unused_role
  <2> HIDE DEF left
  <2> QED BY <2>1, <2>2, PlannedDecides
<1>5. ASSUME NEW m \in Materials, NEW available \in Quantities,
             create_team_material(t, m, available)
      PROVE  Decided(t)
  <2> DEFINE left == [db EXCEPT !.material[m] = TRUE, !.active[m] = TRUE,
                                   !.available[m] = available]
  <2>1. /\ left \in Rows
        /\ left.checkin = db.checkin /\ left.issue = db.issue
    BY SizeAssumption DEF TypeOK, Rows
  <2>2. Planned(t, left)
    BY <1>5 DEF create_team_material
  <2> HIDE DEF left
  <2> QED BY <2>1, <2>2, PlannedDecides
<1>6. ASSUME NEW m \in Materials, NEW available \in Quantities, NEW active \in BOOLEAN,
             update_team_material(t, m, available, active)
      PROVE  Decided(t)
  <2> DEFINE left == [db EXCEPT !.available[m] = available, !.active[m] = active]
  <2>1. /\ left \in Rows
        /\ left.checkin = db.checkin /\ left.issue = db.issue
    BY SizeAssumption DEF TypeOK, Rows
  <2>2. Planned(t, left)
    BY <1>6 DEF update_team_material
  <2> HIDE DEF left
  <2> QED BY <2>1, <2>2, PlannedDecides
<1>7. ASSUME NEW m \in Materials, delete_unused_team_material(t, m)
      PROVE  Decided(t)
  <2> DEFINE left == [db EXCEPT !.material[m] = FALSE]
  <2>1. /\ left \in Rows
        /\ left.checkin = db.checkin /\ left.issue = db.issue
    BY DEF TypeOK, Rows
  <2>2. Planned(t, left)
    BY <1>7 DEF delete_unused_team_material
  <2> HIDE DEF left
  <2> QED BY <2>1, <2>2, PlannedDecides
<1>8. ASSUME NEW s \in Shifts, NEW r \in Roles \cup {NoRole}, edit_shift_submit(t, s, r)
      PROVE  Decided(t)
  <2> DEFINE left == [db EXCEPT !.shiftRole[s] = r]
  <2>1. /\ left \in Rows
        /\ left.checkin = db.checkin /\ left.issue = db.issue
    BY DEF TypeOK, Rows
  <2>2. Planned(t, left)
    BY <1>8 DEF edit_shift_submit
  <2> HIDE DEF left
  <2> QED BY <2>1, <2>2, PlannedDecides
<1> QED BY <1>1, <1>2, <1>3, <1>4, <1>5, <1>6, <1>7, <1>8 DEF PlanningStep

LEMMA StepDecides ==
  ASSUME TypeOK, References(db), NEW t \in Threads,
         DeskStep(t) \/ StatusStep(t) \/ PlanningStep(t)
  PROVE  Decided(t)
BY CheckInDecides, CheckOutDecides, StatusDecides, PlanningDecides
   DEF DeskStep, StatusStep

-----------------------------------------------------------------------------
(***************************************************************************)
(* Counting.                                                               *)
(***************************************************************************)
LEMMA ThreadsAreFew ==
  ASSUME NEW S \in SUBSET Threads
  PROVE  /\ IsFiniteSet(S)
         /\ Cardinality(S) \in Nat
         /\ Cardinality(S) <= Cardinality(Threads)
         /\ Cardinality(Threads) \in Nat /\ Cardinality(Threads) >= 1
<1>1. Cardinality(Threads) \in Nat /\ Cardinality(Threads) # 0
  BY SizeAssumption, FS_CardinalityType, FS_EmptySet
<1> QED BY <1>1, SizeAssumption, FS_Subset, FS_CardinalityType

LEMMA ThreadsExceptOne ==
  ASSUME NEW S \in SUBSET Threads, NEW t \in Threads, t \notin S
  PROVE  Cardinality(S) <= Cardinality(Threads) - 1
<1>1. S \in SUBSET (Threads \ {t})
  OBVIOUS
<1>2. IsFiniteSet(Threads \ {t}) /\ Cardinality(Threads \ {t}) = Cardinality(Threads) - 1
  BY SizeAssumption, FS_RemoveElement
<1> QED BY <1>1, <1>2, FS_Subset

LEMMA OneMore ==
  ASSUME NEW S, NEW T, NEW x, IsFiniteSet(S), T \subseteq S \cup {x}
  PROVE  Cardinality(T) <= Cardinality(S) + 1
<1>1. /\ IsFiniteSet(S \cup {x})
      /\ Cardinality(S \cup {x}) = Cardinality(S) \/ Cardinality(S \cup {x}) = Cardinality(S) + 1
  BY FS_AddElement
<1>2. Cardinality(S) \in Nat
  BY FS_CardinalityType
<1>3. Cardinality(T) \in Nat /\ Cardinality(T) <= Cardinality(S \cup {x})
  BY <1>1, FS_Subset, FS_CardinalityType
<1> QED BY <1>1, <1>2, <1>3

LEMMA UsedIsNatural ==
  ASSUME NEW m \in Materials
  PROVE  Used(m) \in Nat
<1>1. IsFiniteSet({a \in Assignments : db.issue[<<a, m>>] \in {"out", "used"}})
  BY SizeAssumption, FS_Subset
<1> QED BY <1>1, FS_CardinalityType DEF Used

LEMMA UsedIsNaturalNext ==
  ASSUME NEW m \in Materials
  PROVE  Used(m)' \in Nat
<1>1. IsFiniteSet({a \in Assignments : db'.issue[<<a, m>>] \in {"out", "used"}})
  BY SizeAssumption, FS_Subset
<1> QED BY <1>1, FS_CardinalityType DEF Used

-----------------------------------------------------------------------------
(***************************************************************************)
(* A handler that ran keeps the invariant.                                 *)
(***************************************************************************)
LEMMA HandlersKeepInvariant ==
  ASSUME IInv, NEW t \in Threads, Decided(t)
  PROVE  IInv'
<1> USE DEF IInv
<1>1. PICK left \in Rows, given \in SUBSET Issues, taken \in SUBSET Issues,
           overrides \in SUBSET Assignments :
        /\ Handled(t, left, given, taken, overrides)
        /\ Decision(db, left)
        /\ \A p \in Issues : Opens(db, left, p) => InStock(p[2])
  BY DEF Decided
<1> DEFINE session == [seen |-> db, wanted |-> left, given |-> given, taken |-> taken,
                       overrides |-> overrides]
<1>2. /\ t \notin Busy
      /\ request' = [u \in Busy \cup {t} |-> IF u = t THEN session ELSE request[u]]
      /\ UNCHANGED <<db, hands, peak, stale, overridden>>
  BY <1>1 DEF Handled
<1>3. session \in [seen: Rows, wanted: Rows, given: SUBSET Issues,
                   taken: SUBSET Issues, overrides: SUBSET Assignments]
  BY <1>1 DEF TypeOK
<1>4. session.seen = db /\ session.wanted = left
  OBVIOUS
<1> HIDE DEF session
<1>5. /\ Busy' = Busy \cup {t}
      /\ request'[t] = session
      /\ \A u \in Busy : request'[u] = request[u]
  BY <1>2 DEF Busy
<1>6. TypeOK'
  BY <1>2, <1>3, <1>5 DEF TypeOK
<1>7. References(db)'
  BY <1>2 DEF References
<1>8. SessionsDecide'
  BY <1>1, <1>2, <1>4, <1>5 DEF SessionsDecide, Decision, Opens, Closes
<1>9. ASSUME NEW m \in Materials
      PROVE  /\ db'.available[m] <= peak'[m]
             /\ Used(m)' + Cardinality(Issuing(m)') <= peak'[m] + Cardinality(Threads) - 1
  <2>1. Used(m)' = Used(m) /\ UNCHANGED peak /\ db'.available[m] <= peak'[m]
    BY <1>2 DEF Used, StockIsBounded
  <2>2. CASE \E a \in Assignments : Opens(db, left, <<a, m>>)
    <3>0. PICK a \in Assignments : Opens(db, left, <<a, m>>)
      BY <2>2
    <3>1. Used(m) < db.available[m]
      <4>1. <<a, m>> \in Issues /\ <<a, m>>[2] = m
        BY DEF Issues
      <4>2. InStock(<<a, m>>[2])
        BY <1>1, <3>0, <4>1
      <4> QED BY <4>1, <4>2 DEF InStock
    <3>2. Used(m) + 1 <= peak[m] /\ peak[m] \in Nat
      BY <3>1, UsedIsNatural DEF StockIsBounded, TypeOK, Rows
    <3>3. Issuing(m)' \in SUBSET Threads
      BY <1>6 DEF Issuing, TypeOK
    <3>4. /\ Cardinality(Issuing(m)') <= Cardinality(Threads)
          /\ Cardinality(Issuing(m)') \in Nat /\ Cardinality(Threads) \in Nat
      BY <3>3, ThreadsAreFew
    <3> QED BY <2>1, <3>2, <3>4, UsedIsNatural
  <2>3. CASE \A a \in Assignments : ~ Opens(db, left, <<a, m>>)
    <3>1. Issuing(m)' = Issuing(m)
      BY <1>2, <1>4, <1>5, <2>3 DEF Issuing
    <3> QED BY <2>1, <3>1 DEF StockIsBounded
  <2> QED BY <2>2, <2>3
<1> QED BY <1>6, <1>7, <1>8, <1>9 DEF StockIsBounded

-----------------------------------------------------------------------------
(***************************************************************************)
(* A commit keeps the invariant. First what it does to the records of      *)
(* check-ins and issues, which nothing cascades to.                        *)
(***************************************************************************)
LEMMA CommittedRecords ==
  ASSUME IInv, NEW t \in Threads, Commit(t)
  PROVE  LET r == request[t] IN
         /\ t \in Busy /\ r.seen \in Rows /\ r.wanted \in Rows
         /\ Flushed(r) \in Rows /\ db' \in Rows
         /\ db'.issue = Flushed(r).issue
         /\ db'.checkin = Flushed(r).checkin
         /\ \A a \in Assignments :
              db'.checkin[a] <=> db.checkin[a] \/ r.wanted.checkin[a]
         /\ \A p \in Issues :
              db'.issue[p] = IF r.wanted.issue[p] = r.seen.issue[p] THEN db.issue[p]
                             ELSE r.wanted.issue[p]
<1> DEFINE r == request[t]
<1>1. t \in Busy /\ db' = Cascaded(Flushed(r))
  BY DEF Commit
<1>2. r.seen \in Rows /\ r.wanted \in Rows /\ db \in Rows
  BY <1>1 DEF IInv, TypeOK
<1>3. \A a \in Assignments : /\ r.seen.checkin[a] => r.wanted.checkin[a]
                             /\ r.seen.checkin[a] => db.checkin[a]
  BY <1>1 DEF IInv, SessionsDecide, Decision
<1> HIDE DEF r
<1>4. Flushed(r) \in Rows
  BY <1>2, FlushedRows
<1>5. db' \in Rows
  BY <1>1, <1>4, CascadedRows
<1>6. db'.issue = Flushed(r).issue /\ db'.checkin = Flushed(r).checkin
  BY <1>1, <1>4 DEF Cascaded, Rows
<1>7. /\ \A a \in Assignments : Flushed(r).checkin[a] =
           IF r.wanted.checkin[a] = r.seen.checkin[a] THEN db.checkin[a]
           ELSE r.wanted.checkin[a]
      /\ \A p \in Issues : Flushed(r).issue[p] =
           IF r.wanted.issue[p] = r.seen.issue[p] THEN db.issue[p]
           ELSE r.wanted.issue[p]
  BY <1>2 DEF Flushed, Columns, Rows
<1>8. \A a \in Assignments : /\ r.seen.checkin[a] \in BOOLEAN
                             /\ r.wanted.checkin[a] \in BOOLEAN
                             /\ db.checkin[a] \in BOOLEAN
  BY <1>2 DEF Rows
<1>9. \A a \in Assignments :
        Flushed(r).checkin[a] <=> db.checkin[a] \/ r.wanted.checkin[a]
  BY <1>3, <1>7, <1>8
<1> QED BY <1>1, <1>2, <1>4, <1>5, <1>6, <1>7, <1>9 DEF r

LEMMA CommitKeepsReferences ==
  ASSUME IInv, NEW t \in Threads, Commit(t)
  PROVE  References(db)'
<1> DEFINE r == request[t]
<1>1. /\ t \in Busy
      /\ db' = Cascaded(Flushed(r))
      /\ Accepted(r)
  BY DEF Commit
<1>2. /\ Flushed(r) \in Rows /\ db' \in Rows
      /\ db'.issue = Flushed(r).issue
      /\ \A a \in Assignments : db'.checkin[a] <=> db.checkin[a] \/ r.wanted.checkin[a]
      /\ \A p \in Issues : db'.issue[p] =
           IF r.wanted.issue[p] = r.seen.issue[p] THEN db.issue[p] ELSE r.wanted.issue[p]
  BY CommittedRecords
<1>3. \A p \in Issues : r.wanted.issue[p] # "none" => r.wanted.checkin[p[1]]
  BY <1>1 DEF IInv, SessionsDecide, Decision
<1> HIDE DEF r
<1>4. \A x \in Roles : db'.role[x] => db'.team[TeamOfRole[x]]
  BY <1>1, <1>2 DEF Cascaded, Rows
<1>5. \A m \in Materials : db'.material[m] => db'.team[TeamOfMaterial[m]]
  BY <1>1, <1>2 DEF Cascaded, Rows
<1>6. \A s \in Shifts : db'.shiftRole[s] # NoRole => db'.role[db'.shiftRole[s]]
  BY <1>1, <1>2 DEF Cascaded, Rows
<1>7. ASSUME NEW a \in Assignments, NEW m \in Materials, db'.issue[<<a, m>>] # "none"
      PROVE  db'.checkin[a] /\ db'.material[m]
  <2>1. <<a, m>> \in Issues /\ <<a, m>>[1] = a
    BY DEF Issues
  <2>2. db'.material[m]
    BY <1>1, <1>2, <1>7 DEF Accepted, IssuesKeepMaterial
  <2>3. db.issue[<<a, m>>] # "none" \/ r.wanted.issue[<<a, m>>] # "none"
    BY <1>2, <1>7, <2>1
  <2>4. db.issue[<<a, m>>] # "none" => db.checkin[a]
    BY DEF IInv, References
  <2>5. r.wanted.issue[<<a, m>>] # "none" => r.wanted.checkin[a]
    BY <1>3, <2>1
  <2> QED BY <1>2, <2>2, <2>3, <2>4, <2>5
<1> QED BY <1>4, <1>5, <1>6, <1>7 DEF References

LEMMA CommitKeepsSessions ==
  ASSUME IInv, NEW t \in Threads, Commit(t)
  PROVE  SessionsDecide'
<1>1. /\ Busy' = Busy \ {t}
      /\ \A u \in Busy \ {t} : request'[u] = request[u]
  BY DEF Commit, Busy
<1>2. \A a \in Assignments : db.checkin[a] => db'.checkin[a]
  BY CommittedRecords
<1> QED BY <1>1, <1>2 DEF SessionsDecide, IInv

LEMMA CommitKeepsType ==
  ASSUME IInv, NEW t \in Threads, Commit(t)
  PROVE  TypeOK'
<1>1. db' \in Rows /\ t \in Busy
  BY CommittedRecords
<1>2. /\ Busy' = Busy \ {t}
      /\ request' \in [Busy' -> [seen: Rows, wanted: Rows, given: SUBSET Issues,
                                 taken: SUBSET Issues, overrides: SUBSET Assignments]]
  BY DEF Commit, Busy, IInv, TypeOK
<1>3. request[t].given \in SUBSET Issues /\ request[t].overrides \in SUBSET Assignments
  BY <1>1 DEF IInv, TypeOK
<1>4. peak' \in [Materials -> Nat]
  <2>1. \A m \in Materials : db'.available[m] \in Nat /\ peak[m] \in Nat
    BY <1>1 DEF Rows, IInv, TypeOK
  <2> QED BY <2>1 DEF Commit, Larger
<1>5. hands' \subseteq Issues /\ overridden' \subseteq Assignments /\ stale' \in BOOLEAN
  BY <1>3 DEF Commit, IInv, TypeOK
<1> QED BY <1>1, <1>2, <1>4, <1>5 DEF IInv, TypeOK

(***************************************************************************)
(* A commit opens at most one issue of a material, and then its thread was *)
(* counted before.                                                         *)
(***************************************************************************)
LEMMA CommitIssuesOne ==
  ASSUME IInv, NEW t \in Threads, Commit(t), NEW m \in Materials
  PROVE  \/ /\ t \notin Issuing(m)
            /\ Used(m)' <= Used(m)
         \/ /\ t \in Issuing(m)
            /\ Used(m)' <= Used(m) + 1
<1> DEFINE r == request[t]
           now == {a \in Assignments : db.issue[<<a, m>>] \in Open}
           then == {a \in Assignments : db'.issue[<<a, m>>] \in Open}
<1>1. /\ t \in Busy
      /\ \A p \in Issues : db'.issue[p] =
           IF r.wanted.issue[p] = r.seen.issue[p] THEN db.issue[p] ELSE r.wanted.issue[p]
  BY CommittedRecords
<1>2. Decision(r.seen, r.wanted)
  BY <1>1 DEF IInv, SessionsDecide
<1>3. Used(m) = Cardinality(now) /\ Used(m)' = Cardinality(then)
  BY DEF Used, Open
<1>4. t \in Issuing(m) <=> \E a \in Assignments : Opens(r.seen, r.wanted, <<a, m>>)
  BY <1>1 DEF Issuing
<1> HIDE DEF r
<1>5. \A a \in Assignments : <<a, m>> \in Issues /\ <<a, m>>[2] = m
  BY DEF Issues
<1>6. \A a \in then \ now : Opens(r.seen, r.wanted, <<a, m>>)
  BY <1>1, <1>2, <1>5 DEF Decision, Closes, Open
<1>7. IsFiniteSet(now) /\ IsFiniteSet(then) /\ Cardinality(now) \in Nat
  BY SizeAssumption, FS_Subset, FS_CardinalityType
<1>8. CASE \A a \in Assignments : ~ Opens(r.seen, r.wanted, <<a, m>>)
  <2>1. then \subseteq now
    BY <1>6, <1>8
  <2>2. Cardinality(then) <= Cardinality(now)
    BY <1>7, <2>1, FS_Subset
  <2> QED BY <1>3, <1>4, <1>8, <2>2
<1>9. CASE \E a \in Assignments : Opens(r.seen, r.wanted, <<a, m>>)
  <2>1. PICK b \in Assignments : Opens(r.seen, r.wanted, <<b, m>>)
    BY <1>9
  <2>2. \A a \in Assignments : Opens(r.seen, r.wanted, <<a, m>>) => a = b
    BY <1>2, <1>5, <2>1 DEF Decision
  <2>3. then \subseteq now \cup {b}
    BY <1>6, <2>2
  <2>4. Cardinality(then) <= Cardinality(now) + 1
    <3> HIDE DEF now, then
    <3> QED BY <1>7, <2>3, OneMore
  <2> QED BY <1>3, <1>4, <1>9, <2>4
<1> QED BY <1>8, <1>9

(***************************************************************************)
(* A commit leaves the request's place among those about to issue free.    *)
(***************************************************************************)
LEMMA CommitFreesThread ==
  ASSUME IInv, NEW t \in Threads, NEW m \in Materials, t \in Busy,
         request' = [u \in Busy \ {t} |-> request[u]]
  PROVE  Issuing(m)' = Issuing(m) \ {t}
BY DEF Issuing, Busy

LEMMA CommitKeepsStock ==
  ASSUME IInv, NEW t \in Threads, Commit(t)
  PROVE  StockIsBounded'
<1>1. /\ t \in Busy /\ request' = [u \in Busy \ {t} |-> request[u]]
      /\ peak' = [m \in Materials |->
           IF db'.material[m] THEN Larger(peak[m], db'.available[m]) ELSE 0]
  BY DEF Commit
<1>2. SUFFICES ASSUME NEW m \in Materials
               PROVE  /\ db'.available[m] <= peak'[m]
                      /\ Used(m)' + Cardinality(Issuing(m)')
                           <= peak'[m] + Cardinality(Threads) - 1
  BY DEF StockIsBounded
<1>3. Issuing(m) \in SUBSET Threads /\ Issuing(m)' = Issuing(m) \ {t}
  BY <1>1, CommitFreesThread DEF Issuing, IInv, TypeOK
<1>4. /\ peak[m] \in Nat /\ db'.available[m] \in Nat
      /\ peak'[m] = IF db'.material[m] THEN Larger(peak[m], db'.available[m]) ELSE 0
  BY <1>1, CommittedRecords DEF IInv, TypeOK, Rows
<1>5. CASE db'.material[m]
  <2>1. peak'[m] \in Nat /\ peak'[m] >= peak[m] /\ peak'[m] >= db'.available[m]
    BY <1>4, <1>5 DEF Larger
  <2>2. Used(m)' + Cardinality(Issuing(m)') <= Used(m) + Cardinality(Issuing(m))
    <3>1. /\ IsFiniteSet(Issuing(m)) /\ Cardinality(Issuing(m)) \in Nat
          /\ Cardinality(Issuing(m) \ {t}) \in Nat
      BY <1>3, ThreadsAreFew
    <3>2. Used(m)' \in Nat
      BY UsedIsNaturalNext
    <3>3. CASE t \notin Issuing(m) /\ Used(m)' <= Used(m)
      <4>1. Issuing(m) \ {t} = Issuing(m)
        BY <3>3
      <4> QED BY <1>3, <3>1, <3>2, <3>3, <4>1, UsedIsNatural
    <3>4. CASE t \in Issuing(m) /\ Used(m)' <= Used(m) + 1
      <4>1. Cardinality(Issuing(m) \ {t}) = Cardinality(Issuing(m)) - 1
        BY <3>1, <3>4, FS_RemoveElement
      <4> QED BY <1>3, <3>1, <3>2, <3>4, <4>1, UsedIsNatural
    <3> QED BY <3>3, <3>4, CommitIssuesOne
  <2>3. Used(m) + Cardinality(Issuing(m)) <= peak[m] + Cardinality(Threads) - 1
    BY DEF IInv, StockIsBounded
  <2>4. /\ Cardinality(Issuing(m)) \in Nat /\ Cardinality(Issuing(m)') \in Nat
        /\ Cardinality(Threads) \in Nat
    BY <1>3, ThreadsAreFew
  <2> QED BY <1>4, <2>1, <2>2, <2>3, <2>4, UsedIsNatural, UsedIsNaturalNext
<1>6. CASE ~ db'.material[m]
  <2>1. db'.available[m] = 0 /\ peak'[m] = 0
    <3>1. db' = Cascaded(Flushed(request[t])) /\ Flushed(request[t]) \in Rows
      BY CommittedRecords DEF Commit
    <3> QED BY <1>4, <1>6, <3>1 DEF Cascaded, Rows
  <2>2. Used(m)' = 0
    <3>1. \A a \in Assignments : db'.issue[<<a, m>>] = "none"
      BY <1>6, CommitKeepsReferences DEF References
    <3>2. {a \in Assignments : db'.issue[<<a, m>>] \in {"out", "used"}} = {}
      BY <3>1
    <3> QED BY <3>2, FS_EmptySet DEF Used
  <2>3. Cardinality(Issuing(m)') <= Cardinality(Threads) - 1
    <3>1. Issuing(m) \ {t} \in SUBSET Threads /\ t \notin Issuing(m) \ {t}
      BY <1>3
    <3> QED BY <1>3, <3>1, ThreadsExceptOne
  <2> QED BY <1>3, <2>1, <2>2, <2>3, ThreadsAreFew
<1> QED BY <1>5, <1>6

LEMMA CommitKeepsInvariant ==
  ASSUME IInv, NEW t \in Threads, Commit(t)
  PROVE  IInv'
BY CommitKeepsType, CommitKeepsReferences, CommitKeepsSessions, CommitKeepsStock DEF IInv

LEMMA RefusalKeepsInvariant ==
  ASSUME IInv, NEW t \in Threads, Refuse(t)
  PROVE  IInv'
<1> USE DEF IInv
<1>1. /\ t \in Busy /\ request' = [u \in Busy \ {t} |-> request[u]]
      /\ UNCHANGED <<db, hands, peak, stale, overridden>>
  BY DEF Refuse
<1>2. /\ Busy' = Busy \ {t}
      /\ \A u \in Busy \ {t} : request'[u] = request[u]
  BY <1>1 DEF Busy
<1>3. TypeOK'
  BY <1>1, <1>2 DEF TypeOK
<1>4. References(db)' /\ SessionsDecide'
  BY <1>1, <1>2 DEF References, SessionsDecide
<1>5. ASSUME NEW m \in Materials
      PROVE  /\ db'.available[m] <= peak'[m]
             /\ Used(m)' + Cardinality(Issuing(m)') <= peak'[m] + Cardinality(Threads) - 1
  <2>1. Used(m)' = Used(m) /\ peak' = peak /\ db' = db /\ peak[m] \in Nat
    BY <1>1 DEF Used, TypeOK
  <2>2. Issuing(m) \in SUBSET Threads /\ Issuing(m)' = Issuing(m) \ {t}
    BY <1>1, CommitFreesThread DEF Issuing, TypeOK
  <2>3. /\ Cardinality(Issuing(m)') <= Cardinality(Issuing(m))
        /\ Cardinality(Issuing(m)') \in Nat /\ Cardinality(Issuing(m)) \in Nat
        /\ Cardinality(Threads) \in Nat
    <3>1. IsFiniteSet(Issuing(m)) /\ Issuing(m) \ {t} \in SUBSET Issuing(m)
      BY <2>2, ThreadsAreFew
    <3>2. Cardinality(Issuing(m) \ {t}) <= Cardinality(Issuing(m))
      BY <3>1, FS_Subset
    <3> QED BY <2>2, <3>2, ThreadsAreFew
  <2> QED BY <2>1, <2>3, UsedIsNatural DEF StockIsBounded
<1> QED BY <1>3, <1>4, <1>5 DEF StockIsBounded

-----------------------------------------------------------------------------
LEMMA InitInvariant ==
  ASSUME Init
  PROVE  IInv
<1>1. /\ db \in Rows /\ References(db)
      /\ \A p \in Issues : db.issue[p] = "none"
      /\ Busy = {} /\ hands = {} /\ peak = db.available /\ stale = FALSE /\ overridden = {}
  <2>1. db \in Rows /\ \A p \in Issues : db.issue[p] = "none"
    <3>1. PICK team \in SUBSET Teams, role \in SUBSET Roles, material \in SUBSET Materials,
               active \in SUBSET Materials,
               available \in [Materials -> Quantities \cup {0}],
               shiftRole \in [Shifts -> Roles \cup {NoRole}],
               status \in [Assignments -> {"confirmed", "other"}] :
            db = Plan(team, role, material, active, available, shiftRole, status)
      BY DEF Init
    <3>2. available \in [Materials -> Nat]
      <4>1. \A i \in Quantities \cup {0} : i \in Nat
        BY SizeAssumption
      <4> QED BY <4>1
    <3>3. status \in [Assignments -> Statuses]
      BY DEF Statuses
    <3> QED BY <3>1, <3>2, <3>3 DEF Plan, Rows, IssueStates
  <2>2. Busy = {}
    BY DEF Init, Busy
  <2> QED BY <2>1, <2>2 DEF Init
<1>2. TypeOK
  BY <1>1 DEF TypeOK, Rows, Init, Busy
<1>3. SessionsDecide
  BY <1>1 DEF SessionsDecide
<1>4. ASSUME NEW m \in Materials
      PROVE  /\ db.available[m] <= peak[m]
             /\ Used(m) + Cardinality(Issuing(m)) <= peak[m] + Cardinality(Threads) - 1
  <2>1. {a \in Assignments : db.issue[<<a, m>>] \in {"out", "used"}} = {} /\ Issuing(m) = {}
    BY <1>1 DEF Issuing, Issues
  <2>2. Used(m) = 0 /\ Cardinality(Issuing(m)) = 0
    BY <2>1, FS_EmptySet DEF Used
  <2>3. Cardinality(Threads) \in Nat /\ Cardinality(Threads) >= 1
    <3>1. {} \in SUBSET Threads
      OBVIOUS
    <3> QED BY <3>1, ThreadsAreFew
  <2>4. peak[m] \in Nat /\ peak[m] = db.available[m]
    BY <1>1 DEF Rows
  <2> QED BY <2>2, <2>3, <2>4
<1> QED BY <1>1, <1>2, <1>3, <1>4 DEF IInv, StockIsBounded

LEMMA NextKeepsInvariant ==
  ASSUME IInv, [Next]_deskVars
  PROVE  IInv'
<1>1. ASSUME NEW t \in Threads, DeskStep(t) \/ StatusStep(t) \/ PlanningStep(t)
      PROVE  IInv'
  BY <1>1, StepDecides, HandlersKeepInvariant DEF IInv
<1>2. ASSUME NEW t \in Threads, Finish(t)
      PROVE  IInv'
  BY <1>2, CommitKeepsInvariant, RefusalKeepsInvariant DEF Finish
<1>3. CASE UNCHANGED deskVars
  BY <1>3 DEF deskVars, IInv, TypeOK, References, SessionsDecide, StockIsBounded, Issuing,
              Used, Busy
<1> QED BY <1>1, <1>2, <1>3 DEF Next

LEMMA Invariant == Spec => []IInv
<1>1. Init => IInv
  BY InitInvariant
<1>2. IInv /\ [Next]_deskVars => IInv'
  BY NextKeepsInvariant
<1> QED BY <1>1, <1>2, PTL DEF Spec

(***************************************************************************)
(* Every row the requests leave is one the tables can hold.                *)
(***************************************************************************)
THEOREM RowsAreTyped == Spec => []TypeOK
<1>1. IInv => TypeOK
  BY DEF IInv
<1> QED BY <1>1, Invariant, PTL

(***************************************************************************)
(* Whatever planning and desk requests overlap, no row committed refers to *)
(* one that is gone: an issued material stays, and nobody holds material   *)
(* without a check-in record.                                              *)
(***************************************************************************)
THEOREM ReferencesLast == Spec => []ReferencesHold
<1>1. IInv => ReferencesHold
  BY DEF IInv, ReferencesHold
<1> QED BY <1>1, Invariant, PTL

(***************************************************************************)
(* However often desks read the stock at the same time, and however it is  *)
(* edited meanwhile, the items handed out exceed the largest stock entered *)
(* by less than the number of threads: a race adds no error to the one     *)
(* before.                                                                 *)
(***************************************************************************)
THEOREM OverissueBound == Spec => []OverissueIsBounded
<1>1. ASSUME IInv, NEW m \in Materials
      PROVE  Used(m) <= peak[m] + Cardinality(Threads) - 1
  <2>1. Issuing(m) \in SUBSET Threads
    BY <1>1 DEF Issuing, IInv, TypeOK
  <2>2. Cardinality(Issuing(m)) \in Nat /\ Cardinality(Threads) \in Nat
    BY <2>1, ThreadsAreFew
  <2>3. peak[m] \in Nat
    BY <1>1 DEF IInv, TypeOK
  <2> QED BY <1>1, <2>2, <2>3, UsedIsNatural DEF IInv, StockIsBounded
<1>2. IInv => OverissueIsBounded
  BY <1>1 DEF OverissueIsBounded
<1> QED BY <1>2, Invariant, PTL

-----------------------------------------------------------------------------
(***************************************************************************)
(* Handover. What the desk's decisions do to one assignment a that nobody  *)
(* set by hand: a request leaves it alone, checks it in, or checks it out. *)
(***************************************************************************)
Stays(loaded, left, given, a) ==
  /\ \A m \in Materials : /\ left.issue[<<a, m>>] = loaded.issue[<<a, m>>]
                          /\ <<a, m>> \notin given
  /\ \/ left.status[a] = loaded.status[a]
     \/ \A m \in Materials : loaded.issue[<<a, m>>] = "none"

Arrives(loaded, left, given, a) ==
  /\ loaded.status[a] # "attended" /\ left.status[a] # "attended"
  /\ \A m \in Materials :
       /\ \/ left.issue[<<a, m>>] = loaded.issue[<<a, m>>]
          \/ loaded.issue[<<a, m>>] = "none" /\ left.issue[<<a, m>>] \in Open
       /\ <<a, m>> \in given => left.issue[<<a, m>>] \in {"out", "back"}

Leaves(loaded, left, given, taken, a) ==
  /\ left.status[a] = "attended"
  /\ \A m \in Materials :
       /\ loaded.issue[<<a, m>>] = "out"
            => left.issue[<<a, m>>] = "back" /\ <<a, m>> \in taken
       /\ loaded.issue[<<a, m>>] # "out"
            => left.issue[<<a, m>>] = loaded.issue[<<a, m>>]
       /\ <<a, m>> \notin given

\* Deleting a role, or its team, was decided on rows where no shift has the role.
Unused(loaded, left, r) ==
  \/ loaded.role[r] /\ ~ left.role[r]
  \/ loaded.team[TeamOfRole[r]] /\ ~ left.team[TeamOfRole[r]]
  => \A s \in Shifts : loaded.shiftRole[s] # r

Handover(loaded, left, given, taken, overrides) ==
  /\ \A p \in Issues : left.issue[p] = "out" => loaded.issue[p] = "out" \/ p \in given
  /\ \A p \in Issues : p \in taken => loaded.issue[p] = "out" /\ left.issue[p] = "back"
  /\ \A p \in Issues : left.issue[p] = "used" => p[2] \in Consumables
  /\ \A a \in Assignments \ overrides : \/ Stays(loaded, left, given, a)
                                        \/ Arrives(loaded, left, given, a)
                                        \/ Leaves(loaded, left, given, taken, a)
  /\ \A r \in Roles : Unused(loaded, left, r)

(***************************************************************************)
(* The inductive invariant of the handover. Settled is what RecordsMatch-  *)
(* Hands and AttendedHasReturned say of one assignment, and that material  *)
(* comes back only from somebody who leaves: the desk may then take the    *)
(* status for the record of what is held.                                  *)
(***************************************************************************)
Settled(rows, held, a) ==
  \A m \in Materials :
    /\ <<a, m>> \in held => rows.issue[<<a, m>>] = "out"
    /\ rows.issue[<<a, m>>] = "back" => rows.status[a] = "attended"
    /\ rows.status[a] = "attended" => rows.issue[<<a, m>>] # "out"

HandsInv ==
  /\ \A p \in Issues : db.issue[p] = "used" => p[2] \in Consumables
  /\ \A p \in Issues : db.issue[p] = "out" => p \in hands
  /\ ~ stale => \A a \in Assignments \ overridden : Settled(db, hands, a)
  /\ \A t \in Busy :
       Handover(request[t].seen, request[t].wanted, request[t].given, request[t].taken,
                request[t].overrides)

-----------------------------------------------------------------------------
(***************************************************************************)
(* Every handler's decision is of that kind.                               *)
(***************************************************************************)
HandsOver(t) ==
  \E left \in Rows, given \in SUBSET Issues, taken \in SUBSET Issues,
     overrides \in SUBSET Assignments :
    /\ Handled(t, left, given, taken, overrides)
    /\ Handover(db, left, given, taken, overrides)

LEMMA PlannedHandsOver ==
  ASSUME TypeOK, HandsInv, NEW t \in Threads, NEW left \in Rows, Planned(t, left),
         left.issue = db.issue, left.status = db.status,
         \A r \in Roles : Unused(db, left, r)
  PROVE  HandsOver(t)
<1>1. Handled(t, left, {}, {}, {})
  BY DEF Planned
<1>2. \A a \in Assignments : Stays(db, left, {}, a)
  BY DEF Stays
<1>3. Handover(db, left, {}, {}, {})
  BY <1>2 DEF Handover, HandsInv
<1> QED BY <1>1, <1>3 DEF HandsOver

LEMMA CheckInHandsOver ==
  ASSUME TypeOK, References(db), HandsInv, NEW t \in Threads, NEW a \in Assignments,
         NEW selected \in SUBSET Materials, check_in_assignment(t, a, selected)
  PROVE  HandsOver(t)
<1> DEFINE left == [db EXCEPT !.status[a] = "checked_in", !.checkin[a] = TRUE,
                              !.issue = Issued(a, selected)]
           given == {a} \X (selected \ Consumables)
<1>1. Issued(a, selected) \in [Issues -> IssueStates]
  BY DEF Issued, TypeOK, Rows, IssueStates
<1>2. left \in Rows
  BY <1>1 DEF TypeOK, Rows, Statuses
<1>3. /\ left.issue = Issued(a, selected)
      /\ \A b \in Assignments : left.status[b] = IF b = a THEN "checked_in" ELSE db.status[b]
      /\ left.role = db.role /\ left.team = db.team
  BY DEF TypeOK, Rows
<1>4. Handled(t, left, given, {}, {})
  BY DEF check_in_assignment
<1>5. given \in SUBSET Issues
  BY DEF Issues
<1>6. \A b \in Assignments, m \in Materials :
        <<b, m>> \in given => b = a /\ m \in selected /\ m \notin Consumables
  OBVIOUS
<1>7. \A m \in selected : m \notin Consumables => <<a, m>> \in given
  OBVIOUS
<1> HIDE DEF left, given
<1>8. \A p \in Issues :
        \/ /\ left.issue[p] = db.issue[p]
           /\ p[1] = a /\ p[2] \in selected => db.issue[p] # "none"
        \/ /\ p[1] = a /\ p[2] \in selected /\ db.issue[p] = "none"
           /\ left.issue[p] = IF p[2] \in Consumables THEN "used" ELSE "out"
  BY <1>3 DEF Issued
<1>9. \A p \in Issues : left.issue[p] = "out" => db.issue[p] = "out" \/ p \in given
  BY <1>7, <1>8, IssuesArePairs
<1>10. \A p \in Issues : left.issue[p] = "used" => p[2] \in Consumables
  BY <1>8 DEF HandsInv
<1>11. \A b \in Assignments, m \in Materials :
         <<b, m>> \in Issues /\ <<b, m>>[1] = b /\ <<b, m>>[2] = m
  BY DEF Issues
<1>12. ASSUME NEW b \in Assignments, b # a
       PROVE  Stays(db, left, given, b)
  BY <1>3, <1>6, <1>8, <1>11, <1>12 DEF Stays
<1>13. Arrives(db, left, given, a)
  <2>1. db.status[a] # "attended" /\ left.status[a] # "attended"
    BY <1>3 DEF check_in_assignment
  <2>2. ASSUME NEW m \in Materials
        PROVE  \/ left.issue[<<a, m>>] = db.issue[<<a, m>>]
               \/ db.issue[<<a, m>>] = "none" /\ left.issue[<<a, m>>] \in Open
    BY <1>8, <1>11 DEF Open
  <2>3. ASSUME NEW m \in Materials, <<a, m>> \in given
        PROVE  left.issue[<<a, m>>] \in {"out", "back"}
    <3>1. m \in selected /\ m \notin Consumables
      BY <1>6, <2>3
    <3>2. left.issue[<<a, m>>] \in IssueStates
      BY <1>2, <1>11 DEF Rows
    <3>3. left.issue[<<a, m>>] # "used"
      BY <1>10, <1>11, <3>1
    <3>4. left.issue[<<a, m>>] # "none"
      BY <1>8, <1>11, <3>1
    <3> QED BY <3>2, <3>3, <3>4 DEF IssueStates
  <2> QED BY <2>1, <2>2, <2>3 DEF Arrives
<1>14. \A r \in Roles : Unused(db, left, r)
  BY <1>3 DEF Unused
<1>15. Handover(db, left, given, {}, {})
  BY <1>9, <1>10, <1>12, <1>13, <1>14 DEF Handover
<1> QED BY <1>2, <1>4, <1>5, <1>15 DEF HandsOver

LEMMA CheckOutHandsOver ==
  ASSUME TypeOK, HandsInv, NEW t \in Threads, NEW a \in Assignments,
         check_out_assignment(t, a)
  PROVE  HandsOver(t)
<1> DEFINE left == [db EXCEPT !.status[a] = "attended", !.issue = Returned(a)]
           taken == {p \in Issues : p[1] = a /\ db.issue[p] = "out"}
<1>1. Returned(a) \in [Issues -> IssueStates]
  BY DEF Returned, TypeOK, Rows, IssueStates
<1>2. left \in Rows
  BY <1>1 DEF TypeOK, Rows, Statuses
<1>3. /\ left.issue = Returned(a)
      /\ \A b \in Assignments : left.status[b] = IF b = a THEN "attended" ELSE db.status[b]
      /\ left.role = db.role /\ left.team = db.team
  BY DEF TypeOK, Rows
<1>4. Handled(t, left, {}, taken, {})
  BY DEF check_out_assignment
<1>5. \A p \in Issues : p \in taken <=> p[1] = a /\ db.issue[p] = "out"
  OBVIOUS
<1>6. taken \in SUBSET Issues
  OBVIOUS
<1> HIDE DEF left, taken
<1>7. \A p \in Issues :
        left.issue[p] = IF p[1] = a /\ db.issue[p] = "out" THEN "back" ELSE db.issue[p]
  BY <1>3 DEF Returned
<1>8. \A b \in Assignments, m \in Materials :
         <<b, m>> \in Issues /\ <<b, m>>[1] = b /\ <<b, m>>[2] = m
  BY DEF Issues
<1>9. ASSUME NEW b \in Assignments, b # a
      PROVE  Stays(db, left, {}, b)
  BY <1>3, <1>7, <1>8, <1>9 DEF Stays
<1>10. Leaves(db, left, {}, taken, a)
  BY <1>3, <1>5, <1>7, <1>8 DEF Leaves
<1>11. \A r \in Roles : Unused(db, left, r)
  BY <1>3 DEF Unused
<1>12. /\ \A p \in Issues : left.issue[p] = "out" => db.issue[p] = "out" \/ p \in {}
       /\ \A p \in Issues : p \in taken => db.issue[p] = "out" /\ left.issue[p] = "back"
       /\ \A p \in Issues : left.issue[p] = "used" => p[2] \in Consumables
  BY <1>5, <1>7 DEF HandsInv
<1>13. Handover(db, left, {}, taken, {})
  BY <1>9, <1>10, <1>11, <1>12 DEF Handover
<1> QED BY <1>2, <1>4, <1>6, <1>13 DEF HandsOver

LEMMA StatusHandsOver ==
  ASSUME TypeOK, References(db), HandsInv, NEW t \in Threads, NEW a \in Assignments,
         NEW status \in Statuses, change_assignment_status(t, a, status)
  PROVE  HandsOver(t)
<1> DEFINE left == [db EXCEPT !.status[a] = status]
           overrides == IF db.checkin[a] THEN {a} ELSE {}
<1>1. /\ left \in Rows
      /\ left.issue = db.issue
      /\ \A b \in Assignments : b # a => left.status[b] = db.status[b]
      /\ left.role = db.role /\ left.team = db.team
  BY DEF TypeOK, Rows
<1>2. Handled(t, left, {}, {}, overrides) /\ overrides \in SUBSET Assignments
  BY DEF change_assignment_status
<1>3. db.checkin[a] => a \in overrides
  OBVIOUS
<1> HIDE DEF left, overrides
<1>4. ASSUME NEW b \in Assignments \ overrides
      PROVE  Stays(db, left, {}, b)
  <2>1. CASE b = a
    <3>1. \A m \in Materials : db.issue[<<a, m>>] = "none"
      BY <1>3, <1>4, <2>1 DEF References
    <3> QED BY <1>1, <2>1, <3>1 DEF Stays
  <2>2. CASE b # a
    BY <1>1, <2>2 DEF Stays
  <2> QED BY <2>1, <2>2
<1>5. \A r \in Roles : Unused(db, left, r)
  BY <1>1 DEF Unused
<1>6. Handover(db, left, {}, {}, overrides)
  BY <1>1, <1>4, <1>5 DEF Handover, HandsInv
<1> QED BY <1>1, <1>2, <1>6 DEF HandsOver

LEMMA PlanningHandsOver ==
  ASSUME TypeOK, HandsInv, NEW t \in Threads, PlanningStep(t)
  PROVE  HandsOver(t)
<1>1. ASSUME NEW k \in Teams, create_team(t, k)
      PROVE  HandsOver(t)
  <2> DEFINE left == [db EXCEPT !.team[k] = TRUE]
  <2>1. /\ left \in Rows
        /\ left.issue = db.issue /\ left.status = db.status /\ left.role = db.role
        /\ \A x \in Teams : db.team[x] => left.team[x]
    BY DEF TypeOK, Rows
  <2>2. Planned(t, left)
    BY <1>1 DEF create_team
  <2> HIDE DEF left
  <2>3. \A r \in Roles : Unused(db, left, r)
    BY <2>1, PlanAssumption DEF Unused
  <2> QED BY <2>1, <2>2, <2>3, PlannedHandsOver
<1>2. ASSUME NEW k \in Teams, delete_empty_team(t, k)
      PROVE  HandsOver(t)
  <2> DEFINE left == [db EXCEPT !.team[k] = FALSE,
       !.role = [r \in Roles |-> db.role[r] /\ TeamOfRole[r] # k],
       !.material = [m \in Materials |-> db.material[m] /\ TeamOfMaterial[m] # k]]
  <2>1. /\ left \in Rows
        /\ left.issue = db.issue /\ left.status = db.status
        /\ \A x \in Teams : x # k => left.team[x] = db.team[x]
        /\ \A r \in Roles : left.role[r] <=> db.role[r] /\ TeamOfRole[r] # k
    BY DEF TypeOK, Rows
  <2>2. Planned(t, left)
    BY <1>2 DEF delete_empty_team
  <2> HIDE DEF left
  <2>3. \A r \in Roles : TeamOfRole[r] = k => \A s \in Shifts : db.shiftRole[s] # r
    BY <1>2 DEF delete_empty_team, InUse
  <2>4. \A r \in Roles : Unused(db, left, r)
    BY <2>1, <2>3, PlanAssumption DEF Unused
  <2> QED BY <2>1, <2>2, <2>4, PlannedHandsOver
<1>3. ASSUME NEW r \in Roles, create_role(t, r)
      PROVE  HandsOver(t)
  <2> DEFINE left == [db EXCEPT !.role[r] = TRUE]
  <2>1. /\ left \in Rows
        /\ left.issue = db.issue /\ left.status = db.status /\ left.team = db.team
        /\ \A x \in Roles : db.role[x] => left.role[x]
    BY DEF TypeOK, Rows
  <2>2. Planned(t, left)
    BY <1>3 DEF create_role
  <2> HIDE DEF left
  <2>3. \A x \in Roles : Unused(db, left, x)
    BY <2>1 DEF Unused
  <2> QED BY <2>1, <2>2, <2>3, PlannedHandsOver
<1>4. ASSUME NEW r \in Roles, delete_unused_role(t, r)
      PROVE  HandsOver(t)
  <2> DEFINE left == [db EXCEPT !.role[r] = FALSE]
  <2>1. /\ left \in Rows
        /\ left.issue = db.issue /\ left.status = db.status /\ left.team = db.team
        /\ \A x \in Roles : x # r => left.role[x] = db.role[x]
    BY DEF TypeOK, Rows
  <2>2. Planned(t, left)
    BY <1>4 DEF delete_unused_role
  <2> HIDE DEF left
  <2>3. \A s \in Shifts : db.shiftRole[s] # r
    BY <1>4 DEF delete_unused_role, InUse
  <2>4. \A x \in Roles : Unused(db, left, x)
    BY <2>1, <2>3 DEF Unused
  <2> QED BY <2>1, <2>2, <2>4, PlannedHandsOver
<1>5. ASSUME NEW m \in Materials, NEW available \in Quantities,
             create_team_material(t, m, available)
      PROVE  HandsOver(t)
  <2> DEFINE left == [db EXCEPT !.material[m] = TRUE, !.active[m] = TRUE,
                                   !.available[m] = available]
  <2>1. /\ left \in Rows
        /\ left.issue = db.issue /\ left.status = db.status
        /\ left.role = db.role /\ left.team = db.team
    BY SizeAssumption DEF TypeOK, Rows
  <2>2. Planned(t, left)
    BY <1>5 DEF create_team_material
  <2> HIDE DEF left
  <2>3. \A x \in Roles : Unused(db, left, x)
    BY <2>1 DEF Unused
  <2> QED BY <2>1, <2>2, <2>3, PlannedHandsOver
<1>6. ASSUME NEW m \in Materials, NEW available \in Quantities, NEW active \in BOOLEAN,
             update_team_material(t, m, available, active)
      PROVE  HandsOver(t)
  <2> DEFINE left == [db EXCEPT !.available[m] = available, !.active[m] = active]
  <2>1. /\ left \in Rows
        /\ left.issue = db.issue /\ left.status = db.status
        /\ left.role = db.role /\ left.team = db.team
    BY SizeAssumption DEF TypeOK, Rows
  <2>2. Planned(t, left)
    BY <1>6 DEF update_team_material
  <2> HIDE DEF left
  <2>3. \A x \in Roles : Unused(db, left, x)
    BY <2>1 DEF Unused
  <2> QED BY <2>1, <2>2, <2>3, PlannedHandsOver
<1>7. ASSUME NEW m \in Materials, delete_unused_team_material(t, m)
      PROVE  HandsOver(t)
  <2> DEFINE left == [db EXCEPT !.material[m] = FALSE]
  <2>1. /\ left \in Rows
        /\ left.issue = db.issue /\ left.status = db.status
        /\ left.role = db.role /\ left.team = db.team
    BY DEF TypeOK, Rows
  <2>2. Planned(t, left)
    BY <1>7 DEF delete_unused_team_material
  <2> HIDE DEF left
  <2>3. \A x \in Roles : Unused(db, left, x)
    BY <2>1 DEF Unused
  <2> QED BY <2>1, <2>2, <2>3, PlannedHandsOver
<1>8. ASSUME NEW s \in Shifts, NEW r \in Roles \cup {NoRole}, edit_shift_submit(t, s, r)
      PROVE  HandsOver(t)
  <2> DEFINE left == [db EXCEPT !.shiftRole[s] = r]
  <2>1. /\ left \in Rows
        /\ left.issue = db.issue /\ left.status = db.status
        /\ left.role = db.role /\ left.team = db.team
    BY DEF TypeOK, Rows
  <2>2. Planned(t, left)
    BY <1>8 DEF edit_shift_submit
  <2> HIDE DEF left
  <2>3. \A x \in Roles : Unused(db, left, x)
    BY <2>1 DEF Unused
  <2> QED BY <2>1, <2>2, <2>3, PlannedHandsOver
<1> QED BY <1>1, <1>2, <1>3, <1>4, <1>5, <1>6, <1>7, <1>8 DEF PlanningStep

LEMMA StepHandsOver ==
  ASSUME TypeOK, References(db), HandsInv, NEW t \in Threads,
         DeskStep(t) \/ StatusStep(t) \/ PlanningStep(t)
  PROVE  HandsOver(t)
BY CheckInHandsOver, CheckOutHandsOver, StatusHandsOver, PlanningHandsOver
   DEF DeskStep, StatusStep

-----------------------------------------------------------------------------
LEMMA HandlersKeepHands ==
  ASSUME HandsInv, NEW t \in Threads, HandsOver(t)
  PROVE  HandsInv'
<1>1. PICK left \in Rows, given \in SUBSET Issues, taken \in SUBSET Issues,
           overrides \in SUBSET Assignments :
        /\ Handled(t, left, given, taken, overrides)
        /\ Handover(db, left, given, taken, overrides)
  BY DEF HandsOver
<1> DEFINE session == [seen |-> db, wanted |-> left, given |-> given, taken |-> taken,
                       overrides |-> overrides]
<1>2. /\ t \notin Busy
      /\ request' = [u \in Busy \cup {t} |-> IF u = t THEN session ELSE request[u]]
      /\ UNCHANGED <<db, hands, peak, stale, overridden>>
  BY <1>1 DEF Handled
<1>3. Handover(session.seen, session.wanted, session.given, session.taken, session.overrides)
  BY <1>1
<1> HIDE DEF session
<1>4. /\ Busy' = Busy \cup {t}
      /\ request'[t] = session
      /\ \A u \in Busy : request'[u] = request[u]
  BY <1>2 DEF Busy
<1>5. \A u \in Busy' :
        Handover(request'[u].seen, request'[u].wanted, request'[u].given, request'[u].taken,
                 request'[u].overrides)
  BY <1>3, <1>4 DEF HandsInv
<1>6. (~ stale => \A a \in Assignments \ overridden : Settled(db, hands, a))'
  BY <1>2 DEF HandsInv, Settled
<1>7. (\A u \in Busy :
         Handover(request[u].seen, request[u].wanted, request[u].given, request[u].taken,
                  request[u].overrides))'
  BY <1>5 DEF Handover, Stays, Arrives, Leaves, Unused
<1> QED BY <1>2, <1>6, <1>7 DEF HandsInv

(***************************************************************************)
(* A request that decided on the rows it commits to keeps each assignment  *)
(* settled.                                                                *)
(***************************************************************************)
LEMMA DecisionsSettle ==
  ASSUME NEW loaded, NEW left, NEW held, NEW given, NEW taken, NEW a \in Assignments,
         Settled(loaded, held, a),
         \/ Stays(loaded, left, given, a)
         \/ Arrives(loaded, left, given, a)
         \/ Leaves(loaded, left, given, taken, a)
  PROVE  Settled(left, (held \ taken) \cup given, a)
<1>1. CASE Stays(loaded, left, given, a)
  BY <1>1 DEF Stays, Settled
<1>2. CASE Arrives(loaded, left, given, a)
  BY <1>2 DEF Arrives, Settled, Open
<1>3. CASE Leaves(loaded, left, given, taken, a)
  BY <1>3 DEF Leaves, Settled
<1> QED BY <1>1, <1>2, <1>3

LEMMA CommitKeepsHands ==
  ASSUME IInv, HandsInv, NEW t \in Threads, Commit(t)
  PROVE  HandsInv'
<1> DEFINE r == request[t]
<1>1. /\ t \in Busy
      /\ db' = Cascaded(Flushed(r))
      /\ hands' = (hands \ r.taken) \cup r.given
      /\ stale' = (stale \/ db # r.seen)
      /\ overridden' = overridden \cup r.overrides
      /\ Busy' = Busy \ {t}
      /\ \A u \in Busy \ {t} : request'[u] = request[u]
  BY DEF Commit, Busy
<1>2. /\ r.seen \in Rows /\ r.wanted \in Rows /\ db \in Rows /\ Flushed(r) \in Rows
      /\ \A p \in Issues : db'.issue[p] = IF r.wanted.issue[p] = r.seen.issue[p]
                                          THEN db.issue[p] ELSE r.wanted.issue[p]
  BY CommittedRecords DEF IInv, TypeOK
<1>3. Handover(r.seen, r.wanted, r.given, r.taken, r.overrides)
  BY <1>1 DEF HandsInv
<1> HIDE DEF r
<1>4. \A p \in Issues : db'.issue[p] = "used" => p[2] \in Consumables
  BY <1>2, <1>3 DEF Handover, HandsInv
<1>5. \A p \in Issues : db'.issue[p] = "out" => p \in hands'
  BY <1>1, <1>2, <1>3 DEF Handover, HandsInv
<1>6. ASSUME ~ stale', NEW a \in Assignments, a \notin overridden'
      PROVE  Settled(db', hands', a)
  <2>1. /\ ~ stale /\ db = r.seen /\ a \notin overridden /\ a \notin r.overrides
    BY <1>1, <1>6
  <2>2. Settled(r.seen, hands, a)
    BY <2>1 DEF HandsInv
  <2>3. Settled(r.wanted, (hands \ r.taken) \cup r.given, a)
    BY <1>3, <2>1, <2>2, DecisionsSettle DEF Handover
  <2>4. /\ db'.status = Flushed(r).status
        /\ \A b \in Assignments : Flushed(r).status[b] = r.wanted.status[b]
    <3>1. db'.status = Flushed(r).status
      BY <1>1, <1>2 DEF Cascaded, Rows
    <3>2. \A b \in Assignments : Flushed(r).status[b] = r.wanted.status[b]
      BY <1>2, <2>1 DEF Flushed, Columns, Rows
    <3> QED BY <3>1, <3>2
  <2>5. \A m \in Materials : db'.issue[<<a, m>>] = r.wanted.issue[<<a, m>>]
    BY <1>2, <2>1 DEF Issues
  <2> QED BY <1>1, <2>3, <2>4, <2>5 DEF Settled
<1>7. \A u \in Busy' :
        Handover(request'[u].seen, request'[u].wanted, request'[u].given, request'[u].taken,
                 request'[u].overrides)
  BY <1>1 DEF HandsInv
<1>8. ~ stale' => \A a \in Assignments \ overridden' : Settled(db', hands', a)
  BY <1>6
<1>9. (~ stale => \A a \in Assignments \ overridden : Settled(db, hands, a))'
  BY <1>8 DEF Settled
<1>10. (\A u \in Busy :
          Handover(request[u].seen, request[u].wanted, request[u].given, request[u].taken,
                   request[u].overrides))'
  BY <1>7 DEF Handover, Stays, Arrives, Leaves, Unused
<1> QED BY <1>4, <1>5, <1>9, <1>10 DEF HandsInv

LEMMA RefusalKeepsHands ==
  ASSUME HandsInv, NEW t \in Threads, Refuse(t)
  PROVE  HandsInv'
<1>1. /\ Busy' = Busy \ {t}
      /\ \A u \in Busy \ {t} : request'[u] = request[u]
      /\ UNCHANGED <<db, hands, stale, overridden>>
  BY DEF Refuse, Busy
<1>2. \A u \in Busy' :
        Handover(request'[u].seen, request'[u].wanted, request'[u].given, request'[u].taken,
                 request'[u].overrides)
  BY <1>1 DEF HandsInv
<1> QED BY <1>1, <1>2 DEF HandsInv, Settled, Handover, Stays, Arrives, Leaves, Unused

LEMMA InitHands ==
  ASSUME Init
  PROVE  HandsInv
<1>1. /\ \A p \in Issues : db.issue[p] = "none"
      /\ Busy = {} /\ hands = {}
  <2>1. \A p \in Issues : db.issue[p] = "none"
    BY DEF Init, Plan
  <2> QED BY <2>1 DEF Init, Busy
<1>2. \A a \in Assignments : Settled(db, hands, a)
  BY <1>1 DEF Settled, Issues
<1> QED BY <1>1, <1>2 DEF HandsInv

LEMMA HandsInvariant == Spec => [](IInv /\ HandsInv)
<1>1. Init => IInv /\ HandsInv
  BY InitInvariant, InitHands
<1>2. ASSUME IInv, HandsInv, [Next]_deskVars
      PROVE  HandsInv'
  <2>1. ASSUME NEW t \in Threads, DeskStep(t) \/ StatusStep(t) \/ PlanningStep(t)
        PROVE  HandsInv'
    BY <1>2, <2>1, StepHandsOver, HandlersKeepHands DEF IInv
  <2>2. ASSUME NEW t \in Threads, Finish(t)
        PROVE  HandsInv'
    BY <1>2, <2>2, CommitKeepsHands, RefusalKeepsHands DEF Finish
  <2>3. CASE UNCHANGED deskVars
    BY <1>2, <2>3 DEF deskVars, HandsInv, Settled, Handover, Stays, Arrives, Leaves, Unused,
                      Busy
  <2> QED BY <1>2, <2>1, <2>2, <2>3 DEF Next
<1>3. IInv /\ HandsInv /\ [Next]_deskVars => (IInv /\ HandsInv)'
  BY <1>2, NextKeepsInvariant
<1> QED BY <1>1, <1>3, PTL DEF Spec

(***************************************************************************)
(* Every item recorded as handed out is held by that person, whatever      *)
(* requests overlap; and whoever holds one has it on record, unless a      *)
(* status was set by hand or a commit was stale.                           *)
(***************************************************************************)
THEOREM HandsOnRecord == Spec => []RecordsMatchHands
<1>1. IInv /\ HandsInv => RecordsMatchHands
  BY DEF HandsInv, RecordsMatchHands, Settled, Issues
<1> QED BY <1>1, HandsInvariant, PTL

(***************************************************************************)
(* Nobody has attended and still holds material, with the same proviso.    *)
(***************************************************************************)
THEOREM LeaversReturn == Spec => []AttendedHasReturned
<1>1. IInv /\ HandsInv => AttendedHasReturned
  BY DEF HandsInv, AttendedHasReturned, Settled
<1> QED BY <1>1, HandsInvariant, PTL

(***************************************************************************)
(* A shift loses its role to a deletion only if it was given the role      *)
(* after the deletion had looked for uses.                                 *)
(***************************************************************************)
THEOREM RolesLostToRaces == Spec => RoleIsLostToRacesOnly
<1>1. ASSUME IInv, HandsInv, [Next]_deskVars, NEW t \in Busy, NEW s \in Shifts,
             t \notin DOMAIN request', db.shiftRole[s] # NoRole, db'.shiftRole[s] = NoRole,
             request[t].wanted.shiftRole[s] = request[t].seen.shiftRole[s]
      PROVE  request[t].seen.shiftRole[s] # db.shiftRole[s]
  <2>1. PICK u \in Threads : Commit(u)
    <3>1. db' # db
      BY <1>1
    <3>2. PICK u \in Threads : DeskStep(u) \/ StatusStep(u) \/ PlanningStep(u) \/ Finish(u)
      BY <1>1, <3>1 DEF Next, deskVars
    <3>3. CASE DeskStep(u) \/ StatusStep(u) \/ PlanningStep(u)
      <4>1. HandsOver(u)
        BY <1>1, <3>3, StepHandsOver DEF IInv
      <4> QED BY <3>1, <4>1 DEF HandsOver, Handled
    <3> QED BY <3>1, <3>2, <3>3 DEF Finish, Refuse
  <2>2. u = t
    BY <1>1, <2>1 DEF Commit, Busy
  <2> DEFINE r == request[t]
             x == db.shiftRole[s]
  <2>3. /\ db' = Cascaded(Flushed(r)) /\ r.seen \in Rows /\ r.wanted \in Rows
        /\ db \in Rows /\ Flushed(r) \in Rows
    BY <1>1, <2>1, <2>2, CommittedRecords DEF Commit, IInv, TypeOK
  <2>4. x \in Roles /\ db.role[x] /\ TeamOfRole[x] \in Teams /\ db.team[TeamOfRole[x]]
    BY <1>1, <2>3, PlanAssumption DEF IInv, References, Rows
  <2>5. Unused(r.seen, r.wanted, x)
    BY <1>1, <2>4 DEF HandsInv, Handover
  <2>6. r.wanted.shiftRole[s] = r.seen.shiftRole[s]
    BY <1>1
  <2> HIDE DEF r
  <2>7. Flushed(r).shiftRole[s] = x
    BY <2>3, <2>6 DEF Flushed, Columns, Rows
  <2>8. ~ Flushed(r).role[x] \/ ~ Flushed(r).team[TeamOfRole[x]]
    BY <1>1, <2>3, <2>4, <2>7 DEF Cascaded, Rows
  <2>9. /\ r.wanted.role[x] = r.seen.role[x] => Flushed(r).role[x] = db.role[x]
        /\ \A k \in Teams :
             r.wanted.team[k] = r.seen.team[k] => Flushed(r).team[k] = db.team[k]
    <3>1. \A y \in Roles :
            r.wanted.role[y] = r.seen.role[y] => Flushed(r).role[y] = db.role[y]
      BY <2>3 DEF Flushed, Columns, Rows
    <3>2. \A k \in Teams :
            r.wanted.team[k] = r.seen.team[k] => Flushed(r).team[k] = db.team[k]
      BY <2>3 DEF Flushed, Columns, Rows
    <3> QED BY <2>4, <3>1, <3>2
  <2>13. /\ r.wanted.role[x] # r.seen.role[x] => Flushed(r).role[x] = r.wanted.role[x]
         /\ \A k \in Teams :
              r.wanted.team[k] # r.seen.team[k] => Flushed(r).team[k] = r.wanted.team[k]
    <3>1. \A y \in Roles :
            r.wanted.role[y] # r.seen.role[y] => Flushed(r).role[y] = r.wanted.role[y]
      BY <2>3 DEF Flushed, Columns, Rows
    <3>2. \A k \in Teams :
            r.wanted.team[k] # r.seen.team[k] => Flushed(r).team[k] = r.wanted.team[k]
      BY <2>3 DEF Flushed, Columns, Rows
    <3> QED BY <2>4, <3>1, <3>2
  <2>10. /\ r.seen.role[x] \in BOOLEAN /\ r.wanted.role[x] \in BOOLEAN
         /\ \A k \in Teams : r.seen.team[k] \in BOOLEAN /\ r.wanted.team[k] \in BOOLEAN
    BY <2>3, <2>4 DEF Rows
  <2>11. \/ r.seen.role[x] /\ ~ r.wanted.role[x]
         \/ r.seen.team[TeamOfRole[x]] /\ ~ r.wanted.team[TeamOfRole[x]]
    BY <2>4, <2>8, <2>9, <2>10, <2>13
  <2>12. r.seen.shiftRole[s] # x
    BY <2>5, <2>11 DEF Unused
  <2> QED BY <2>12 DEF r
<1>2. IInv /\ HandsInv /\ [Next]_deskVars =>
        [\A t \in Busy, s \in Shifts :
           /\ t \notin DOMAIN request'
           /\ db.shiftRole[s] # NoRole /\ db'.shiftRole[s] = NoRole
           /\ request[t].wanted.shiftRole[s] = request[t].seen.shiftRole[s]
           => request[t].seen.shiftRole[s] # db.shiftRole[s]]_deskVars
  BY <1>1
<1> QED BY <1>2, HandsInvariant, PTL DEF Spec, RoleIsLostToRacesOnly
===============================================================================
