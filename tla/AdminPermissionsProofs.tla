------------------------ MODULE AdminPermissionsProofs ------------------------
(***************************************************************************)
(* Where SELECT FOR UPDATE locks, the last admin mapping cannot be removed *)
(* by any number of concurrent requests.                                   *)
(***************************************************************************)
EXTENDS AdminPermissions, FiniteSetTheorems, TLAPS

LEMMA AdminMappingsFinite ==
  ASSUME TypeOK
  PROVE  /\ IsFiniteSet(AdminMappings)
         /\ Cardinality(AdminMappings) \in Nat
  <1>1. AdminMappings \in SUBSET Mappings
    BY DEF AdminMappings, TypeOK
  <1>2. IsFiniteSet(AdminMappings)
    BY <1>1, PermissionsAssumption, FS_Subset
  <1>3. QED
    BY <1>2, FS_CardinalityType

LEMMA TypesKept ==
  ASSUME TypeOK, [Next]_permVars
  PROVE  TypeOK'
  BY DEF TypeOK, Next, permVars, add_mapping, remove_mapping, RemovalStep,
         lock_permission, count_mappings, delete_mapping, Released

(***************************************************************************)
(* A step that removes no admin mapping leaves as many as were counted.    *)
(***************************************************************************)
LEMMA CountKept ==
  ASSUME TypeOK, TypeOK', AdminMappings \subseteq AdminMappings',
         Cardinality(AdminMappings) > 1
  PROVE  Cardinality(AdminMappings') > 1
  <1>1. IsFiniteSet(AdminMappings') /\ Cardinality(AdminMappings') \in Nat
    <2>1. AdminMappings' \in SUBSET Mappings
      BY DEF AdminMappings, TypeOK
    <2>2. IsFiniteSet(AdminMappings')
      BY <2>1, PermissionsAssumption, FS_Subset
    <2>3. QED
      BY <2>2, FS_CardinalityType
  <1> DEFINE old == AdminMappings
             new == AdminMappings'
  <1>2. Cardinality(old) \in Nat
    BY AdminMappingsFinite
  <1> HIDE DEF old, new
  <1>3. IsFiniteSet(new) /\ old \in SUBSET new
    BY <1>1 DEF old, new
  <1>4. Cardinality(old) <= Cardinality(new)
    BY <1>3, FS_Subset
  <1>5. QED
    BY <1>1, <1>2, <1>4 DEF old, new

(***************************************************************************)
(* Of two admin mappings one remains when a row is deleted.                *)
(***************************************************************************)
LEMMA OneRemains ==
  ASSUME TypeOK, Cardinality(AdminMappings) > 1, NEW m
  PROVE  AdminMappings \ {m} # {}
  <1> DEFINE S == AdminMappings
  <1>1. IsFiniteSet(S) /\ Cardinality(S) \in Nat /\ Cardinality(S) > 1
    BY AdminMappingsFinite
  <1> HIDE DEF S
  <1>2. /\ IsFiniteSet(S \ {m})
        /\ Cardinality(S \ {m}) = IF m \in S THEN Cardinality(S) - 1 ELSE Cardinality(S)
    BY <1>1, FS_RemoveElement
  <1>3. Cardinality(S \ {m}) # 0
    BY <1>1, <1>2
  <1>4. S \ {m} # {}
    BY <1>3, FS_EmptySet
  <1>5. QED
    BY <1>4 DEF S

LockIsUsed == lock # NoThread => at[lock] \in {"count", "delete"}

Serialized(t) ==
  /\ target[t] \in mappings \cup {NoMapping}
  /\ at[t] = "idle" => target[t] = NoMapping
  /\ at[t] = "count" => lock = t
  /\ at[t] = "delete" /\ target[t] \in AdminMappings =>
       lock = t /\ Cardinality(AdminMappings) > 1

LEMMA StepSerialized ==
  ASSUME RowLock = TRUE, RemovalsAreSerialized, Next
  PROVE  RemovalsAreSerialized'
  <1>1. TypeOK /\ TypeOK'
    BY TypesKept DEF RemovalsAreSerialized
  <1>2. LockIsUsed /\ \A u \in Threads : Serialized(u)
    BY DEF RemovalsAreSerialized, Serialized, LockIsUsed
  <1>3. NoThread \notin Threads /\ NoMapping \notin Mappings
    BY PermissionsAssumption
  <1>4. ASSUME NEW m \in Mappings, add_mapping(m)
        PROVE  LockIsUsed' /\ \A u \in Threads : Serialized(u)'
    <2>1. AdminMappings \subseteq AdminMappings'
      BY <1>4 DEF add_mapping, AdminMappings
    <2>2. ASSUME NEW u \in Threads
          PROVE  Serialized(u)'
      <3>1. /\ target'[u] = target[u] /\ at'[u] = at[u] /\ lock' = lock
            /\ target[u] \in mappings \cup {NoMapping}
            /\ mappings \subseteq mappings'
        BY <1>2, <1>4 DEF add_mapping, Serialized
      <3>2. target'[u] \in AdminMappings' => target[u] \in AdminMappings
        BY <1>1, <1>3, <3>1 DEF AdminMappings, TypeOK
      <3>3. QED
        BY <1>1, <1>2, <2>1, <3>1, <3>2, CountKept DEF Serialized
    <2>3. LockIsUsed'
      BY <1>2, <1>4 DEF add_mapping, LockIsUsed
    <2>4. QED
      BY <2>2, <2>3
  <1>5. ASSUME NEW t \in Threads, NEW m \in Mappings, remove_mapping(t, m)
        PROVE  LockIsUsed' /\ \A u \in Threads : Serialized(u)'
    <2>1. LockIsUsed'
      BY <1>1, <1>2, <1>5 DEF remove_mapping, LockIsUsed, TypeOK
    <2>2. ASSUME NEW u \in Threads
          PROVE  Serialized(u)'
      <3>1. CASE u = t
        <4>1. target'[u] = m /\ mappings' = mappings /\ m \in mappings
          BY <1>1, <1>5, <3>1 DEF remove_mapping, TypeOK
        <4>2. at'[u] = IF Permission[m] = "admin" THEN "lock" ELSE "delete"
          BY <1>1, <1>5, <3>1 DEF remove_mapping, TypeOK
        <4>3. QED
          BY <4>1, <4>2 DEF Serialized, AdminMappings
      <3>2. CASE u # t
        BY <1>1, <1>2, <1>5, <3>2 DEF remove_mapping, Serialized, AdminMappings, TypeOK
      <3>3. QED
        BY <3>1, <3>2
    <2>3. QED
      BY <2>1, <2>2
  <1>6. ASSUME NEW t \in Threads, lock_permission(t)
        PROVE  LockIsUsed' /\ \A u \in Threads : Serialized(u)'
    <2>1. LockIsUsed'
      BY <1>1, <1>2, <1>6 DEF lock_permission, LockIsUsed, TypeOK
    <2>2. ASSUME NEW u \in Threads
          PROVE  Serialized(u)'
      BY <1>1, <1>2, <1>3, <1>6 DEF lock_permission, Serialized, AdminMappings, TypeOK
    <2>3. QED
      BY <2>1, <2>2
  <1>7. ASSUME NEW t \in Threads, count_mappings(t)
        PROVE  LockIsUsed' /\ \A u \in Threads : Serialized(u)'
    <2>1. LockIsUsed'
      BY <1>1, <1>2, <1>7 DEF count_mappings, Released, LockIsUsed, TypeOK
    <2>2. AdminMappings' = AdminMappings /\ mappings' = mappings /\ lock = t
      BY <1>2, <1>7 DEF count_mappings, AdminMappings, Serialized
    <2>3. ASSUME NEW u \in Threads
          PROVE  Serialized(u)'
      <3>1. CASE u # t
        BY <1>1, <1>2, <1>7, <2>2, <3>1
           DEF count_mappings, Released, Serialized, TypeOK
      <3>2. CASE u = t
        BY <1>1, <1>2, <1>7, <2>2, <3>2 DEF count_mappings, Serialized, TypeOK
      <3>3. QED
        BY <3>1, <3>2
    <2>4. QED
      BY <2>1, <2>3
  <1>8. ASSUME NEW t \in Threads, delete_mapping(t)
        PROVE  LockIsUsed' /\ \A u \in Threads : Serialized(u)'
    <2>1. LockIsUsed'
      BY <1>1, <1>2, <1>8 DEF delete_mapping, Released, LockIsUsed, TypeOK
    <2>2. ASSUME NEW u \in Threads
          PROVE  Serialized(u)'
      <3>1. /\ target'[u] = IF target[u] = target[t] THEN NoMapping ELSE target[u]
            /\ mappings' = mappings \ {target[t]}
            /\ AdminMappings' = AdminMappings \ {target[t]}
        BY <1>8 DEF delete_mapping, AdminMappings
      <3>2. CASE u = t
        <4>1. at'[u] = "idle" /\ target'[u] = NoMapping
          BY <1>1, <1>8, <3>1, <3>2 DEF delete_mapping, TypeOK
        <4>2. QED
          BY <4>1 DEF Serialized
      <3>3. CASE u # t
        <4>1. at'[u] = at[u] /\ (lock = u => lock' = u)
          BY <1>1, <1>8, <3>3 DEF delete_mapping, Released, TypeOK
        <4>2. /\ target'[u] \in mappings' \cup {NoMapping}
              /\ at'[u] = "idle" => target'[u] = NoMapping
              /\ at'[u] = "count" => lock' = u
          BY <1>2, <3>1, <4>1 DEF Serialized
        <4>3. ASSUME at[u] = "delete", target'[u] \in AdminMappings'
              PROVE  lock' = u /\ Cardinality(AdminMappings') > 1
          <5>1. target[u] \in AdminMappings
            BY <1>1, <1>3, <3>1, <4>3 DEF AdminMappings, TypeOK
          <5>2. lock = u /\ Cardinality(AdminMappings) > 1
            BY <1>2, <4>3, <5>1 DEF Serialized
          <5>3. target[t] \notin AdminMappings
            BY <1>2, <1>8, <3>3, <5>2 DEF Serialized, delete_mapping
          <5>4. AdminMappings \subseteq AdminMappings'
            BY <3>1, <5>3
          <5>5. QED
            BY <1>1, <4>1, <5>2, <5>4, CountKept
        <4>4. QED
          BY <4>1, <4>2, <4>3 DEF Serialized
      <3>4. QED
        BY <3>2, <3>3
    <2>3. QED
      BY <2>1, <2>2
  <1>9. LockIsUsed' /\ \A u \in Threads : Serialized(u)'
    BY <1>4, <1>5, <1>6, <1>7, <1>8 DEF Next, RemovalStep
  <1>10. QED
    BY <1>1, <1>9 DEF RemovalsAreSerialized, Serialized, LockIsUsed

(***************************************************************************)
(* Removals of admin mappings take place one after the other, and the lock *)
(* is not left behind by any of them.                                      *)
(***************************************************************************)
THEOREM Serialization ==
  ASSUME RowLock = TRUE
  PROVE  Spec => []RemovalsAreSerialized
  <1>1. Init => RemovalsAreSerialized
    BY PermissionsAssumption DEF Init, RemovalsAreSerialized, TypeOK
  <1>2. RemovalsAreSerialized /\ [Next]_permVars => RemovalsAreSerialized'
    <2>1. CASE UNCHANGED permVars
      BY <2>1 DEF permVars, RemovalsAreSerialized, TypeOK, AdminMappings
    <2>2. CASE Next
      BY <2>2, StepSerialized
    <2>3. QED
      BY <2>1, <2>2
  <1>3. QED
    BY <1>1, <1>2, PTL DEF Spec

(***************************************************************************)
(* The last admin mapping cannot be removed: a deletion follows a count of *)
(* at least two that no other removal has spoilt.                          *)
(***************************************************************************)
THEOREM LastMappingRemains ==
  ASSUME RowLock = TRUE
  PROVE  Spec => []LastAdminMappingRemains
  <1>1. Init => LastAdminMappingRemains
    BY PermissionsAssumption DEF Init, LastAdminMappingRemains, AdminMappings
  <1>2. RemovalsAreSerialized /\ LastAdminMappingRemains /\ [Next]_permVars =>
          LastAdminMappingRemains'
    <2> SUFFICES ASSUME RemovalsAreSerialized, LastAdminMappingRemains, [Next]_permVars
                 PROVE  LastAdminMappingRemains'
      OBVIOUS
    <2>1. ASSUME NEW t \in Threads, delete_mapping(t)
          PROVE  LastAdminMappingRemains'
      <3>1. AdminMappings' = AdminMappings \ {target[t]}
        BY <2>1 DEF delete_mapping, AdminMappings
      <3>2. CASE target[t] \notin AdminMappings
        BY <3>1, <3>2 DEF LastAdminMappingRemains
      <3>3. CASE target[t] \in AdminMappings
        <4>1. TypeOK /\ Cardinality(AdminMappings) > 1
          BY <2>1, <3>3 DEF RemovalsAreSerialized, delete_mapping
        <4>2. QED
          BY <3>1, <4>1, OneRemains DEF LastAdminMappingRemains
      <3>4. QED
        BY <3>2, <3>3
    <2>2. CASE UNCHANGED mappings
      BY <2>2 DEF LastAdminMappingRemains, AdminMappings
    <2>3. ASSUME NEW m \in Mappings, add_mapping(m)
          PROVE  LastAdminMappingRemains'
      BY <2>3 DEF add_mapping, LastAdminMappingRemains, AdminMappings
    <2>4. QED
      BY <2>1, <2>2, <2>3 DEF Next, permVars, remove_mapping, RemovalStep,
                              lock_permission, count_mappings
  <1>3. QED
    BY <1>1, <1>2, Serialization, PTL DEF Spec

-----------------------------------------------------------------------------
(***************************************************************************)
(* Every request behaves as if it were served alone. Only remove_mapping   *)
(* asks, a refusal or a deletion ends what was asked, and what one thread  *)
(* deletes no other asks for any more.                                     *)
(***************************************************************************)
LEMMA SameAuthorization == Authorized <=> Promised!Authorized
  BY DEF Authorized, user_has_permission, Promised!Authorized

LEMMA RemovalStepPromised ==
  ASSUME RemovalsAreSerialized, NEW t \in Threads, RemovalStep(t)
  PROVE  [Promised!Next]_<<mappings, Asked>>
  <1>1. /\ TypeOK /\ NoMapping \notin mappings
        /\ target[t] \in mappings \cup {NoMapping}
    BY PermissionsAssumption DEF RemovalsAreSerialized, TypeOK
  <1>2. CASE lock_permission(t)
    BY <1>2 DEF lock_permission, Asked
  <1>3. CASE count_mappings(t)
    <2>1. mappings' = mappings /\ (target' = target \/ target' = [target EXCEPT ![t] = NoMapping])
      BY <1>3 DEF count_mappings
    <2>2. CASE target' = target
      BY <2>1, <2>2 DEF Asked
    <2>3. CASE target' = [target EXCEPT ![t] = NoMapping] /\ target[t] # NoMapping
      <3>1. Asked' = Asked \/ Asked' = Asked \ {target[t]}
        BY <1>1, <2>1, <2>3 DEF Asked, TypeOK
      <3>2. target[t] \in Asked /\ target[t] \in Mappings
        BY <1>1, <2>3 DEF Asked, TypeOK
      <3>3. QED
        BY <2>1, <3>1, <3>2 DEF Promised!Next, Promised!Refuse
    <2>4. CASE target' = [target EXCEPT ![t] = NoMapping] /\ target[t] = NoMapping
      BY <1>1, <2>1, <2>4 DEF Asked, TypeOK
    <2>5. QED
      BY <2>1, <2>2, <2>3, <2>4
  <1>4. CASE delete_mapping(t)
    <2>1. /\ mappings' = mappings \ {target[t]}
          /\ \A u \in Threads : target'[u] = IF target[u] = target[t] THEN NoMapping
                                                                     ELSE target[u]
      BY <1>4 DEF delete_mapping
    <2>2. Asked' = Asked \ {target[t]}
      BY <1>1, <2>1 DEF Asked
    <2>3. CASE target[t] = NoMapping
      BY <1>1, <2>1, <2>2, <2>3 DEF Asked
    <2>4. CASE target[t] # NoMapping
      <3>1. target[t] \in Asked /\ target[t] \in Mappings
        BY <1>1, <2>4 DEF Asked, TypeOK
      <3>2. Promised!Dispensable(target[t])
        <4>1. CASE target[t] \in AdminMappings
          <5>1. Cardinality(AdminMappings) > 1
            BY <1>4, <4>1 DEF RemovalsAreSerialized, delete_mapping
          <5>2. AdminMappings \ {target[t]} # {}
            BY <1>1, <5>1, OneRemains
          <5>3. QED
            BY <5>2 DEF AdminMappings, Promised!Dispensable
        <4>2. CASE target[t] \notin AdminMappings
          BY <1>1, <2>4, <4>2 DEF AdminMappings, Promised!Dispensable
        <4>3. QED
          BY <4>1, <4>2
      <3>3. QED
        BY <2>1, <2>2, <3>1, <3>2 DEF Promised!Next, Promised!Remove
    <2>5. QED
      BY <2>3, <2>4
  <1>5. QED
    BY <1>2, <1>3, <1>4 DEF RemovalStep

(***************************************************************************)
(* The statements of concurrent requests implement the editing of mappings *)
(* one request at a time, where row locks work.                            *)
(***************************************************************************)
THEOREM Implements ==
  ASSUME RowLock = TRUE
  PROVE  Spec => ImplementsPromise
  <1>1. Init => Promised!Init
    BY PermissionsAssumption DEF Init, Promised!Init, Asked
  <1>2. RemovalsAreSerialized /\ [Next]_permVars => [Promised!Next]_<<mappings, Asked>>
    <2> SUFFICES ASSUME RemovalsAreSerialized, [Next]_permVars
                 PROVE  [Promised!Next]_<<mappings, Asked>>
      OBVIOUS
    <2>1. CASE UNCHANGED permVars
      BY <2>1 DEF permVars, Asked
    <2>2. ASSUME NEW m \in Mappings, add_mapping(m)
          PROVE  Promised!Add(m)
      <3>1. /\ target' = target /\ m \notin mappings /\ mappings' = mappings \cup {m}
            /\ Authorized /\ m # NoMapping
        BY <2>2, PermissionsAssumption DEF add_mapping
      <3>2. \A t \in Threads : target[t] # m
        BY <3>1 DEF RemovalsAreSerialized
      <3>3. Asked' = Asked
        BY <3>1, <3>2 DEF Asked
      <3>4. QED
        BY <3>1, <3>3, SameAuthorization DEF Promised!Add
    <2>3. ASSUME NEW t \in Threads, NEW m \in Mappings, remove_mapping(t, m)
          PROVE  Promised!Ask(m)
      <3>1. /\ target' = [target EXCEPT ![t] = m] /\ m \in mappings
            /\ mappings' = mappings /\ Authorized
            /\ target[t] = NoMapping /\ NoMapping \notin mappings /\ TypeOK
        BY <2>3, PermissionsAssumption DEF remove_mapping, RemovalsAreSerialized, TypeOK
      <3>2. Asked' = Asked \cup {m}
        BY <3>1 DEF Asked, TypeOK
      <3>3. QED
        BY <3>1, <3>2, SameAuthorization DEF Promised!Ask
    <2>4. QED
      BY <2>1, <2>2, <2>3, RemovalStepPromised DEF Next, Promised!Next
  <1>3. QED
    BY <1>1, <1>2, Serialization, PTL DEF Spec, ImplementsPromise, Promised!Spec
===============================================================================
