--------------------------- MODULE AdminPermissions ---------------------------
(***************************************************************************)
(* The permission mappings that decide who may administer the application  *)
(* (app/services/permissions.py, app/api/admin_permissions.py), edited by  *)
(* administrators in concurrent requests. remove_mapping reads, locks,     *)
(* counts and deletes in separate statements, each an action here; the     *)
(* other requests write in one statement.                                  *)
(*                                                                         *)
(* Left out: display names, labels, descriptions and the audit entries.    *)
(* delete_permission is refused for every permission there is: all are     *)
(* system permissions.                                                     *)
(***************************************************************************)
EXTENDS Integers, FiniteSets

CONSTANTS
  Threads,     \* worker threads
  Users,       \* people with an authenticated session
  Mappings,    \* mapping rows that may exist, by (permission, type, value)
  Permission,  \* mapping -> the name of the permission it belongs to
  Matches,     \* mapping -> the users whose roles, groups or email it names
  Bootstrap,   \* the mappings the migration creates
  RowLock,     \* SELECT FOR UPDATE locks: TRUE on PostgreSQL, FALSE on SQLite
  NoAuth,      \* auth_mode is "disabled", as in development and demos
  NoThread,
  NoMapping

ASSUME PermissionsAssumption ==
  /\ IsFiniteSet(Mappings)
  /\ Permission \in [Mappings -> STRING]
  /\ Matches \in [Mappings -> SUBSET Users]
  /\ Bootstrap \subseteq Mappings
  /\ \E m \in Bootstrap : Permission[m] = "admin"
  /\ RowLock \in BOOLEAN
  /\ NoAuth \in BOOLEAN
  /\ NoThread \notin Threads
  /\ NoMapping \notin Mappings

VARIABLES
  mappings,  \* the committed mapping rows
  at,        \* thread -> the statement of remove_mapping it executes next
  target,    \* thread -> the row it removes; NoMapping once that row is gone
  lock       \* the thread whose transaction holds the lock on permission admin

permVars == <<mappings, at, target, lock>>

TypeOK ==
  /\ mappings \subseteq Mappings
  /\ at \in [Threads -> {"idle", "lock", "count", "delete"}]
  /\ target \in [Threads -> Mappings \cup {NoMapping}]
  /\ lock \in Threads \cup {NoThread}

Init ==
  /\ mappings = Bootstrap
  /\ at = [t \in Threads |-> "idle"]
  /\ target = [t \in Threads |-> NoMapping]
  /\ lock = NoThread

-----------------------------------------------------------------------------
AdminMappings == {m \in mappings : Permission[m] = "admin"}

(***************************************************************************)
(* Fails closed: a permission without mappings is held by nobody.          *)
(***************************************************************************)
user_has_permission(u, name) ==
  \E m \in mappings : Permission[m] = name /\ u \in Matches[m]

\* require_permission("admin"), at the start of every request modelled here;
\* without authentication everybody passes.
Authorized == NoAuth \/ \E u \in Users : user_has_permission(u, "admin")

(***************************************************************************)
(* The inserted row refers to the permission row, so that its insertion    *)
(* waits for whoever locked it.                                            *)
(***************************************************************************)
add_mapping(m) ==
  /\ Authorized
  /\ m \notin mappings
  /\ Permission[m] = "admin" => lock = NoThread
  /\ mappings' = mappings \cup {m}
  /\ UNCHANGED <<at, target, lock>>

remove_mapping(t, m) ==
  /\ at[t] = "idle"
  /\ Authorized
  /\ m \in mappings
  /\ target' = [target EXCEPT ![t] = m]
  /\ at' = [at EXCEPT ![t] = IF Permission[m] = "admin" THEN "lock" ELSE "delete"]
  /\ UNCHANGED <<mappings, lock>>

\* Faulty variant: the permission is selected without FOR UPDATE.
lock_permission_plain(t) ==
  /\ at[t] = "lock"
  /\ at' = [at EXCEPT ![t] = "count"]
  /\ UNCHANGED <<mappings, target, lock>>

lock_permission(t) ==
  /\ at[t] = "lock"
  /\ lock = NoThread
  /\ lock' = IF RowLock THEN t ELSE lock
  /\ at' = [at EXCEPT ![t] = "count"]
  /\ UNCHANGED <<mappings, target>>

Released(t) == IF lock = t THEN NoThread ELSE lock

\* Faulty variant: a refused removal does not end its transaction.
count_mappings_keeps_lock(t) ==
  /\ at[t] = "count"
  /\ \/ /\ Cardinality(AdminMappings) > 1
        /\ at' = [at EXCEPT ![t] = "delete"]
        /\ UNCHANGED target
     \/ /\ Cardinality(AdminMappings) <= 1
        /\ at' = [at EXCEPT ![t] = "idle"]
        /\ target' = [target EXCEPT ![t] = NoMapping]
  /\ UNCHANGED <<mappings, lock>>

\* Faulty variant: the removed mapping is counted among those that remain.
count_mappings_off_by_one(t) ==
  /\ at[t] = "count"
  /\ Cardinality(AdminMappings) > 0
  /\ at' = [at EXCEPT ![t] = "delete"]
  /\ UNCHANGED <<mappings, target, lock>>

count_mappings(t) ==
  /\ at[t] = "count"
  /\ \/ /\ Cardinality(AdminMappings) > 1
        /\ at' = [at EXCEPT ![t] = "delete"]
        /\ UNCHANGED <<target, lock>>
     \/ /\ Cardinality(AdminMappings) <= 1
        /\ at' = [at EXCEPT ![t] = "idle"]
        /\ target' = [target EXCEPT ![t] = NoMapping]
        /\ lock' = Released(t)
  /\ UNCHANGED mappings

\* Faulty variant: the row is deleted by its values, whoever added them since.
delete_mapping_by_value(t) ==
  /\ at[t] = "delete"
  /\ mappings' = mappings \ {target[t]}
  /\ target' = [target EXCEPT ![t] = NoMapping]
  /\ at' = [at EXCEPT ![t] = "idle"]
  /\ lock' = Released(t)

(***************************************************************************)
(* The deletion and its commit, by the id of the row. The row may be gone  *)
(* by then, also when its values were added again under another id:        *)
(* deleting no row is not an error.                                        *)
(***************************************************************************)
delete_mapping(t) ==
  /\ at[t] = "delete"
  /\ mappings' = mappings \ {target[t]}
  /\ target' = [u \in Threads |-> IF target[u] = target[t] THEN NoMapping ELSE target[u]]
  /\ at' = [at EXCEPT ![t] = "idle"]
  /\ lock' = Released(t)

RemovalStep(t) == lock_permission(t) \/ count_mappings(t) \/ delete_mapping(t)

Next ==
  \/ \E m \in Mappings : add_mapping(m)
  \/ \E t \in Threads :
       \/ \E m \in Mappings : remove_mapping(t, m)
       \/ RemovalStep(t)

(***************************************************************************)
(* A thread of the pool keeps running the handler it is in, and PostgreSQL *)
(* grants a row lock to its waiters in the order they came.                *)
(***************************************************************************)
Fairness ==
  \A t \in Threads :
    /\ SF_permVars(lock_permission(t))
    /\ WF_permVars(count_mappings(t) \/ delete_mapping(t))

Spec == Init /\ [][Next]_permVars
FairSpec == Spec /\ Fairness

-----------------------------------------------------------------------------
(***************************************************************************)
(* "The last admin mapping cannot be removed" (README, remove_mapping): no *)
(* interleaving of requests leaves permission admin without a mapping,     *)
(* after which nobody could administer permissions again.                  *)
(***************************************************************************)
LastAdminMappingRemains == AdminMappings # {}

(***************************************************************************)
(* Why it holds with row locks: whoever counts or is about to delete an    *)
(* admin mapping holds the lock, and what was counted is still there. Only *)
(* such a thread holds it: refused and finished removals leave it to the   *)
(* next. A removal names its row while both of them last.                  *)
(***************************************************************************)
RemovalsAreSerialized ==
  /\ TypeOK
  /\ lock # NoThread => at[lock] \in {"count", "delete"}
  /\ \A t \in Threads :
       /\ target[t] \in mappings \cup {NoMapping}
       /\ at[t] = "idle" => target[t] = NoMapping
       /\ at[t] = "count" => lock = t
       /\ at[t] = "delete" /\ target[t] \in AdminMappings =>
            lock = t /\ Cardinality(AdminMappings) > 1

(***************************************************************************)
(* A removal that began is carried out or refused: no thread waits for the *)
(* lock for ever.                                                          *)
(***************************************************************************)
RemovalsEnd == \A t \in Threads : at[t] # "idle" ~> at[t] = "idle"

(***************************************************************************)
(* Whatever requests overlap, the mappings change as if each request were  *)
(* served alone: a mapping goes only if somebody with permission admin     *)
(* asked for its removal since it was last added, and not as the last one  *)
(* of permission admin.                                                    *)
(***************************************************************************)
Asked == mappings \cap {target[t] : t \in Threads}

Promised == INSTANCE PermissionMappings WITH asked <- Asked

ImplementsPromise == Promised!Spec
===============================================================================
