--------------------------- MODULE PermissionMappings ---------------------------
(***************************************************************************)
(* What administrators may rely on when they edit the permission mappings: *)
(* every change is one they could have made alone. A mapping appears       *)
(* because somebody with permission admin added it, or anybody where       *)
(* authentication is disabled. It goes because such a person asked for its *)
(* removal while it was there, and then only if another mapping of         *)
(* permission admin stays at that very moment.                             *)
(***************************************************************************)
CONSTANTS Users, Mappings, Permission, Matches, Bootstrap, NoAuth

VARIABLES
  mappings,  \* the mappings in force
  asked      \* those among them whose removal was asked for and is pending

Init == mappings = Bootstrap /\ asked = {}

Authorized ==
  NoAuth \/ \E u \in Users, m \in mappings : Permission[m] = "admin" /\ u \in Matches[m]

Add(m) ==
  /\ Authorized
  /\ m \notin mappings
  /\ mappings' = mappings \cup {m}
  /\ UNCHANGED asked

Ask(m) ==
  /\ Authorized
  /\ m \in mappings
  /\ asked' = asked \cup {m}
  /\ UNCHANGED mappings

Dispensable(m) ==
  Permission[m] = "admin" => \E n \in mappings \ {m} : Permission[n] = "admin"

Remove(m) ==
  /\ m \in asked
  /\ Dispensable(m)
  /\ mappings' = mappings \ {m}
  /\ asked' = asked \ {m}

Refuse(m) ==
  /\ m \in asked
  /\ asked' = asked \ {m}
  /\ UNCHANGED mappings

Next == \E m \in Mappings : Add(m) \/ Ask(m) \/ Remove(m) \/ Refuse(m)

Spec == Init /\ [][Next]_<<mappings, asked>>
===============================================================================
