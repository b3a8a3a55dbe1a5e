-------------------------------- MODULE SignIn --------------------------------
(***************************************************************************)
(* What signing in promises to the people at their browsers: a browser is  *)
(* signed in as somebody who proved at the identity provider, from this    *)
(* very browser, to be that person; and no step changes for two browsers   *)
(* who is signed in there, unless it signs them out.                       *)
(***************************************************************************)
CONSTANTS Browsers, Users, NoOne

VARIABLES
  who,      \* browser -> the person signed in there, or NoOne
  proved    \* browser -> the people who proved their identity from it

Init ==
  /\ who = [b \in Browsers |-> NoOne]
  /\ proved = [b \in Browsers |-> {}]

Prove(b, u) ==
  /\ proved' = [proved EXCEPT ![b] = @ \cup {u}]
  /\ UNCHANGED who

EnterAs(b, u) ==
  /\ u \in proved[b]
  /\ who' = [who EXCEPT ![b] = u]
  /\ UNCHANGED proved

\* By the person, by expiry, by a restart or for want of room.
Leave(S) ==
  /\ who' = [b \in Browsers |-> IF b \in S THEN NoOne ELSE who[b]]
  /\ UNCHANGED proved

Next ==
  \/ \E b \in Browsers, u \in Users : Prove(b, u) \/ EnterAs(b, u)
  \/ \E S \in SUBSET Browsers : Leave(S)

Spec == Init /\ [][Next]_<<who, proved>>
===============================================================================
