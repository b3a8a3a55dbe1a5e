---------------------------- MODULE MCOidcSessions ----------------------------
(***************************************************************************)
(* Sign-in from two browsers, on one of two scenes: a race of as many      *)
(* requests as there are in Requests over two logins, or pressure on the   *)
(* tables by three logins with one request at a time.                      *)
(***************************************************************************)
EXTENDS OidcSessions, TLC

CONSTANTS
  MaxAnswers,  \* bound on the answers of the identity provider
  MaxSent      \* bound on the requests sent in one behaviour

VARIABLES scene, sent

mcVars == <<oidcVars, scene, sent>>

MCInit ==
  /\ Init
  /\ scene \in {"race", "pressure"}
  /\ sent = 0

MaxLogins == IF scene = "race" THEN 2 ELSE 3
Horizon == IF scene = "race" THEN 1 ELSE 2      \* where the clock stops
MaxBusy == IF scene = "race" THEN Cardinality(Requests) ELSE 1

Sending == DOMAIN request' \ Busy # {}

\* A page or a logout asked without a cookie reads and changes nothing.
Worthwhile ==
  \A r \in DOMAIN request' \ Busy :
    request'[r].op \in {"page", "logout"} => request'[r].sent # NoCookie

MCNext ==
  /\ Next
  /\ now' <= Horizon
  /\ Len(begun') <= MaxLogins
  /\ Cardinality(answers') <= MaxAnswers
  /\ Cardinality(DOMAIN request') <= MaxBusy
  /\ Worthwhile
  /\ sent' = IF Sending THEN sent + 1 ELSE sent
  /\ sent' <= MaxSent
  /\ UNCHANGED scene

MCSpec == MCInit /\ [][MCNext]_mcVars

Symmetry == Permutations(Browsers) \cup Permutations(Users) \cup Permutations(Requests)
===============================================================================
