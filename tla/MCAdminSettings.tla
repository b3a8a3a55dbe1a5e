--------------------------- MODULE MCAdminSettings ---------------------------
(***************************************************************************)
(* A few edits and a few test mails in two threads.                        *)
(***************************************************************************)
EXTENDS AdminSettings, TLC

CONSTANTS
  MaxEdits,    \* bound on the edits, where no test mail is sent; one less else
  MaxTests     \* bound on the test mails, where nothing is edited; one less else

VARIABLES edits, tests

mcVars == <<allVars, edits, tests>>

Url(host) == [scheme |-> "https", host |-> host, credentials |-> FALSE, port |-> "valid"]
MCUrls == {Url("public"), Url("private")}

File(declared, actual) == [declared |-> declared, actual |-> actual, fits |-> TRUE, active |-> FALSE]
MCFiles == {File("image/png", "image/png"), File("image/svg+xml", "image/svg+xml"),
            File("image/png", "other")}

MCLinks ==
  {[kind |-> "empty", wellFormed |-> TRUE], [kind |-> "path", wellFormed |-> TRUE],
   [kind |-> "https", wellFormed |-> TRUE], [kind |-> "https", wellFormed |-> FALSE]}

MCInit == Init /\ edits = 0 /\ tests = 0

\* The counters of copies stay finite, also where a loop would not end.
InBounds ==
  /\ \A t \in Threads : copies[t] <= MaxAttempts + 1 /\ doubtful[t] <= MaxAttempts + 1
  /\ edits <= MaxEdits /\ tests <= MaxTests
  /\ edits = MaxEdits => tests = 0
  /\ tests = MaxTests => edits = 0

MCNext ==
  /\ \E t \in Threads :
       \/ Edit(t) /\ edits' = edits + 1 /\ UNCHANGED tests
       \/ test_mail(t) /\ tests' = tests + 1 /\ UNCHANGED edits
       \/ Continue(t) /\ UNCHANGED <<edits, tests>>
  /\ InBounds'

MCSpec ==
  /\ MCInit
  /\ [][MCNext]_mcVars
  /\ \A t \in Threads : WF_mcVars(Continue(t) /\ UNCHANGED <<edits, tests>>)
===============================================================================
