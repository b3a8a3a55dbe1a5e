---------------------------- MODULE MCVolunteerMail ----------------------------
(***************************************************************************)
(* Two addresses, two threads, a few requests. Messages may be sent again  *)
(* until MaxCopies copies have reached the mailbox.                        *)
(***************************************************************************)
EXTENDS VolunteerMail, TLC

CONSTANTS
  MaxRequests,   \* bound on the requests that change the volunteer
  MaxSends,      \* bound on the messages an administrator sends
  MaxSettings,   \* bound on the changes of settings
  MaxCopies      \* bound on the copies of a message

VARIABLES requests, sends, settings

counters == <<requests, sends, settings>>

MCInit ==
  /\ Init
  /\ smtp
  /\ requests = 0 /\ sends = 0 /\ settings = 0

MCNext ==
  \/ /\ \/ \E t \in Threads : Continue(t)
        \/ ~ crashed /\ crash
     /\ \A m \in DOMAIN outbox : copies'[m] <= MaxCopies
     /\ UNCHANGED counters
  \/ /\ requests < MaxRequests
     /\ \E t \in Threads : HandlerStep(t)
     /\ requests' = requests + 1
     /\ UNCHANGED <<sends, settings>>
  \/ /\ sends < MaxSends
     /\ \E t \in Threads : AdminSend(t)
     /\ sends' = sends + 1
     /\ UNCHANGED <<requests, settings>>
  \/ /\ settings < MaxSettings
     /\ \/ mail_template_update("registration_rejected", "disabled")
        \/ smtp_configuration_submit(~ smtp)
     /\ settings' = settings + 1
     /\ UNCHANGED <<requests, sends>>

MCSpec == MCInit /\ [][MCNext]_<<mailVars, counters>> /\ Fairness

(***************************************************************************)
(* Every automatic message is tried: as many as the requests can queue.    *)
(***************************************************************************)
MailIsTried == \A m \in 1..(2 * MaxRequests) : AutomaticMailIsTried(m)

Symmetry == Permutations(Addresses) \cup Permutations(Threads)
===============================================================================
