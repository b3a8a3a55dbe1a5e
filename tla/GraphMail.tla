------------------------------ MODULE GraphMail ------------------------------
(***************************************************************************)
(* The transactional mail service (app/mail) and its one caller, the       *)
(* administrator's test mail (app/api/admin_mail.py): one access token, up *)
(* to max_attempts requests to Microsoft Graph, each of which may be lost, *)
(* may time out after it was accepted, or may be answered, and a snapshot  *)
(* of the last outcome in memory.                                          *)
(*                                                                         *)
(* Left out: contents and attachments (the test mail has one recipient and *)
(* none), correlation ids, logging and the length of the delays.           *)
(***************************************************************************)
EXTENDS Integers

CONSTANTS
  Threads,       \* worker threads
  MaxAttempts,   \* max_attempts of MicrosoftGraphMailProvider
  Statuses,      \* HTTP statuses the service may answer with
  NoOutcome

Accepting == {200, 202}
transient_statuses == {429, 500, 502, 503, 504}

ErrorCodes ==
  {"authentication_failed", "authorization_failed", "mailbox_not_found", "throttled",
   "invalid_recipient", "provider_unavailable", "invalid_request", "network_timeout",
   "network_failure"}

Outcomes == {"success"} \cup ErrorCodes

ASSUME GraphMailAssumption ==
  /\ MaxAttempts \in Nat \ {0}
  /\ Statuses \subseteq Nat
  /\ NoOutcome \notin Outcomes

VARIABLES
  mail_provider,  \* "console" or "graph", from the configuration
  at,             \* thread -> what it does next
  attempt,        \* thread -> the attempt it is in
  outcome,        \* thread -> "success", or the error_code of its last attempt
  copies,         \* thread -> times the service accepted its message
  doubtful,       \* thread -> attempts without an answer that settles what became of them
  last_test       \* _last_test

mailVars == <<mail_provider, at, attempt, outcome, copies, doubtful, last_test>>

MailTypeOK ==
  /\ mail_provider \in {"console", "graph"}
  /\ at \in [Threads -> {"idle", "token", "post", "delay", "record", "audit"}]
  /\ attempt \in [Threads -> 0..MaxAttempts]
  /\ outcome \in [Threads -> Outcomes \cup {NoOutcome}]
  /\ copies \in [Threads -> 0..MaxAttempts]
  /\ doubtful \in [Threads -> 0..MaxAttempts]
  /\ last_test \in Outcomes \cup {NoOutcome}

MailInit ==
  /\ mail_provider \in {"console", "graph"}
  /\ at = [t \in Threads |-> "idle"]
  /\ attempt = [t \in Threads |-> 0]
  /\ outcome = [t \in Threads |-> NoOutcome]
  /\ copies = [t \in Threads |-> 0]
  /\ doubtful = [t \in Threads |-> 0]
  /\ last_test = NoOutcome

-----------------------------------------------------------------------------
\* MicrosoftGraphMailProvider._error_code
_error_code(status) ==
  CASE status = 401 -> "authentication_failed"
    [] status = 403 -> "authorization_failed"
    [] status = 404 -> "mailbox_not_found"
    [] status = 429 -> "throttled"
    [] status = 400 -> "invalid_recipient"
    [] status >= 500 -> "provider_unavailable"
    [] OTHER -> "invalid_request"

\* provider.send returns; MailSendResult is what its caller sees.
Finish(t, result) ==
  /\ at' = [at EXCEPT ![t] = "record"]
  /\ outcome' = [outcome EXCEPT ![t] = result]

\* ConsoleMailProvider logs the message and reports success at once.
console_send(t) == Finish(t, "success")

(***************************************************************************)
(* POST /admin/mail/test; an address that is not one is refused before     *)
(* this point.                                                             *)
(***************************************************************************)
admin_mail_test(t) ==
  /\ at[t] = "idle"
  /\ IF mail_provider = "console"
       THEN console_send(t)
       ELSE /\ at' = [at EXCEPT ![t] = "token"]
            /\ outcome' = [outcome EXCEPT ![t] = NoOutcome]
  /\ attempt' = [attempt EXCEPT ![t] = 0]
  /\ copies' = [copies EXCEPT ![t] = 0]
  /\ doubtful' = [doubtful EXCEPT ![t] = 0]
  /\ UNCHANGED <<mail_provider, last_test>>

\* Faulty variant: the loop is over range(max_attempts + 1).
get_access_token_then_from_zero(t) ==
  /\ at[t] = "token"
  /\ at' = [at EXCEPT ![t] = "post"]
  /\ attempt' = [attempt EXCEPT ![t] = 0]
  /\ UNCHANGED <<mail_provider, outcome, copies, doubtful, last_test>>

(***************************************************************************)
(* Managed identity always fails here; a client secret may. With a token   *)
(* the loop over the attempts begins.                                      *)
(***************************************************************************)
get_access_token(t) ==
  /\ at[t] = "token"
  /\ \/ /\ at' = [at EXCEPT ![t] = "post"]
        /\ attempt' = [attempt EXCEPT ![t] = 1]
        /\ UNCHANGED outcome
     \/ /\ Finish(t, "authentication_failed")
        /\ UNCHANGED attempt
  /\ UNCHANGED <<mail_provider, copies, doubtful, last_test>>

\* An attempt that may be repeated sleeps and continues the loop, unless it
\* was the last one. Either way error_code is assigned.
Retry(t, code) ==
  IF attempt[t] < MaxAttempts
    THEN /\ at' = [at EXCEPT ![t] = "delay"]
         /\ outcome' = [outcome EXCEPT ![t] = code]
    ELSE Finish(t, code)

\* Faulty variant: 202 Accepted is taken for an error.
Settle_200_only(t, status) ==
  IF status = 200 THEN Finish(t, "success")
  ELSE IF status \in transient_statuses THEN Retry(t, _error_code(status))
  ELSE Finish(t, _error_code(status))

\* What the loop does with an answer.
Settle(t, status) ==
  IF status \in Accepting THEN Finish(t, "success")
  ELSE IF status \in transient_statuses THEN Retry(t, _error_code(status))
  ELSE Finish(t, _error_code(status))

(***************************************************************************)
(* The service accepts the message or not, and answers or not. A gateway   *)
(* answers 5xx also for a message that was accepted behind it; every other *)
(* status tells what became of it.                                         *)
(***************************************************************************)
Tells(status) == status < 500

Arrived(t, accepted, doubt) ==
  /\ copies' = [copies EXCEPT ![t] = IF accepted THEN @ + 1 ELSE @]
  /\ doubtful' = [doubtful EXCEPT ![t] = IF doubt THEN @ + 1 ELSE @]

post_answered(t) ==
  /\ at[t] = "post"
  /\ \E status \in Statuses, accepted \in BOOLEAN :
       /\ Tells(status) => (accepted <=> status \in Accepting)
       /\ Arrived(t, accepted, ~ Tells(status))
       /\ Settle(t, status)
  /\ UNCHANGED <<mail_provider, attempt, last_test>>

\* httpx.TimeoutException or httpx.RequestError
post_unanswered(t) ==
  /\ at[t] = "post"
  /\ \E code \in {"network_timeout", "network_failure"}, accepted \in BOOLEAN :
       /\ Arrived(t, accepted, TRUE)
       /\ Retry(t, code)
  /\ UNCHANGED <<mail_provider, attempt, last_test>>

\* Faulty variant: the loop is a while loop, and its counter stands still.
post_again_uncounted(t) ==
  /\ at[t] = "delay"
  /\ at' = [at EXCEPT ![t] = "post"]
  /\ UNCHANGED <<mail_provider, attempt, outcome, copies, doubtful, last_test>>

(***************************************************************************)
(* sleep() is over and the loop goes on: for attempt in range(1,           *)
(* max_attempts + 1). Past the range the last error_code is returned; the  *)
(* test in Retry leaves before that.                                       *)
(***************************************************************************)
post_again(t) ==
  /\ at[t] = "delay"
  /\ IF attempt[t] + 1 \in 1..MaxAttempts
       THEN /\ at' = [at EXCEPT ![t] = "post"]
            /\ attempt' = [attempt EXCEPT ![t] = @ + 1]
            /\ UNCHANGED outcome
       ELSE Finish(t, outcome[t]) /\ UNCHANGED attempt
  /\ UNCHANGED <<mail_provider, copies, doubtful, last_test>>

record_test_status(t) ==
  /\ at[t] = "record"
  /\ at' = [at EXCEPT ![t] = "audit"]
  /\ last_test' = outcome[t]
  /\ UNCHANGED <<mail_provider, attempt, outcome, copies, doubtful>>

\* Everything between the request and its audit entry.
MailStep(t) ==
  \/ get_access_token(t)
  \/ post_answered(t)
  \/ post_unanswered(t)
  \/ post_again(t)
  \/ record_test_status(t)

-----------------------------------------------------------------------------
(***************************************************************************)
(* What is reported of a sending agrees with what reached the service: a   *)
(* success was accepted, a failure was not unless an attempt stayed        *)
(* doubtful, and there are no more copies than the doubtful attempts       *)
(* explain (MicrosoftGraphMailProvider.send, providers.py:124).            *)
(***************************************************************************)
CopiesAreAccounted ==
  mail_provider = "graph" =>
    \A t \in Threads :
      /\ copies[t] <= doubtful[t] + (IF outcome[t] = "success" THEN 1 ELSE 0)
      /\ outcome[t] = "success" => copies[t] >= 1
===============================================================================
