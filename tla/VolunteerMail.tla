----------------------------- MODULE VolunteerMail -----------------------------
(***************************************************************************)
(* The e-mail address of one volunteer, its verification, and the outbox:  *)
(* the columns of volunteers that decide about them, the rows of           *)
(* outbox_messages of that volunteer, and every handler that writes either *)
(* (app/services/registrations.py, admin.py, mail_templates.py,            *)
(* mail_delivery.py and the routes of app/main.py and app/api/public.py).  *)
(*                                                                         *)
(* A request has up to three phases in its thread: the handler reads and   *)
(* decides (one action), the session commits the columns it changed        *)
(* (Commit), and send_pending_automatic_messages sends message by message. *)
(* The process may end in between, and so may the connection to the SMTP   *)
(* server. Left out: names, texts, the event's registration window (any    *)
(* edit may come at any time), and the shifts, see Registrations.          *)
(***************************************************************************)
EXTENDS Integers, Sequences

CONSTANTS
  Addresses,   \* e-mail addresses a volunteer may enter
  Marker,      \* anonym-<id>@example.invalid
  Threads      \* worker threads

ASSUME AddressesAssumption == Marker \notin Addresses

Kinds ==
  {"email_verification", "email_changed_verification", "registration_updated",
   "registration_cancellation", "registration_rejected", "waitlist_promoted"}
Verifications == {"email_verification", "email_changed_verification"}

Modes == {"automatic", "manual", "disabled"}

DefaultMode == [k \in Kinds |->
  IF k \in {"registration_updated", "registration_cancellation"} THEN "manual"
                                                                 ELSE "automatic"]

VARIABLES
  row,        \* the committed volunteer row
  outbox,     \* the committed messages, in id order
  template,   \* delivery_mode of the mail templates
  smtp,       \* there is an SMTP configuration and it is enabled
  issued,     \* verification tokens handed out so far; a token is its number
  at,         \* thread -> what it does next
  request,    \* thread -> what its session is about to commit
  list,       \* thread -> ids of the messages it has yet to send, in id order
  copies,     \* message -> copies that reached the mailbox
  confirmed,  \* addresses confirmed since the current address was entered
  stale,      \* some session committed onto a row that had changed meanwhile
  mishaps,    \* messages two threads were sending at once, or whose sending was cut off
  crashed     \* the process has ended and was started again

mailVars == <<row, outbox, template, smtp, issued, at, request, list, copies,
              confirmed, stale, mishaps, crashed>>

\* A token of 0 is email_verification_token_hash IS NULL.
NoVolunteer == [email |-> Marker, verified |-> FALSE, token |-> 0,
                editable |-> FALSE, anonymized |-> FALSE]

Idle == [seen |-> NoVolunteer, wanted |-> NoVolunteer, mails |-> <<>>,
         superseded |-> {}, opened |-> {}, sends |-> FALSE]

Init ==
  /\ row = NoVolunteer
  /\ outbox = <<>>
  /\ template = DefaultMode
  /\ smtp \in BOOLEAN
  /\ issued = 0
  /\ at = [t \in Threads |-> "idle"]
  /\ request = [t \in Threads |-> Idle]
  /\ list = [t \in Threads |-> {}]
  /\ copies = <<>>
  /\ confirmed = {}
  /\ stale = FALSE
  /\ mishaps = {}
  /\ crashed = FALSE

-----------------------------------------------------------------------------
Registered == row # NoVolunteer

(***************************************************************************)
(* The message is addressed when it is queued, and keeps the mode its      *)
(* template had then.                                                      *)
(***************************************************************************)
queue_templated_mail(kind, to, token) ==
  IF template[kind] = "disabled" THEN <<>>
  ELSE <<[kind |-> kind, to |-> to, token |-> token, mode |-> template[kind],
          sent |-> FALSE, error |-> FALSE]>>

PendingVerifications ==
  {m \in DOMAIN outbox : outbox[m].kind \in Verifications /\ ~ outbox[m].sent}

\* Faulty variant: a new token is issued and the verification is kept.
Readdressed_keeps_verified(a) == [row EXCEPT !.email = a, !.token = issued + 1]

\* issue_email_verification_token for the address a
Readdressed(a) ==
  [row EXCEPT !.email = a, !.verified = FALSE, !.token = issued + 1]

\* Faulty variant: the pending verification link outlives the anonymization.
Anonymized_keeps_token ==
  [row EXCEPT !.email = Marker, !.verified = FALSE, !.editable = FALSE,
              !.anonymized = TRUE]

Anonymized ==
  [email |-> Marker, verified |-> FALSE, token |-> 0, editable |-> FALSE,
   anonymized |-> TRUE]

(***************************************************************************)
(* The handler of thread t ran: it leaves the row as wanted, with messages *)
(* mails to insert and the messages superseded to disable; sends tells     *)
(* whether its route calls send_pending_automatic_messages.                *)
(***************************************************************************)
Handled(t, wanted, mails, superseded, opened, sends) ==
  /\ at[t] = "idle"
  /\ at' = [at EXCEPT ![t] = "commit"]
  /\ request' = [request EXCEPT ![t] =
       [seen |-> row, wanted |-> wanted, mails |-> mails, superseded |-> superseded,
        opened |-> opened, sends |-> sends]]
  /\ UNCHANGED <<row, outbox, template, smtp, list, copies, confirmed, stale, mishaps,
                 crashed>>

create_registration(t, a) ==
  /\ ~ Registered
  /\ \A u \in Threads : at[u] = "idle"   \* one volunteer is modelled
  /\ Handled(t,
       [email |-> a, verified |-> FALSE, token |-> issued + 1, editable |-> TRUE,
        anonymized |-> FALSE],
       queue_templated_mail("email_verification", a, issued + 1), {}, {}, TRUE)
  /\ issued' = issued + 1

\* Entered by an administrator: no edit link, no verification, no mail.
create_volunteer_admin(t, a) ==
  /\ ~ Registered
  /\ \A u \in Threads : at[u] = "idle"
  /\ Handled(t,
       [email |-> a, verified |-> FALSE, token |-> 0, editable |-> FALSE,
        anonymized |-> FALSE], <<>>, {}, {}, FALSE)
  /\ UNCHANGED issued

update_registration(t, a) ==
  /\ row.editable
  /\ \/ /\ a = row.email
        /\ Handled(t, row, queue_templated_mail("registration_updated", a, 0), {}, {}, TRUE)
        /\ UNCHANGED issued
     \/ /\ a # row.email
        /\ Handled(t, Readdressed(a),
             queue_templated_mail("registration_updated", a, 0)
               \o queue_templated_mail("email_changed_verification", a, issued + 1),
             PendingVerifications, {}, TRUE)
        /\ issued' = issued + 1

(***************************************************************************)
(* Whoever reads the mailbox opens the link in message m, in time or       *)
(* after EMAIL_VERIFICATION_TTL.                                           *)
(***************************************************************************)
verify_email_token(t, m) ==
  /\ copies[m] > 0
  /\ outbox[m].token # 0
  /\ row.token = outbox[m].token
  /\ \/ Handled(t, [row EXCEPT !.verified = TRUE, !.token = 0], <<>>, {},
                {outbox[m].to}, FALSE)
     \/ Handled(t, [row EXCEPT !.token = 0], <<>>, {}, {}, FALSE)
  /\ UNCHANGED issued

reject_volunteer(t) ==
  /\ Registered
  /\ Handled(t, [row EXCEPT !.editable = FALSE],
             queue_templated_mail("registration_rejected", row.email, 0), {}, {}, TRUE)
  /\ UNCHANGED issued

anonymize_volunteer(t) ==
  /\ Registered
  /\ ~ row.anonymized
  /\ Handled(t, Anonymized, <<>>, {}, {}, FALSE)
  /\ UNCHANGED issued

(***************************************************************************)
(* The mails of cancel_assignment and of promote_first_waitlisted; the     *)
(* latter queues its own in a transaction after the one that promotes.     *)
(***************************************************************************)
notify(t, kind) ==
  /\ Registered
  /\ \/ kind = "registration_cancellation" /\ row.editable
     \/ kind = "waitlist_promoted"
  /\ Handled(t, row, queue_templated_mail(kind, row.email, 0), {}, {}, TRUE)
  /\ UNCHANGED issued

-----------------------------------------------------------------------------
\* The session writes a column only if its value differs from the one loaded.
Column(current, loaded, left) == IF left = loaded THEN current ELSE left

MergedRow(r) ==
  [email |-> Column(row.email, r.seen.email, r.wanted.email),
   verified |-> Column(row.verified, r.seen.verified, r.wanted.verified),
   token |-> Column(row.token, r.seen.token, r.wanted.token),
   editable |-> Column(row.editable, r.seen.editable, r.wanted.editable),
   anonymized |-> Column(row.anonymized, r.seen.anonymized, r.wanted.anonymized)]

Superseded(messages, ids) ==
  [m \in DOMAIN messages |->
     IF m \in ids THEN [messages[m] EXCEPT !.mode = "disabled", !.error = TRUE]
                  ELSE messages[m]]

Commit(t) ==
  LET r == request[t]
  IN /\ at[t] = "commit"
     /\ row' = MergedRow(r)
     /\ outbox' = Superseded(outbox, r.superseded) \o r.mails
     /\ copies' = copies \o [i \in DOMAIN r.mails |-> 0]
     /\ confirmed' = IF row'.email = row.email THEN confirmed \cup r.opened
                                               ELSE r.opened
     /\ stale' = (stale \/ row # r.seen)
     /\ at' = [at EXCEPT ![t] = IF r.sends THEN "load" ELSE "idle"]
     /\ request' = [request EXCEPT ![t] = Idle]
     /\ UNCHANGED <<template, smtp, issued, list, mishaps, crashed>>

-----------------------------------------------------------------------------
(***************************************************************************)
(* Sending. Ids some other thread is sending as well are on record. The    *)
(* SMTP configuration is read with the list; the session keeps the object  *)
(* until its next commit, after which it is read again (configured).       *)
(***************************************************************************)
SentByOthers(t, ids) == ids \cap UNION {list[u] : u \in Threads \ {t}}

Begin(t, ids) ==
  /\ list' = [list EXCEPT ![t] = ids]
  /\ at' = [at EXCEPT ![t] = IF ids = {} THEN "idle" ELSE "send"]
  /\ mishaps' = mishaps \cup SentByOthers(t, ids)

\* The message thread t is sending: lists are worked off in id order.
Current(t) == CHOOSE m \in list[t] : \A n \in list[t] : m <= n

\* Faulty variant: messages already sent are loaded as well.
Automatic_sent_too(m) == outbox[m].mode = "automatic"

Automatic(m) == outbox[m].mode = "automatic" /\ ~ outbox[m].sent

send_pending_automatic_messages(t) ==
  /\ at[t] = "load"
  /\ Begin(t, IF smtp THEN {m \in DOMAIN outbox : Automatic(m)} ELSE {})
  /\ UNCHANGED <<row, outbox, template, smtp, issued, request, copies, confirmed, stale,
                 crashed>>

send_outbox_message_admin(t, m) ==
  /\ at[t] = "idle"
  /\ ~ outbox[m].sent
  /\ outbox[m].mode # "disabled"
  /\ smtp
  /\ Begin(t, {m})
  /\ UNCHANGED <<row, outbox, template, smtp, issued, request, copies, confirmed, stale,
                 crashed>>

\* Faulty variant: the first message that fails ends the sending.
Proceed_only_after_success(t, sent) ==
  /\ list' = [list EXCEPT ![t] = IF sent THEN @ \ {Current(t)} ELSE {}]
  /\ at' = [at EXCEPT ![t] = IF list'[t] = {} THEN "idle" ELSE "next"]

\* The next message, or the end of the request.
Proceed(t, sent) ==
  /\ list' = [list EXCEPT ![t] = @ \ {Current(t)}]
  /\ at' = [at EXCEPT ![t] = IF list'[t] = {} THEN "idle" ELSE "next"]

configured(t) ==
  /\ at[t] = "next"
  /\ smtp
  /\ at' = [at EXCEPT ![t] = "send"]
  /\ UNCHANGED <<row, outbox, template, smtp, issued, request, list, copies, confirmed,
                 stale, mishaps, crashed>>

\* SMTP was disabled meanwhile: MailDeliveryError for this message and the rest.
delivery_disabled(t) ==
  /\ at[t] = "next"
  /\ ~ smtp
  /\ at' = [at EXCEPT ![t] = "idle"]
  /\ list' = [list EXCEPT ![t] = {}]
  /\ UNCHANGED <<row, outbox, template, smtp, issued, request, copies, confirmed, stale,
                 mishaps, crashed>>

\* The server accepts the message.
send_message(t) ==
  /\ at[t] = "send"
  /\ copies' = [copies EXCEPT ![Current(t)] = @ + 1]
  /\ at' = [at EXCEPT ![t] = "mark"]
  /\ UNCHANGED <<row, outbox, template, smtp, issued, request, list, confirmed, stale,
                 mishaps, crashed>>

Marked(m) == [outbox EXCEPT ![m].sent = TRUE, ![m].error = FALSE]

mark_sent(t) ==
  /\ at[t] = "mark"
  /\ outbox' = Marked(Current(t))
  /\ Proceed(t, TRUE)
  /\ UNCHANGED <<row, template, smtp, issued, request, copies, confirmed, stale, mishaps,
                 crashed>>

(***************************************************************************)
(* OSError or SMTPException: the server refused or did not answer, in      *)
(* which case it may have accepted the message.                            *)
(***************************************************************************)
delivery_fails(t) ==
  /\ at[t] = "send"
  /\ \/ UNCHANGED <<copies, mishaps>>
     \/ /\ copies' = [copies EXCEPT ![Current(t)] = @ + 1]
        /\ mishaps' = mishaps \cup {Current(t)}
  /\ outbox' = [outbox EXCEPT ![Current(t)].error = TRUE]
  /\ Proceed(t, FALSE)
  /\ UNCHANGED <<row, template, smtp, issued, request, confirmed, stale, crashed>>

-----------------------------------------------------------------------------
mail_template_update(kind, mode) ==
  /\ template' = [template EXCEPT ![kind] = mode]
  /\ UNCHANGED <<row, outbox, smtp, issued, at, request, list, copies, confirmed, stale,
                 mishaps, crashed>>

smtp_configuration_submit(enabled) ==
  /\ smtp' = enabled
  /\ UNCHANGED <<row, outbox, template, issued, at, request, list, copies, confirmed,
                 stale, mishaps, crashed>>

\* The process ends: what was not committed is gone, what was sent is sent.
crash ==
  /\ \E t \in Threads : at[t] # "idle"
  /\ at' = [t \in Threads |-> "idle"]
  /\ request' = [t \in Threads |-> Idle]
  /\ list' = [t \in Threads |-> {}]
  /\ mishaps' = mishaps \cup {Current(t) : t \in {u \in Threads : at[u] = "mark"}}
  /\ crashed' = TRUE
  /\ UNCHANGED <<row, outbox, template, smtp, issued, copies, confirmed, stale>>

-----------------------------------------------------------------------------
HandlerStep(t) ==
  \/ \E a \in Addresses : \/ create_registration(t, a)
                           \/ create_volunteer_admin(t, a)
                           \/ update_registration(t, a)
  \/ \E m \in DOMAIN outbox : verify_email_token(t, m)
  \/ reject_volunteer(t)
  \/ anonymize_volunteer(t)
  \/ \E kind \in {"registration_cancellation", "waitlist_promoted"} : notify(t, kind)

\* What a thread does once its request has begun.
Continue(t) ==
  \/ Commit(t)
  \/ send_pending_automatic_messages(t)
  \/ configured(t)
  \/ send_message(t)
  \/ mark_sent(t)
  \/ delivery_fails(t)
  \/ delivery_disabled(t)

AdminSend(t) == \E m \in DOMAIN outbox : send_outbox_message_admin(t, m)

Configure ==
  \/ \E kind \in Kinds, mode \in Modes : mail_template_update(kind, mode)
  \/ \E enabled \in BOOLEAN : smtp_configuration_submit(enabled)

Next ==
  \/ \E t \in Threads : HandlerStep(t) \/ Continue(t) \/ AdminSend(t)
  \/ Configure
  \/ crash

(***************************************************************************)
(* A thread that began a request finishes it: smtplib is called with a     *)
(* timeout, and nothing else waits.                                        *)
(***************************************************************************)
Fairness == \A t \in Threads : WF_mailVars(Continue(t))

Spec == Init /\ [][Next]_mailVars /\ Fairness

-----------------------------------------------------------------------------
(***************************************************************************)
(* "A changed e-mail address requires a new confirmation": the address of  *)
(* a verified volunteer was confirmed from its own mailbox after it was    *)
(* entered, whatever links to earlier addresses are delivered or opened    *)
(* late, as long as no session committed onto a row that had changed.      *)
(***************************************************************************)
VerifiedWasConfirmed == ~ stale /\ row.verified => row.email \in confirmed

(***************************************************************************)
(* Anonymization is final: no edit, link or rejection that comes later     *)
(* puts an address, a verification or a token back, with the same proviso. *)
(***************************************************************************)
AnonymizedStaysEmpty ==
  ~ stale /\ row.anonymized =>
    row.email = Marker /\ ~ row.verified /\ row.token = 0 /\ ~ row.editable

(***************************************************************************)
(* A message reaches the mailbox twice only if two requests were sending   *)
(* it at once or its sending was cut off by a crash or a lost answer.      *)
(***************************************************************************)
RepeatedOnlyAfterMishap ==
  \A m \in DOMAIN outbox : copies[m] > 1 => m \in mishaps

(***************************************************************************)
(* An automatic message is tried: while SMTP stays enabled and the process *)
(* does not end, each one is sent or leaves an error to act on, although   *)
(* others fail before it.                                                  *)
(***************************************************************************)
Tried(m) == outbox[m].sent \/ outbox[m].error

AutomaticMailIsTried(m) ==
  [](smtp /\ ~ crashed) =>
    (m \in DOMAIN outbox /\ outbox[m].mode = "automatic")
      ~> (m \in DOMAIN outbox /\ Tried(m))

(***************************************************************************)
(* Nor is it forgotten meanwhile: from the commit that queues it until it  *)
(* is tried, a thread has it on its list or is about to load it, whatever  *)
(* other threads load, send, fail to send or supersede, unless SMTP is     *)
(* disabled or the process ends.                                           *)
(***************************************************************************)
Untried(m) == outbox[m].mode = "automatic" /\ ~ Tried(m)

CaredFor(m) == \E t \in Threads : at[t] = "load" \/ m \in list[t]

AutomaticMailIsKept ==
  [][\A m \in DOMAIN outbox' :
       Untried(m)' /\ (m \in DOMAIN outbox => CaredFor(m)) =>
         CaredFor(m)' \/ ~ smtp \/ crash]_mailVars

(***************************************************************************)
(* "Anonymization removes personal data and edit access irreversibly": no  *)
(* row still names an address of the anonymized volunteer.                 *)
(***************************************************************************)
AnonymizationRemovesAddress ==
  row.anonymized => \A m \in DOMAIN outbox : outbox[m].to = Marker
===============================================================================
