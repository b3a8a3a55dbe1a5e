-------------------------- MODULE AdminSettingsProofs --------------------------
(***************************************************************************)
(* Theorems about AdminSettings and GraphMail, for any number of threads,  *)
(* any links, files and addresses, any statuses the mail service may       *)
(* answer with and any number of attempts.                                 *)
(***************************************************************************)
EXTENDS AdminSettings, TLAPS

(***************************************************************************)
(* The inductive invariant. Of a sending under way: every attempt that may *)
(* have been accepted stayed doubtful, and no more were made than are      *)
(* allowed. Of the row in force, and of the rows a request loaded and      *)
(* wants: there is one logo at most. Of a request about to commit: its     *)
(* audit entry tells the row it wants.                                     *)
(***************************************************************************)
Sending(t) ==
  /\ at[t] \in {"token", "post", "delay"} =>
       outcome[t] # "success" /\ copies[t] <= doubtful[t]
  /\ at[t] = "token" => copies[t] = 0 /\ doubtful[t] = 0
  /\ at[t] = "post" => doubtful[t] < attempt[t]
  /\ at[t] = "delay" => doubtful[t] <= attempt[t] /\ attempt[t] < MaxAttempts

SendingCounts ==
  \A t \in Threads :
    /\ at[t] \in {"record", "audit"} => outcome[t] \in Outcomes
    /\ mail_provider = "graph" => Sending(t)
    /\ mail_provider = "console" => at[t] \in {"idle", "record", "audit"}

Logo(row) ==
  IF row.logo_url # None THEN "url"
  ELSE IF row.logo_data # None /\ row.logo_content_type # None THEN "upload"
  ELSE "default"

OneLogo == logo_source(branding)

TypeFits(row) == row.logo_data # None => row.logo_content_type = row.logo_data.actual

Leads(row) == <<legal_target_type(row.privacy_url), legal_target_type(row.imprint_url)>>

EntryTells(r) ==
  /\ r.entry.of = r.of
  /\ r.of = "branding" => /\ r.entry.says = <<Logo(r.wanted)>> /\ TypeFits(r.wanted)
                          /\ logo_source(r.seen) /\ logo_source(r.wanted)
  /\ r.of = "legal" => r.entry.says = Leads(r.wanted)

HasNewest(of) == \E i \in Told(of) : \A j \in Told(of) : j <= i

NewestExists == \A of \in Kinds : Told(of) = {} \/ HasNewest(of)

PendingTells == \A t \in Busy : EntryTells(request[t])

IInv ==
  /\ TypeOK
  /\ SendingCounts
  /\ CopiesAreAccounted
  /\ OneLogo
  /\ PendingTells
  /\ NewestExists
  /\ AuditTellsSettings

-----------------------------------------------------------------------------
(***************************************************************************)
(* The mail service.                                                       *)
(***************************************************************************)
MailInv == MailTypeOK /\ SendingCounts /\ CopiesAreAccounted

LEMMA ErrorCodesAre ==
  ASSUME NEW status
  PROVE  _error_code(status) \in ErrorCodes /\ _error_code(status) # "success"
BY DEF _error_code, ErrorCodes

LEMMA CodesAreNoSuccess ==
  /\ ErrorCodes \subseteq Outcomes /\ "success" \in Outcomes /\ "success" \notin ErrorCodes
  /\ NoOutcome \notin Outcomes
  /\ "network_timeout" \in ErrorCodes /\ "network_failure" \in ErrorCodes
  /\ "authentication_failed" \in ErrorCodes
BY GraphMailAssumption DEF Outcomes, ErrorCodes

LEMMA TestMailKeeps ==
  ASSUME MailInv, NEW t \in Threads, admin_mail_test(t)
  PROVE  MailInv'
<1> USE DEF MailInv
<1>1. 0 \in 0..MaxAttempts
  BY GraphMailAssumption
<1>2. MailTypeOK'
  <2>1. /\ at' \in [Threads -> {"idle", "token", "post", "delay", "record", "audit"}]
        /\ outcome' \in [Threads -> Outcomes \cup {NoOutcome}]
    BY CodesAreNoSuccess DEF admin_mail_test, console_send, Finish, MailTypeOK
  <2> QED BY <1>1, <2>1 DEF admin_mail_test, MailTypeOK
<1>3. SendingCounts'
  BY CodesAreNoSuccess
     DEF admin_mail_test, console_send, Finish, SendingCounts, Sending, MailTypeOK
<1>4. CopiesAreAccounted'
  BY CodesAreNoSuccess
     DEF admin_mail_test, console_send, Finish, CopiesAreAccounted, MailTypeOK
<1> QED BY <1>2, <1>3, <1>4

LEMMA TokenKeeps ==
  ASSUME MailInv, NEW t \in Threads, get_access_token(t)
  PROVE  MailInv'
<1> USE DEF MailInv
<1>1. 1 \in 0..MaxAttempts
  BY GraphMailAssumption
<1>2. MailTypeOK'
  BY <1>1, CodesAreNoSuccess DEF get_access_token, Finish, MailTypeOK
<1>3. SendingCounts'
  BY CodesAreNoSuccess DEF get_access_token, Finish, SendingCounts, Sending, MailTypeOK
<1>4. CopiesAreAccounted'
  BY CodesAreNoSuccess
     DEF get_access_token, Finish, CopiesAreAccounted, SendingCounts, Sending, MailTypeOK
<1> QED BY <1>2, <1>3, <1>4

(***************************************************************************)
(* The outcome of an attempt.                                              *)
(***************************************************************************)
PutOff(t) ==
  /\ attempt[t] < MaxAttempts
  /\ at' = [at EXCEPT ![t] = "delay"]
  /\ \E code \in ErrorCodes : outcome' = [outcome EXCEPT ![t] = code]

Attempted(t, accepted, doubt) ==
  /\ at[t] = "post"
  /\ Arrived(t, accepted, doubt)
  /\ \/ accepted /\ Finish(t, "success")
     \/ /\ accepted => doubt
        /\ PutOff(t) \/ \E code \in ErrorCodes : Finish(t, code)
  /\ UNCHANGED <<mail_provider, attempt, last_test>>

LEMMA AttemptKeeps ==
  ASSUME MailInv, NEW t \in Threads, NEW accepted \in BOOLEAN, NEW doubt \in BOOLEAN,
         Attempted(t, accepted, doubt)
  PROVE  MailInv'
<1> USE DEF MailInv
<1>1. /\ at[t] = "post" /\ mail_provider = "graph"
      /\ copies[t] \in 0..MaxAttempts /\ doubtful[t] \in 0..MaxAttempts
      /\ attempt[t] \in 0..MaxAttempts /\ MaxAttempts \in Nat
      /\ copies[t] <= doubtful[t] /\ doubtful[t] < attempt[t]
  BY GraphMailAssumption DEF Attempted, MailTypeOK, SendingCounts, Sending
<1>2. /\ copies' = [copies EXCEPT ![t] = IF accepted THEN @ + 1 ELSE @]
      /\ doubtful' = [doubtful EXCEPT ![t] = IF doubt THEN @ + 1 ELSE @]
      /\ UNCHANGED <<mail_provider, attempt, last_test>>
  BY DEF Attempted, Arrived
<1>3. copies[t] + 1 \in 0..MaxAttempts /\ doubtful[t] + 1 \in 0..MaxAttempts
  BY <1>1
<1>4. /\ copies' \in [Threads -> 0..MaxAttempts]
      /\ doubtful' \in [Threads -> 0..MaxAttempts]
  BY <1>2, <1>3 DEF MailTypeOK
<1>5. /\ copies'[t] = IF accepted THEN copies[t] + 1 ELSE copies[t]
      /\ doubtful'[t] = IF doubt THEN doubtful[t] + 1 ELSE doubtful[t]
      /\ \A u \in Threads \ {t} : copies'[u] = copies[u] /\ doubtful'[u] = doubtful[u]
  BY <1>2 DEF MailTypeOK
<1>6. ASSUME NEW result \in Outcomes, Finish(t, result),
             result = "success" => accepted, result # "success" /\ accepted => doubt
      PROVE  MailInv'
  <2>1. /\ at' \in [Threads -> {"idle", "token", "post", "delay", "record", "audit"}]
        /\ outcome' \in [Threads -> Outcomes \cup {NoOutcome}]
        /\ at'[t] = "record" /\ outcome'[t] = result
        /\ \A u \in Threads \ {t} : at'[u] = at[u] /\ outcome'[u] = outcome[u]
    BY <1>6 DEF Finish, MailTypeOK
  <2>2. MailTypeOK'
    BY <1>2, <1>4, <2>1 DEF MailTypeOK
  <2>3. SendingCounts'
    BY <1>2, <1>5, <2>1 DEF SendingCounts, Sending
  <2>4. /\ copies'[t] <= doubtful'[t] + (IF result = "success" THEN 1 ELSE 0)
        /\ result = "success" => copies'[t] >= 1
    BY <1>1, <1>5, <1>6
  <2>5. CopiesAreAccounted'
    BY <1>2, <1>5, <2>1, <2>4 DEF CopiesAreAccounted
  <2> QED BY <2>2, <2>3, <2>5
<1>7. ASSUME accepted => doubt, PutOff(t)
      PROVE  MailInv'
  <2> USE <1>7 DEF PutOff
  <2>1. /\ at' \in [Threads -> {"idle", "token", "post", "delay", "record", "audit"}]
        /\ outcome' \in [Threads -> Outcomes \cup {NoOutcome}]
        /\ at'[t] = "delay" /\ outcome'[t] # "success"
        /\ \A u \in Threads \ {t} : at'[u] = at[u] /\ outcome'[u] = outcome[u]
    BY <1>7, CodesAreNoSuccess DEF MailTypeOK
  <2>2. MailTypeOK'
    BY <1>2, <1>4, <1>7, <2>1 DEF MailTypeOK
  <2>3. copies'[t] <= doubtful'[t] /\ doubtful'[t] <= attempt[t]
    BY <1>1, <1>5, <1>7
  <2>4. SendingCounts'
    BY <1>1, <1>2, <1>5, <1>7, <2>1, <2>3 DEF SendingCounts, Sending
  <2>5. copies'[t] <= doubtful'[t] + 0
    BY <1>4, <2>3
  <2>6. CopiesAreAccounted'
    BY <1>2, <1>5, <2>1, <2>5 DEF CopiesAreAccounted
  <2> QED BY <2>2, <2>4, <2>6
<1> QED BY <1>6, <1>7, CodesAreNoSuccess DEF Attempted

LEMMA AnswerKeeps ==
  ASSUME MailInv, NEW t \in Threads, post_answered(t)
  PROVE  MailInv'
<1>1. PICK status \in Statuses, accepted \in BOOLEAN :
        /\ Tells(status) => (accepted <=> status \in Accepting)
        /\ Arrived(t, accepted, ~ Tells(status))
        /\ Settle(t, status)
  BY DEF post_answered
<1>2. PICK doubt \in BOOLEAN : doubt = ~ Tells(status)
  BY DEF Tells
<1>3. status \in Nat
  BY GraphMailAssumption
<1>4. CASE status \in Accepting
  <2>1. Tells(status) /\ accepted
    BY <1>1, <1>4 DEF Tells, Accepting
  <2>2. Finish(t, "success")
    BY <1>1, <1>4 DEF Settle
  <2>3. Attempted(t, accepted, doubt)
    BY <1>1, <1>2, <2>1, <2>2 DEF Attempted, post_answered
  <2> QED BY <2>3, AttemptKeeps
<1>5. CASE status \notin Accepting
  <2>1. accepted => doubt
    BY <1>1, <1>2, <1>5
  <2>2. PICK code \in ErrorCodes : code = _error_code(status)
    BY ErrorCodesAre
  <2>3. Finish(t, code) \/ PutOff(t)
    BY <1>1, <1>5, <2>2 DEF Settle, Retry, PutOff
  <2>4. Attempted(t, accepted, doubt)
    BY <1>1, <1>2, <2>1, <2>3 DEF Attempted, post_answered
  <2> QED BY <2>4, AttemptKeeps
<1> QED BY <1>4, <1>5

LEMMA NoAnswerKeeps ==
  ASSUME MailInv, NEW t \in Threads, post_unanswered(t)
  PROVE  MailInv'
<1>1. PICK code \in ErrorCodes, accepted \in BOOLEAN :
        Arrived(t, accepted, TRUE) /\ Retry(t, code)
  BY CodesAreNoSuccess DEF post_unanswered
<1>2. Attempted(t, accepted, TRUE)
  <2>1. Finish(t, code) \/ PutOff(t)
    BY <1>1 DEF Retry, PutOff
  <2> QED BY <1>1, <2>1 DEF Attempted, post_unanswered
<1> QED BY <1>2, AttemptKeeps

LEMMA AgainKeeps ==
  ASSUME MailInv, NEW t \in Threads, post_again(t)
  PROVE  MailInv'
<1> USE DEF MailInv
<1>1. /\ mail_provider = "graph" /\ Sending(t)
      /\ attempt[t] < MaxAttempts /\ attempt[t] \in 0..MaxAttempts
      /\ doubtful[t] <= attempt[t] /\ doubtful[t] \in 0..MaxAttempts /\ MaxAttempts \in Nat
  BY GraphMailAssumption DEF post_again, SendingCounts, Sending, MailTypeOK
<1>2. attempt[t] + 1 \in 1..MaxAttempts /\ doubtful[t] < attempt[t] + 1
  BY <1>1
<1>3. /\ at' = [at EXCEPT ![t] = "post"]
      /\ attempt' = [attempt EXCEPT ![t] = @ + 1]
      /\ UNCHANGED <<mail_provider, outcome, copies, doubtful, last_test>>
  BY <1>2 DEF post_again
<1>4. MailTypeOK'
  BY <1>2, <1>3 DEF MailTypeOK
<1>5. SendingCounts'
  BY <1>1, <1>2, <1>3 DEF post_again, SendingCounts, Sending, MailTypeOK
<1>6. CopiesAreAccounted'
  BY <1>3 DEF CopiesAreAccounted
<1> QED BY <1>4, <1>5, <1>6

LEMMA RecordKeeps ==
  ASSUME MailInv, NEW t \in Threads, record_test_status(t)
  PROVE  MailInv'
<1> USE DEF MailInv
<1>1. MailTypeOK'
  BY DEF record_test_status, MailTypeOK
<1>2. SendingCounts'
  BY DEF record_test_status, SendingCounts, Sending, MailTypeOK
<1>3. CopiesAreAccounted'
  BY DEF record_test_status, CopiesAreAccounted
<1> QED BY <1>1, <1>2, <1>3

LEMMA AuditKeepsMail ==
  ASSUME MailInv, NEW t \in Threads, audit_mail_test(t)
  PROVE  MailInv'
<1> USE DEF MailInv
<1>1. MailTypeOK'
  BY DEF audit_mail_test, MailTypeOK
<1>2. SendingCounts'
  BY DEF audit_mail_test, SendingCounts, Sending, MailTypeOK
<1>3. CopiesAreAccounted'
  BY DEF audit_mail_test, CopiesAreAccounted
<1> QED BY <1>1, <1>2, <1>3

LEMMA MailUntouched ==
  ASSUME MailInv, UNCHANGED mailVars
  PROVE  MailInv'
BY DEF MailInv, mailVars, MailTypeOK, SendingCounts, Sending, CopiesAreAccounted

-----------------------------------------------------------------------------
(***************************************************************************)
(* The settings: the handlers.                                             *)
(***************************************************************************)
SettingsTyped ==
  /\ branding \in BrandingRow
  /\ legal \in LegalRow
  /\ audit \in Seq(Entry)
  /\ DOMAIN request \subseteq Threads
  /\ request \in [DOMAIN request -> Pending]
  /\ mixed \subseteq Kinds

SettingsInv ==
  SettingsTyped /\ OneLogo /\ PendingTells /\ NewestExists /\ AuditTellsSettings

LEMMA HandlerKeeps ==
  ASSUME SettingsInv, NEW t \in Threads, NEW r \in Pending, EntryTells(r),
         NEW says, says = r.entry.says, r.entry = [of |-> r.of, says |-> says],
         Handled(t, r.of, r.seen, r.wanted, says)
  PROVE  SettingsInv'
<1> USE DEF SettingsInv
<1>1. r = [of |-> r.of, seen |-> r.seen, wanted |-> r.wanted,
           entry |-> [of |-> r.of, says |-> says]]
  BY DEF Pending
<1>2. /\ request' = [u \in Busy \cup {t} |-> IF u = t THEN r ELSE request[u]]
      /\ t \notin Busy
      /\ UNCHANGED <<branding, legal, audit, mixed>>
  BY <1>1 DEF Handled, Free
<1>3. SettingsTyped'
  BY <1>2 DEF SettingsTyped, Busy
<1>4. PendingTells'
  <2>1. \A u \in Busy' : request'[u] = r \/ (u \in Busy /\ request'[u] = request[u])
    BY <1>2 DEF Busy
  <2> QED BY <2>1 DEF PendingTells, EntryTells
<1>5. OneLogo'
  BY <1>2 DEF OneLogo
<1>6. AuditTellsSettings'
  BY <1>2 DEF AuditTellsSettings, Told, Newest, current_logo
<1>7. NewestExists'
  BY <1>2 DEF NewestExists, HasNewest, Told
<1> QED BY <1>3, <1>4, <1>5, <1>6, <1>7

LEMMA BrandingPending ==
  ASSUME NEW seen \in BrandingRow, NEW wanted \in BrandingRow, NEW x \in Sources,
         x = Logo(wanted), TypeFits(wanted), logo_source(seen), logo_source(wanted),
         NEW r, r = [of |-> "branding", seen |-> seen, wanted |-> wanted,
                     entry |-> [of |-> "branding", says |-> <<x>>]]
  PROVE  r \in Pending /\ EntryTells(r)
<1>1. [of |-> "branding", says |-> <<x>>] \in Entry
  BY DEF Entry
<1>2. r \in Pending
  BY <1>1 DEF Pending
<1> QED BY <1>2 DEF EntryTells

LEMMA LegalPending ==
  ASSUME NEW seen \in LegalRow, NEW wanted \in LegalRow,
         NEW r, r = [of |-> "legal", seen |-> seen, wanted |-> wanted,
                     entry |-> [of |-> "legal", says |-> Leads(wanted)]]
  PROVE  r \in Pending /\ EntryTells(r)
<1>1. Leads(wanted) \in Targets \X Targets
  BY DEF Leads, legal_target_type, Targets
<1>2. [of |-> "legal", says |-> Leads(wanted)] \in Entry
  BY <1>1 DEF Entry
<1>3. r \in Pending
  BY <1>2 DEF Pending
<1> QED BY <1>3 DEF EntryTells

LEMMA BrandingHandlerKeeps ==
  ASSUME SettingsInv, NEW t \in Threads, NEW wanted \in BrandingRow, NEW x \in Sources,
         x = Logo(wanted), TypeFits(wanted), logo_source(wanted),
         Handled(t, "branding", branding, wanted, <<x>>)
  PROVE  SettingsInv'
<1>1. PICK r : r = [of |-> "branding", seen |-> branding, wanted |-> wanted,
                    entry |-> [of |-> "branding", says |-> <<x>>]]
  OBVIOUS
<1>2. branding \in BrandingRow /\ logo_source(branding)
  BY DEF SettingsInv, SettingsTyped, OneLogo
<1>3. r \in Pending /\ EntryTells(r)
  BY <1>1, <1>2, BrandingPending
<1>4. PICK says : says = <<x>>
  OBVIOUS
<1>5. /\ r.of = "branding" /\ r.seen = branding /\ r.wanted = wanted
      /\ r.entry = [of |-> "branding", says |-> says] /\ r.entry.says = says
  BY <1>1, <1>4
<1>6. Handled(t, r.of, r.seen, r.wanted, says)
  BY <1>4, <1>5
<1> QED BY <1>3, <1>5, <1>6, HandlerKeeps

LEMMA EditKeeps ==
  ASSUME SettingsInv, NEW t \in Threads, Edit(t)
  PROVE  SettingsInv'
<1>1. ASSUME NEW u \in Urls, set_branding_url(t, u) PROVE SettingsInv'
  <2> DEFINE row == set_logo_url(u)
  <2>1. /\ row \in BrandingRow /\ row.logo_url = u /\ row.logo_data = None
    BY DEF set_logo_url, DefaultBranding, BrandingRow
  <2>2. u # None
    BY SettingsAssumption
  <2>3. Logo(row) = "url" /\ TypeFits(row) /\ logo_source(row) /\ "url" \in Sources
    BY <2>1, <2>2 DEF Logo, TypeFits, logo_source, Sources
  <2>4. Handled(t, "branding", branding, row, <<"url">>)
    BY <1>1 DEF set_branding_url
  <2> HIDE DEF row
  <2> QED BY <2>1, <2>3, <2>4, BrandingHandlerKeeps
<1>2. ASSUME NEW f \in Files, upload_branding_logo(t, f) PROVE SettingsInv'
  <2> DEFINE row == set_uploaded_logo(f)
  <2>1. f.declared \in Types /\ f.declared = f.actual
    BY <1>2, SettingsAssumption
       DEF upload_branding_logo, process_logo_upload, _process_raster, _process_svg
  <2>2. /\ row \in BrandingRow /\ row.logo_url = None /\ row.logo_data = f
        /\ row.logo_content_type = f.declared
    BY <2>1 DEF set_uploaded_logo, DefaultBranding, BrandingRow
  <2>3. f # None /\ f.declared # None
    BY <2>1, SettingsAssumption
  <2>4. Logo(row) = "upload" /\ TypeFits(row) /\ logo_source(row) /\ "upload" \in Sources
    BY <2>1, <2>2, <2>3 DEF Logo, TypeFits, logo_source, Sources
  <2>5. Handled(t, "branding", branding, row, <<"upload">>)
    BY <1>2 DEF upload_branding_logo
  <2> HIDE DEF row
  <2> QED BY <2>2, <2>4, <2>5, BrandingHandlerKeeps
<1>3. ASSUME reset_branding_logo(t) PROVE SettingsInv'
  <2> DEFINE row == reset
  <2>1. /\ row \in BrandingRow
        /\ Logo(row) = "default" /\ TypeFits(row) /\ logo_source(row) /\ "default" \in Sources
    BY DEF reset, DefaultBranding, BrandingRow, Logo, TypeFits, logo_source, Sources
  <2>2. Handled(t, "branding", branding, row, <<"default">>)
    BY <1>3 DEF reset_branding_logo
  <2> HIDE DEF row
  <2> QED BY <2>1, <2>2, BrandingHandlerKeeps
<1>4. ASSUME NEW privacy \in Links, NEW imprint \in Links,
             update_legal_settings(t, privacy, imprint)
      PROVE  SettingsInv'
  <2>1. PICK row, says : row = update(privacy, imprint) /\ says = Leads(row)
    OBVIOUS
  <2>2. row \in LegalRow
    BY <2>1 DEF update, Stored, LegalRow
  <2>3. Handled(t, "legal", legal, row, says)
    BY <1>4, <2>1 DEF update_legal_settings, Leads
  <2>4. PICK r : r = [of |-> "legal", seen |-> legal, wanted |-> row,
                      entry |-> [of |-> "legal", says |-> Leads(row)]]
    OBVIOUS
  <2>5. legal \in LegalRow
    BY DEF SettingsInv, SettingsTyped
  <2>6. r \in Pending /\ EntryTells(r)
    BY <2>2, <2>4, <2>5, LegalPending
  <2>7. /\ r.of = "legal" /\ r.seen = legal /\ r.wanted = row
        /\ r.entry = [of |-> "legal", says |-> says] /\ r.entry.says = says
    BY <2>1, <2>4
  <2>8. Handled(t, r.of, r.seen, r.wanted, says)
    BY <2>3, <2>7
  <2> QED BY <2>6, <2>7, <2>8, HandlerKeeps
<1> QED BY <1>1, <1>2, <1>3, <1>4 DEF Edit

-----------------------------------------------------------------------------
(***************************************************************************)
(* The settings: the audit log.                                            *)
(***************************************************************************)
LEMMA TakesType ==
  ASSUME SettingsTyped
  PROVE  /\ Len(audit) \in Nat /\ DOMAIN audit = 1..Len(audit)
         /\ \A i \in DOMAIN audit : audit[i] \in Entry
BY DEF SettingsTyped

LEMMA LogGrows ==
  ASSUME SettingsTyped, NEW e \in Entry, audit' = Append(audit, e)
  PROVE  /\ audit' \in Seq(Entry)
         /\ \A of : of = e.of =>
              Told(of)' # {} /\ HasNewest(of)' /\ Newest(of)' = e.says
         /\ \A of : of # e.of =>
              /\ Told(of)' = Told(of)
              /\ HasNewest(of) => HasNewest(of)' /\ Newest(of)' = Newest(of)
<1> DEFINE n == Len(audit) + 1
<1>1. /\ audit' \in Seq(Entry) /\ Len(audit) \in Nat
      /\ DOMAIN audit' = 1..n /\ DOMAIN audit = 1..Len(audit)
      /\ audit'[n] = e /\ \A i \in DOMAIN audit : audit'[i] = audit[i]
  BY TakesType DEF SettingsTyped
<1>2. ASSUME NEW of, of = e.of
      PROVE  Told(of)' # {} /\ HasNewest(of)' /\ Newest(of)' = e.says
  <2>1. n \in Told(of)' /\ \A j \in Told(of)' : j <= n
    BY <1>1, <1>2 DEF Told
  <2>2. (CHOOSE i \in Told(of)' : \A j \in Told(of)' : j <= i) = n
    <3>1. ASSUME NEW i \in Told(of)', \A j \in Told(of)' : j <= i
          PROVE  i = n
      BY <1>1, <2>1, <3>1 DEF Told
    <3> QED BY <2>1, <3>1
  <2> QED BY <1>1, <2>1, <2>2 DEF Newest, HasNewest
<1>3. ASSUME NEW of, of # e.of
      PROVE  /\ Told(of)' = Told(of)
             /\ HasNewest(of) => HasNewest(of)' /\ Newest(of)' = Newest(of)
  <2>1. Told(of)' = Told(of)
    BY <1>1, <1>3 DEF Told
  <2>2. ASSUME HasNewest(of) PROVE HasNewest(of)' /\ Newest(of)' = Newest(of)
    <3> DEFINE i == CHOOSE i \in Told(of) : \A j \in Told(of) : j <= i
    <3>1. i \in DOMAIN audit
      BY <2>2 DEF HasNewest, Told
    <3>2. Newest(of) = audit[i].says /\ Newest(of)' = audit'[i].says
      BY <2>1 DEF Newest
    <3> HIDE DEF i
    <3> QED BY <1>1, <2>1, <2>2, <3>1, <3>2 DEF HasNewest
  <2> QED BY <2>1, <2>2
<1> QED BY <1>1, <1>2, <1>3

LEMMA TestEntryKeeps ==
  ASSUME SettingsInv, NEW e \in Entry, e.of = "mail", audit' = Append(audit, e),
         UNCHANGED <<branding, legal, request, mixed>>
  PROVE  SettingsInv'
<1> USE DEF SettingsInv
<1>1. /\ audit' \in Seq(Entry)
      /\ \A of : of # "mail" => /\ Told(of)' = Told(of)
                                /\ HasNewest(of) => HasNewest(of)' /\ Newest(of)' = Newest(of)
  BY LogGrows
<1>2. SettingsTyped' /\ PendingTells' /\ OneLogo'
  BY <1>1 DEF SettingsTyped, PendingTells, OneLogo, Busy
<1>3. NewestExists'
  BY <1>1 DEF NewestExists, Kinds
<1>4. /\ Told("branding")' = Told("branding") /\ Told("legal")' = Told("legal")
      /\ Told("branding") # {} => Newest("branding")' = Newest("branding")
      /\ Told("legal") # {} => Newest("legal")' = Newest("legal")
  BY <1>1 DEF NewestExists, Kinds
<1>5. AuditTellsSettings'
  BY <1>4 DEF AuditTellsSettings, current_logo
<1> QED BY <1>2, <1>3, <1>5

-----------------------------------------------------------------------------
(***************************************************************************)
(* The settings: the commits.                                              *)
(***************************************************************************)
LEMMA MergedRows ==
  /\ \A a, b, c \in BrandingRow : Merged(a, b, c) \in BrandingRow /\ (a = b => Merged(a, b, c) = c)
  /\ \A a, b, c \in LegalRow : Merged(a, b, c) \in LegalRow /\ (a = b => Merged(a, b, c) = c)
<1>1. ASSUME NEW a \in BrandingRow, NEW b \in BrandingRow, NEW c \in BrandingRow
      PROVE  Merged(a, b, c) \in BrandingRow /\ (a = b => Merged(a, b, c) = c)
  <2>1. Merged(a, b, c) =
          [logo_url |-> Column(a.logo_url, b.logo_url, c.logo_url),
           logo_data |-> Column(a.logo_data, b.logo_data, c.logo_data),
           logo_content_type |->
             Column(a.logo_content_type, b.logo_content_type, c.logo_content_type)]
    BY DEF Merged, BrandingRow
  <2> QED BY <2>1 DEF BrandingRow, Column
<1>2. ASSUME NEW a \in LegalRow, NEW b \in LegalRow, NEW c \in LegalRow
      PROVE  Merged(a, b, c) \in LegalRow /\ (a = b => Merged(a, b, c) = c)
  <2>1. Merged(a, b, c) =
          [privacy_url |-> Column(a.privacy_url, b.privacy_url, c.privacy_url),
           imprint_url |-> Column(a.imprint_url, b.imprint_url, c.imprint_url)]
    BY DEF Merged, LegalRow
  <2> QED BY <2>1 DEF LegalRow, Column
<1> QED BY <1>1, <1>2

LEMMA CommitKeeps ==
  ASSUME SettingsInv, NEW t \in Threads, Commit(t)
  PROVE  SettingsInv'
<1> USE DEF SettingsInv
<1> PICK r : r = request[t]
  OBVIOUS
<1>1. /\ t \in Busy /\ r \in Pending /\ EntryTells(r)
      /\ request' = [u \in Busy \ {t} |-> request[u]]
  BY DEF Commit, SettingsTyped, PendingTells, Busy
<1>2. /\ r.of \in Kinds /\ r.entry \in Entry /\ r.entry.of = r.of
      /\ r.of = "branding" => r.seen \in BrandingRow /\ r.wanted \in BrandingRow
      /\ r.of = "legal" => r.seen \in LegalRow /\ r.wanted \in LegalRow
  BY <1>1 DEF Pending, Kinds, EntryTells
<1>3. DOMAIN request' \subseteq Threads /\ request' \in [DOMAIN request' -> Pending]
  BY <1>1 DEF SettingsTyped, Busy
<1>4. PendingTells'
  BY <1>1 DEF PendingTells, EntryTells, Busy
<1>5. CASE UNCHANGED <<branding, legal, audit, mixed>>
  <2>1. SettingsTyped' /\ OneLogo' /\ NewestExists'
    BY <1>3, <1>5 DEF SettingsTyped, OneLogo, NewestExists, HasNewest, Told
  <2>2. AuditTellsSettings'
    BY <1>5 DEF AuditTellsSettings, Told, Newest, current_logo
  <2> QED BY <1>4, <2>1, <2>2
<1>6. CASE /\ ~ (r.of = "branding" /\ ~ logo_source(Written(r)))
           /\ branding' = IF r.of = "branding" THEN Written(r) ELSE branding
           /\ legal' = IF r.of = "legal" THEN Written(r) ELSE legal
           /\ audit' = Append(audit, r.entry)
           /\ mixed' = IF Current(r) = r.seen THEN mixed \ {r.of} ELSE mixed \cup {r.of}
  <2> PICK row : row = Written(r)
    OBVIOUS
  <2>1. /\ r.of = "branding" => /\ row \in BrandingRow
                                /\ branding = r.seen => row = r.wanted
        /\ r.of = "legal" => /\ row \in LegalRow
                             /\ legal = r.seen => row = r.wanted
    BY <1>2, MergedRows DEF Written, Current, SettingsTyped
  <2>2. /\ branding' \in BrandingRow /\ legal' \in LegalRow /\ mixed' \subseteq Kinds
    BY <1>2, <1>6, <2>1 DEF SettingsTyped
  <2>3. /\ audit' \in Seq(Entry)
        /\ \A of : of = r.of =>
             Told(of)' # {} /\ HasNewest(of)' /\ Newest(of)' = r.entry.says
        /\ \A of : of # r.of =>
             /\ Told(of)' = Told(of)
             /\ HasNewest(of) => HasNewest(of)' /\ Newest(of)' = Newest(of)
    BY <1>2, <1>6, LogGrows
  <2>4. SettingsTyped'
    BY <1>3, <2>2, <2>3 DEF SettingsTyped
  <2>5. NewestExists'
    BY <2>3 DEF NewestExists
  <2>6. OneLogo'
    BY <1>6, <1>2 DEF OneLogo
  <2>7. /\ r.of # "branding" =>
             /\ Told("branding")' = Told("branding")
             /\ Told("branding") # {} => Newest("branding")' = Newest("branding")
        /\ r.of # "legal" =>
             /\ Told("legal")' = Told("legal")
             /\ Told("legal") # {} => Newest("legal")' = Newest("legal")
    BY <2>3 DEF NewestExists, Kinds
  <2>8. ASSUME "branding" \notin mixed'
        PROVE  /\ IF Told("branding")' = {} THEN branding' = DefaultBranding
                                            ELSE Newest("branding")' = <<current_logo'>>
               /\ TypeFits(branding')
    <3>1. CASE r.of = "branding"
      <4>1. branding' = r.wanted
        BY <1>6, <2>1, <2>8, <3>1 DEF Current
      <4>2. current_logo' = Logo(r.wanted)
        BY <4>1 DEF current_logo, Logo
      <4>3. Newest("branding")' = <<Logo(r.wanted)>> /\ Told("branding")' # {}
        BY <1>1, <2>3, <3>1 DEF EntryTells
      <4>4. TypeFits(r.wanted)
        BY <1>1, <3>1 DEF EntryTells
      <4> QED BY <4>1, <4>2, <4>3, <4>4
    <3>2. CASE r.of # "branding"
      <4>1. branding' = branding /\ "branding" \notin mixed
        BY <1>6, <2>8, <3>2
      <4>2. current_logo' = current_logo
        BY <4>1 DEF current_logo
      <4> QED BY <2>7, <3>2, <4>1, <4>2 DEF AuditTellsSettings, TypeFits
    <3> QED BY <3>1, <3>2
  <2>9. ASSUME "legal" \notin mixed'
        PROVE  IF Told("legal")' = {} THEN legal' = DefaultLegal
               ELSE Newest("legal")' = Leads(legal')
    <3>1. CASE r.of = "legal"
      <4>1. legal' = r.wanted
        BY <1>6, <2>1, <2>9, <3>1 DEF Current
      <4> QED BY <1>1, <2>3, <3>1, <4>1 DEF EntryTells
    <3>2. CASE r.of # "legal"
      <4>1. legal' = legal /\ "legal" \notin mixed
        BY <1>6, <2>9, <3>2
      <4> QED BY <2>7, <3>2, <4>1 DEF AuditTellsSettings, Leads
    <3> QED BY <3>1, <3>2
  <2>10. AuditTellsSettings'
    BY <2>8, <2>9 DEF AuditTellsSettings, TypeFits, Leads
  <2> QED BY <1>4, <2>4, <2>5, <2>6, <2>10
<1> QED BY <1>5, <1>6 DEF Commit

LEMMA SettingsUntouched ==
  ASSUME SettingsInv, UNCHANGED settingsVars
  PROVE  SettingsInv'
<1> USE DEF SettingsInv
<1>1. UNCHANGED <<branding, legal, audit, request, mixed>>
  BY DEF settingsVars
<1>2. SettingsTyped' /\ OneLogo' /\ PendingTells'
  BY <1>1 DEF SettingsTyped, OneLogo, PendingTells, Busy
<1>3. NewestExists'
  BY <1>1 DEF NewestExists, HasNewest, Told
<1>4. AuditTellsSettings'
  BY <1>1 DEF AuditTellsSettings, Told, Newest, current_logo
<1> QED BY <1>2, <1>3, <1>4

-----------------------------------------------------------------------------
LEMMA Parts == IInv <=> MailInv /\ SettingsInv
BY DEF IInv, MailInv, SettingsInv, TypeOK, SettingsTyped

LEMMA InitIInv == Init => IInv
<1> SUFFICES ASSUME Init PROVE IInv
  OBVIOUS
<1>1. 0 \in 0..MaxAttempts /\ "success" # NoOutcome
  BY GraphMailAssumption DEF Outcomes
<1>2. MailInv
  BY <1>1 DEF Init, MailInit, MailInv, MailTypeOK, SendingCounts, Sending, CopiesAreAccounted
<1>3. /\ branding = DefaultBranding /\ legal = DefaultLegal /\ audit = <<>>
      /\ Busy = {} /\ request = [u \in {} |-> None] /\ mixed = {}
  BY DEF Init, Busy
<1>4. SettingsTyped
  BY <1>3 DEF SettingsTyped, DefaultBranding, DefaultLegal, BrandingRow, LegalRow, Busy
<1>5. \A of : Told(of) = {}
  BY <1>3 DEF Told
<1>6. OneLogo /\ PendingTells /\ NewestExists /\ AuditTellsSettings
  BY <1>3, <1>5
     DEF OneLogo, logo_source, PendingTells, NewestExists, AuditTellsSettings,
         DefaultBranding
<1> QED BY <1>2, <1>4, <1>6, Parts DEF SettingsInv

LEMMA StepIInv == IInv /\ [Next]_allVars => IInv'
<1> SUFFICES ASSUME MailInv, SettingsInv, [Next]_allVars
             PROVE  MailInv' /\ SettingsInv'
  BY DEF IInv, MailInv, SettingsInv, TypeOK, SettingsTyped
<1>1. ASSUME NEW t \in Threads, Edit(t) PROVE MailInv' /\ SettingsInv'
  <2>1. UNCHANGED mailVars
    BY <1>1 DEF Edit, set_branding_url, upload_branding_logo, reset_branding_logo,
                update_legal_settings, Handled
  <2> QED BY <1>1, <2>1, MailUntouched, EditKeeps
<1>2. ASSUME NEW t \in Threads, test_mail(t) PROVE MailInv' /\ SettingsInv'
  BY <1>2, TestMailKeeps, SettingsUntouched DEF test_mail
<1>3. ASSUME NEW t \in Threads, send_mail(t) PROVE MailInv' /\ SettingsInv'
  BY <1>3, TokenKeeps, AnswerKeeps, NoAnswerKeeps, AgainKeeps, RecordKeeps, SettingsUntouched
     DEF send_mail, MailStep
<1>4. ASSUME NEW t \in Threads, audit_mail_test(t) PROVE MailInv' /\ SettingsInv'
  <2> PICK e : e = [of |-> "mail", says |-> <<outcome[t]>>]
    OBVIOUS
  <2>1. outcome[t] \in Outcomes
    BY <1>4 DEF MailInv, SendingCounts, audit_mail_test
  <2>2. e \in Entry /\ e.of = "mail"
    BY <2>1 DEF Entry
  <2>3. SettingsInv'
    BY <1>4, <2>2, TestEntryKeeps DEF audit_mail_test
  <2> QED BY <1>4, <2>3, AuditKeepsMail
<1>5. ASSUME NEW t \in Threads, Commit(t) PROVE MailInv' /\ SettingsInv'
  <2>1. UNCHANGED mailVars
    BY <1>5 DEF Commit
  <2> QED BY <1>5, <2>1, MailUntouched, CommitKeeps
<1>6. CASE UNCHANGED allVars
  BY <1>6, MailUntouched, SettingsUntouched DEF allVars
<1> QED BY <1>1, <1>2, <1>3, <1>4, <1>5, <1>6 DEF Next, Continue

(***************************************************************************)
(* The inductive invariant holds in every behaviour.                       *)
(***************************************************************************)
THEOREM Invariant == Spec => []IInv
BY InitIInv, StepIInv, PTL DEF Spec

(***************************************************************************)
(* Every variable keeps its type; in particular no sending makes more      *)
(* attempts than are configured (providers.py:148).                        *)
(***************************************************************************)
THEOREM TypeCorrect == Spec => []TypeOK
<1>1. IInv => TypeOK
  BY DEF IInv
<1> QED BY <1>1, Invariant, PTL

(***************************************************************************)
(* What is reported of a sending agrees with what reached the service.     *)
(***************************************************************************)
THEOREM CopiesAccounted == Spec => []CopiesAreAccounted
<1>1. IInv => CopiesAreAccounted
  BY DEF IInv
<1> QED BY <1>1, Invariant, PTL

(***************************************************************************)
(* Only a commit ends a request of the settings.                           *)
(***************************************************************************)
LEMMA OnlyCommitsEnd ==
  ASSUME IInv, Next, NEW t \in Threads, Refused(t)
  PROVE  Commit(t)
<1>1. ASSUME NEW u \in Threads, Edit(u) \/ test_mail(u) \/ send_mail(u) \/ audit_mail_test(u)
      PROVE  Busy \subseteq Busy'
  BY <1>1 DEF Edit, set_branding_url, upload_branding_logo, reset_branding_logo,
              update_legal_settings, Handled, test_mail, send_mail, audit_mail_test,
              settingsVars, Busy
<1>2. ASSUME NEW u \in Threads, Commit(u) PROVE Busy' = Busy \ {u}
  BY <1>2 DEF Commit, Busy
<1> QED BY <1>1, <1>2 DEF Next, Continue, Refused

(***************************************************************************)
(* What is committed leaves an audit entry.                                *)
(***************************************************************************)
LEMMA RefusedByConstraint ==
  ASSUME IInv, NEW t \in Threads, Commit(t), Refused(t)
  PROVE  /\ UNCHANGED <<branding, legal>>
         /\ request[t].of = "branding" /\ ~ logo_source(Written(request[t]))
<1>1. \A e : audit # Append(audit, e)
  BY DEF IInv, TypeOK
<1> QED BY <1>1 DEF Commit, Refused

(***************************************************************************)
(* The columns merge into two logos only if the other kind has come in.    *)
(***************************************************************************)
LEMMA ClashNeedsRival ==
  ASSUME NEW r \in Pending, EntryTells(r), r.of = "branding", branding \in BrandingRow, OneLogo,
         ~ logo_source(Written(r))
  PROVE  RivalLogo(r)
<1>1. r.seen \in BrandingRow /\ r.wanted \in BrandingRow
  BY DEF Pending
<1>2. /\ Written(r).logo_url = Column(branding.logo_url, r.seen.logo_url, r.wanted.logo_url)
      /\ Written(r).logo_data = Column(branding.logo_data, r.seen.logo_data, r.wanted.logo_data)
  BY DEF Written, Current, Merged, BrandingRow
<1>3. /\ Written(r).logo_url # None /\ Written(r).logo_data # None
      /\ branding.logo_url = None \/ branding.logo_data = None
      /\ r.wanted.logo_url = None \/ r.wanted.logo_data = None
  BY DEF OneLogo, logo_source, EntryTells
<1>4. CASE r.wanted.logo_data = None
  <2>1. r.seen.logo_data = None /\ branding.logo_data # None
    BY <1>2, <1>3, <1>4 DEF Column
  <2>2. r.wanted.logo_url # None
    BY <1>2, <1>3, <2>1 DEF Column
  <2> QED BY <2>1, <2>2 DEF RivalLogo
<1>5. CASE r.wanted.logo_data # None
  <2>1. r.seen.logo_url = None /\ branding.logo_url # None
    BY <1>2, <1>3, <1>5 DEF Column
  <2> QED BY <1>5, <2>1 DEF RivalLogo
<1> QED BY <1>4, <1>5

(***************************************************************************)
(* A save that is refused changes nothing, and it is refused only when a   *)
(* logo of the other kind came into the row since it was read.             *)
(***************************************************************************)
THEOREM RefusalsNeedRivals == Spec => RefusalNeedsRival
<1>1. IInv /\ [Next]_allVars =>
        [\A t \in Threads :
           Refused(t) => /\ UNCHANGED <<branding, legal>>
                         /\ request[t].of = "branding"
                         /\ RivalLogo(request[t])]_allVars
  <2> SUFFICES ASSUME IInv, Next, NEW t \in Threads, Refused(t)
               PROVE  /\ UNCHANGED <<branding, legal>>
                      /\ request[t].of = "branding"
                      /\ RivalLogo(request[t])
    OBVIOUS
  <2>1. Commit(t)
    BY OnlyCommitsEnd
  <2>2. /\ UNCHANGED <<branding, legal>>
        /\ request[t].of = "branding" /\ ~ logo_source(Written(request[t]))
    BY <2>1, RefusedByConstraint
  <2>3. /\ request[t] \in Pending /\ EntryTells(request[t])
        /\ branding \in BrandingRow /\ OneLogo
    BY <2>1 DEF Commit, IInv, TypeOK, PendingTells, Busy
  <2> QED BY <2>2, <2>3, ClashNeedsRival
<1> QED BY <1>1, Invariant, PTL DEF Spec, RefusalNeedsRival

(***************************************************************************)
(* The newest audit entry tells what is in force, unless the last commit   *)
(* wrote onto a row that had changed since its handler read it.            *)
(***************************************************************************)
THEOREM AuditTells == Spec => []AuditTellsSettings
<1>1. IInv => AuditTellsSettings
  BY DEF IInv
<1> QED BY <1>1, Invariant, PTL
===============================================================================
