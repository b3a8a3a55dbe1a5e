---------------------------- MODULE AdminSettings ----------------------------
(***************************************************************************)
(* The settings an administrator edits: the logo (app/services/branding.py,*)
(* app/api/admin_branding.py), the legal links (app/services/              *)
(* legal_settings.py, app/api/admin_legal.py) and the audit log both write *)
(* to, together with the test mail of GraphMail. Each kind of settings is  *)
(* one row with id 1, which its migration inserts.                         *)
(*                                                                         *)
(* Requests run in several threads, and with PostgreSQL in several         *)
(* replicas; nothing locks the row. A handler loads it and sets all its    *)
(* columns (one action); the flush and the commit write the columns whose  *)
(* value differs from the one loaded, and the audit entry with them        *)
(* (Commit). Left out: filenames, sizes in bytes, updated_at.              *)
(***************************************************************************)
EXTENDS GraphMail, Sequences

CONSTANTS
  Urls,     \* what is typed into the logo form, see UrlForm
  Files,    \* the files that are uploaded, see FileForm
  Links,    \* what is typed into a field of the legal form, see LinkForm
  None      \* NULL

UrlForm ==
  [scheme : {"http", "https", "other"}, host : {"public", "private", "localhost", "none"},
   credentials : BOOLEAN, port : {"valid", "invalid"}]

Types == {"image/png", "image/jpeg", "image/svg+xml"}   \* ALLOWED_CONTENT_TYPES

FileForm ==
  [declared : Types \cup {"other"}, actual : Types \cup {"other"},
   fits : BOOLEAN,     \* bytes and dimensions are within the limits
   active : BOOLEAN]   \* an SVG with scripts, entities or external references

LinkForm ==
  [kind : {"empty", "path", "https", "other"}, wellFormed : BOOLEAN]

ASSUME SettingsAssumption ==
  /\ Urls \subseteq UrlForm /\ Files \subseteq FileForm /\ Links \subseteq LinkForm
  /\ None \notin Urls /\ None \notin Files /\ None \notin Links /\ None \notin Types

VARIABLES
  branding,     \* the row of branding_settings
  legal,        \* the row of legal_settings
  audit,        \* the entries of audit_logs, in the order of their commits
  request,      \* thread -> what its session loaded and is about to commit
  mixed         \* rows that a commit wrote to after they had changed since its read

settingsVars == <<branding, legal, audit, request, mixed>>
allVars == <<mailVars, settingsVars>>

BrandingRow ==
  [logo_url : Urls \cup {None}, logo_data : Files \cup {None},
   logo_content_type : Types \cup {None}]
LegalRow == [privacy_url : Links \cup {None}, imprint_url : Links \cup {None}]

Kinds == {"branding", "legal"}

Sources == {"url", "upload", "default"}
Targets == {"hidden", "relative", "https"}

Entry ==
  [of : {"branding"}, says : {<<x>> : x \in Sources}]
    \cup [of : {"legal"}, says : Targets \X Targets]
    \cup [of : {"mail"}, says : {<<x>> : x \in Outcomes}]

Pending ==
  [of : {"branding"}, seen : BrandingRow, wanted : BrandingRow, entry : Entry]
    \cup [of : {"legal"}, seen : LegalRow, wanted : LegalRow, entry : Entry]

TypeOK ==
  /\ MailTypeOK
  /\ branding \in BrandingRow
  /\ legal \in LegalRow
  /\ audit \in Seq(Entry)
  /\ DOMAIN request \subseteq Threads
  /\ request \in [DOMAIN request -> Pending]
  /\ mixed \subseteq Kinds

DefaultBranding == [logo_url |-> None, logo_data |-> None, logo_content_type |-> None]
DefaultLegal == [privacy_url |-> None, imprint_url |-> None]

Init ==
  /\ MailInit
  /\ branding = DefaultBranding
  /\ legal = DefaultLegal
  /\ audit = <<>>
  /\ request = [t \in {} |-> None]
  /\ mixed = {}

-----------------------------------------------------------------------------
\* validate_logo_url returns; otherwise it raises BrandingError.
validate_logo_url(u) ==
  /\ u.scheme \in {"http", "https"}
  /\ u.host = "public"
  /\ ~ u.credentials
  /\ u.port = "valid"

\* A raster image is decoded and must be of the declared format.
_process_raster(f) == f.actual = f.declared /\ f.fits

\* An SVG is parsed and searched for active content.
_process_svg(f) == f.actual = "image/svg+xml" /\ f.fits /\ ~ f.active

\* process_logo_upload returns a logo; otherwise it raises BrandingError.
process_logo_upload(f) ==
  /\ f.declared \in Types
  /\ IF f.declared = "image/svg+xml" THEN _process_svg(f) ELSE _process_raster(f)

\* validate_legal_url does not raise.
validate_legal_url(l) == l.kind = "empty" \/ (l.kind \in {"path", "https"} /\ l.wellFormed)

\* What it returns.
Stored(l) == IF l.kind = "empty" THEN None ELSE l

legal_target_type(value) ==
  IF value = None THEN "hidden" ELSE IF value.kind = "path" THEN "relative" ELSE "https"

-----------------------------------------------------------------------------
Busy == DOMAIN request
Free(t) == t \notin Busy /\ at[t] = "idle"

\* The handler of t has set the columns of its row and is about to flush.
Handled(t, of, seen, wanted, says) ==
  /\ Free(t)
  /\ request' = [u \in Busy \cup {t} |->
       IF u = t THEN [of |-> of, seen |-> seen, wanted |-> wanted,
                      entry |-> [of |-> of, says |-> says]]
                ELSE request[u]]
  /\ UNCHANGED <<branding, legal, audit, mixed, mailVars>>

\* Faulty variant: the uploaded file stays.
set_logo_url_keeps_file(u) == [branding EXCEPT !.logo_url = u]

(***************************************************************************)
(* The repositories set every column of the row.                           *)
(***************************************************************************)
set_logo_url(u) == [DefaultBranding EXCEPT !.logo_url = u]

\* Faulty variant: the content type of the file before is kept.
set_uploaded_logo_typeless(f) ==
  [DefaultBranding EXCEPT !.logo_data = f, !.logo_content_type = branding.logo_content_type]

set_uploaded_logo(f) ==
  [DefaultBranding EXCEPT !.logo_data = f, !.logo_content_type = f.declared]

reset == DefaultBranding

update(privacy, imprint) ==
  [privacy_url |-> Stored(privacy), imprint_url |-> Stored(imprint)]

(***************************************************************************)
(* The routes. What is not valid is answered with 422, and nothing changes.*)
(***************************************************************************)
set_branding_url(t, u) ==
  /\ validate_logo_url(u)
  /\ Handled(t, "branding", branding, set_logo_url(u), <<"url">>)

upload_branding_logo(t, f) ==
  /\ process_logo_upload(f)
  /\ Handled(t, "branding", branding, set_uploaded_logo(f), <<"upload">>)

reset_branding_logo(t) == Handled(t, "branding", branding, reset, <<"default">>)

\* Both fields are validated before either is stored.
validate_legal_links(privacy, imprint) ==
  validate_legal_url(privacy) /\ validate_legal_url(imprint)

update_legal_settings(t, privacy, imprint) ==
  LET row == update(privacy, imprint)
  IN /\ validate_legal_links(privacy, imprint)
     /\ Handled(t, "legal", legal, row,
                <<legal_target_type(row.privacy_url), legal_target_type(row.imprint_url)>>)

-----------------------------------------------------------------------------
\* The unit of work writes a column only if the handler changed it.
Column(current, loaded, left) == IF left = loaded THEN current ELSE left

Merged(current, loaded, left) ==
  [c \in DOMAIN current |-> Column(current[c], loaded[c], left[c])]

\* The constraint ck_branding_logo_source
logo_source(row) == ~ (row.logo_url # None /\ row.logo_data # None)

\* The row the commit of r writes to, as it is by then, and the row it leaves.
Current(r) == IF r.of = "branding" THEN branding ELSE legal
Written(r) == Merged(Current(r), r.seen, r.wanted)

(***************************************************************************)
(* flush and commit. If the constraint is violated the session is rolled   *)
(* back, the audit entry with it.                                          *)
(***************************************************************************)
Commit(t) ==
  /\ t \in Busy
  /\ request' = [u \in Busy \ {t} |-> request[u]]
  /\ LET r == request[t]
     IN IF r.of = "branding" /\ ~ logo_source(Written(r))
          THEN UNCHANGED <<branding, legal, audit, mixed>>
          ELSE /\ branding' = IF r.of = "branding" THEN Written(r) ELSE branding
               /\ legal' = IF r.of = "legal" THEN Written(r) ELSE legal
               /\ audit' = Append(audit, r.entry)
               /\ mixed' = IF Current(r) = r.seen THEN mixed \ {r.of} ELSE mixed \cup {r.of}
  /\ UNCHANGED mailVars

\* The test mail's request writes its audit entry and ends.
audit_mail_test(t) ==
  /\ at[t] = "audit"
  /\ at' = [at EXCEPT ![t] = "idle"]
  /\ audit' = Append(audit, [of |-> "mail", says |-> <<outcome[t]>>])
  /\ UNCHANGED <<mail_provider, attempt, outcome, copies, doubtful, last_test>>
  /\ UNCHANGED <<branding, legal, request, mixed>>

test_mail(t) ==
  /\ Free(t)
  /\ admin_mail_test(t)
  /\ UNCHANGED settingsVars

send_mail(t) == MailStep(t) /\ UNCHANGED settingsVars

Edit(t) ==
  \/ \E u \in Urls : set_branding_url(t, u)
  \/ \E f \in Files : upload_branding_logo(t, f)
  \/ reset_branding_logo(t)
  \/ \E privacy, imprint \in Links : update_legal_settings(t, privacy, imprint)

Continue(t) == send_mail(t) \/ audit_mail_test(t) \/ Commit(t)

Next == \E t \in Threads : Edit(t) \/ test_mail(t) \/ Continue(t)

Spec == Init /\ [][Next]_allVars

(***************************************************************************)
(* Threads are scheduled, httpx gives a request up after its timeout of 15 *)
(* seconds, and a delay ends.                                              *)
(***************************************************************************)
FairSpec == Spec /\ \A t \in Threads : WF_allVars(Continue(t))

-----------------------------------------------------------------------------
\* The request of t ends in this step, and nothing is in the audit log.
Refused(t) == t \in Busy /\ t \notin Busy' /\ audit' = audit

\* Since r read the row, a logo of the other kind has come into it.
RivalLogo(r) ==
  \/ r.wanted.logo_url # None /\ r.seen.logo_data = None /\ branding.logo_data # None
  \/ r.wanted.logo_data # None /\ r.seen.logo_url = None /\ branding.logo_url # None

(***************************************************************************)
(* A save that is refused leaves the settings as they are, and it is       *)
(* refused only to somebody who sets a URL while a file was uploaded since *)
(* the row was read, or uploads one while a URL was set: never onto the    *)
(* row it read, whatever logo it replaces, and never a reset or a save of  *)
(* the legal links (the columns that branding.py:243-271 sets, against the *)
(* check constraint ck_branding_logo_source).                              *)
(***************************************************************************)
RefusalNeedsRival ==
  [][\A t \in Threads :
       Refused(t) => /\ UNCHANGED <<branding, legal>>
                     /\ request[t].of = "branding"
                     /\ RivalLogo(request[t])]_allVars

(***************************************************************************)
(* What current_logo serves.                                               *)
(***************************************************************************)
current_logo ==
  IF branding.logo_url # None THEN "url"
  ELSE IF branding.logo_data # None /\ branding.logo_content_type # None THEN "upload"
  ELSE "default"

(***************************************************************************)
(* The newest audit entry tells what is in force: the logo that is served, *)
(* under the type of its data, and where the legal links lead. Only a      *)
(* commit onto a row that changed after its handler read it may leave the  *)
(* columns of two requests mixed, and the next undisturbed one mends that  *)
(* (record_audit in the routes of admin_branding.py and admin_legal.py).   *)
(***************************************************************************)
Told(of) == {i \in DOMAIN audit : audit[i].of = of}
Newest(of) == audit[CHOOSE i \in Told(of) : \A j \in Told(of) : j <= i].says

AuditTellsSettings ==
  /\ "branding" \notin mixed =>
       /\ IF Told("branding") = {} THEN branding = DefaultBranding
                                  ELSE Newest("branding") = <<current_logo>>
       /\ branding.logo_data # None =>
            branding.logo_content_type = branding.logo_data.actual
  /\ "legal" \notin mixed =>
       IF Told("legal") = {} THEN legal = DefaultLegal
       ELSE Newest("legal") =
              <<legal_target_type(legal.privacy_url), legal_target_type(legal.imprint_url)>>

(***************************************************************************)
(* Every test mail comes to its audit entry: the retries end, whatever the *)
(* service answers or does not (providers.py:148).                         *)
(***************************************************************************)
TestMailEnds == \A t \in Threads : at[t] = "token" ~> at[t] = "idle"
===============================================================================
