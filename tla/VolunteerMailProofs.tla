-------------------------- MODULE VolunteerMailProofs --------------------------
(***************************************************************************)
(* A verified address was confirmed from its own mailbox and anonymization *)
(* is final, for any addresses and threads. Both need what the sessions in *)
(* flight are about to write, and that no two of them carry one token.     *)
(***************************************************************************)
EXTENDS VolunteerMail, NaturalsInduction, WellFoundedInduction, TLAPS

Emails == Addresses \cup {Marker}

Rows == [email : Emails, verified : BOOLEAN, token : Nat, editable : BOOLEAN,
         anonymized : BOOLEAN]

Messages == [kind : Kinds, to : Emails, token : Nat, mode : Modes, sent : BOOLEAN,
             error : BOOLEAN]

SessionStates == [seen : Rows, wanted : Rows, mails : Seq(Messages),
                  superseded : SUBSET Nat, opened : SUBSET Emails, sends : BOOLEAN]

Phases == {"idle", "commit", "load", "next", "send", "mark"}

Typed ==
  /\ row \in Rows
  /\ outbox \in Seq(Messages)
  /\ template \in [Kinds -> Modes]
  /\ issued \in Nat
  /\ at \in [Threads -> Phases]
  /\ request \in [Threads -> SessionStates]
  /\ stale \in BOOLEAN

Pending == {t \in Threads : at[t] = "commit"}

\* The session r writes the new token k into the row or into a message.
Carries(r, k) ==
  \/ r.wanted.token = k /\ k # r.seen.token
  \/ \E i \in DOMAIN r.mails : r.mails[i].token = k

\* Tokens come from the counter: 0 is none, and issued + 1 is the next.
TokensBounded ==
  /\ row.token <= issued
  /\ \A m \in DOMAIN outbox : outbox[m].token <= issued
  /\ \A t \in Pending :
       /\ request[t].wanted.token <= issued
       /\ \A i \in DOMAIN request[t].mails : request[t].mails[i].token <= issued

\* The link that is valid now went to the address that is valid now.
LinksMatch ==
  \A m \in DOMAIN outbox :
    outbox[m].token # 0 /\ outbox[m].token = row.token => outbox[m].to = row.email

\* A link that is not committed yet is in nobody else's hands.
LinksAreFresh ==
  \A t \in Pending : \A k \in Nat \ {0} : Carries(request[t], k) =>
    /\ \A m \in DOMAIN outbox : outbox[m].token # k
    /\ \A u \in Pending \ {t} : ~ Carries(request[u], k)

\* A session that leaves a valid link addresses it to the address it leaves.
Leaves(r) ==
  r.wanted.token # 0 =>
    /\ \A i \in DOMAIN r.mails : r.mails[i].token # 0 => r.mails[i].to = r.wanted.email
    /\ \/ Carries(r, r.wanted.token)
       \/ r.wanted.token = r.seen.token /\ r.wanted.email = r.seen.email

Verifies(r) ==
  r.wanted.verified =>
    /\ r.wanted.email = r.seen.email
    /\ r.seen.verified \/ r.wanted.email \in r.opened

Emptied(v) == v.anonymized =>
  v.email = Marker /\ ~ v.verified /\ v.token = 0 /\ ~ v.editable

Sound ==
  /\ LinksMatch
  /\ LinksAreFresh
  /\ \A t \in Pending : Leaves(request[t]) /\ Verifies(request[t])
                                           /\ Emptied(request[t].wanted)
  /\ row.verified => row.email \in confirmed
  /\ Emptied(row)

IInv == Typed /\ TokensBounded /\ (~ stale => Sound)

-----------------------------------------------------------------------------
LEMMA MessagesOf ==
  ASSUME NEW s \in Seq(Messages), NEW i \in DOMAIN s
  PROVE  s[i] \in Messages /\ s[i].token \in Nat
  <1>1. s[i] \in Messages
    OBVIOUS
  <1>2. QED
    BY <1>1 DEF Messages

LEMMA Queued ==
  ASSUME Typed, NEW kind \in Kinds, NEW to \in Emails, NEW token \in Nat
  PROVE  LET mails == queue_templated_mail(kind, to, token)
         IN /\ mails \in Seq(Messages)
            /\ Len(mails) \in 0..1
            /\ \A i \in DOMAIN mails : mails[i].to = to /\ mails[i].token = token
            /\ DOMAIN mails = 1..Len(mails)
  <1>1. template[kind] \in Modes
    BY DEF Typed
  <1>2. CASE template[kind] = "disabled"
    BY <1>2 DEF queue_templated_mail
  <1>3. CASE template[kind] # "disabled"
    <2> DEFINE m == [kind |-> kind, to |-> to, token |-> token,
                     mode |-> template[kind], sent |-> FALSE, error |-> FALSE]
    <2>1. m \in Messages
      BY <1>1 DEF Messages
    <2>2. queue_templated_mail(kind, to, token) = <<m>>
      BY <1>3 DEF queue_templated_mail
    <2> HIDE DEF m
    <2>3. <<m>> \in Seq(Messages) /\ Len(<<m>>) = 1 /\ <<m>>[1] = m
      BY <2>1
    <2>4. m.to = to /\ m.token = token
      BY DEF m
    <2>5. QED
      BY <2>2, <2>3, <2>4
  <1>4. QED
    BY <1>2, <1>3

(***************************************************************************)
(* What a handler of t owes so that its session may commit later: tokens   *)
(* it hands out are new, and the row it leaves is sound on its own.        *)
(***************************************************************************)
Owes(r) ==
  /\ r.wanted.token \in {0, row.token} \/ issued < r.wanted.token
  /\ r.wanted.token <= issued'
  /\ \A i \in DOMAIN r.mails : /\ r.mails[i].token <= issued'
                               /\ r.mails[i].token # 0 => issued < r.mails[i].token
  /\ ~ stale => Leaves(r) /\ Verifies(r) /\ Emptied(r.wanted)

Began(t, r) ==
  /\ at' = [at EXCEPT ![t] = "commit"]
  /\ request' = [request EXCEPT ![t] = r]
  /\ UNCHANGED <<row, outbox, template, confirmed, stale>>

LEMMA HandlerKeeps ==
  ASSUME IInv, NEW t \in Threads, NEW r \in SessionStates, r.seen = row,
         Began(t, r), issued' \in Nat, issued <= issued', Owes(r)
  PROVE  IInv'
  <1>2. /\ request' = [request EXCEPT ![t] = r]
        /\ at' = [at EXCEPT ![t] = "commit"]
        /\ UNCHANGED <<row, outbox, template, confirmed, stale>>
    BY DEF Began
  <1>3. Typed'
    BY <1>2 DEF IInv, Typed, Phases
  <1>4. Pending' = Pending \cup {t}
    BY <1>2 DEF Pending, IInv, Typed
  <1>5. request'[t] = r /\ \A u \in Threads \ {t} : request'[u] = request[u]
    BY <1>2 DEF IInv, Typed
  <1>6. \A u \in Threads : request[u].mails \in Seq(Messages)
    BY DEF IInv, Typed, SessionStates
  <1>7. TokensBounded'
    <2>1. row'.token <= issued'
      BY <1>2 DEF IInv, TokensBounded, Typed, Rows
    <2>2. ASSUME NEW m \in DOMAIN outbox'
          PROVE  outbox'[m].token <= issued'
      <3>1. outbox[m].token \in Nat
        BY <1>2, <2>2, MessagesOf DEF IInv, Typed
      <3>2. QED
        BY <1>2, <2>2, <3>1 DEF IInv, TokensBounded, Typed
    <2>3. ASSUME NEW u \in Pending'
          PROVE  /\ request'[u].wanted.token <= issued'
                 /\ \A i \in DOMAIN request'[u].mails :
                      request'[u].mails[i].token <= issued'
      <3>1. CASE u = t
        BY <1>5, <2>3, <3>1 DEF Owes
      <3>2. CASE u # t
        <4>1. u \in Pending /\ request'[u] = request[u] /\ u \in Threads
          BY <1>4, <1>5, <2>3, <3>2 DEF Pending
        <4>2. /\ request[u].wanted.token <= issued
              /\ \A i \in DOMAIN request[u].mails : request[u].mails[i].token <= issued
          BY <2>3, <4>1 DEF IInv, TokensBounded
        <4>3. \A i \in DOMAIN request[u].mails : request[u].mails[i].token \in Nat
          BY <1>6, <4>1, MessagesOf
        <4>4. request[u].wanted.token \in Nat
          BY <4>1 DEF IInv, Typed, SessionStates, Rows
        <4>5. QED
          BY <4>1, <4>2, <4>3, <4>4 DEF IInv, Typed
      <3>3. QED
        BY <3>1, <3>2
    <2>4. QED
      BY <2>1, <2>2, <2>3 DEF TokensBounded
  <1>8. ASSUME ~ stale'
        PROVE  Sound'
    <2>1. Sound /\ ~ stale
      BY <1>2, <1>8 DEF IInv
    <2>2. LinksMatch' /\ (row'.verified => row'.email \in confirmed') /\ Emptied(row)'
      BY <1>2, <2>1 DEF Sound, LinksMatch, Emptied
    <2>3. ASSUME NEW u \in Pending'
          PROVE  Leaves(request'[u]) /\ Verifies(request'[u]) /\ Emptied(request'[u].wanted)
      <3>1. CASE u = t
        BY <1>2, <1>5, <2>1, <3>1 DEF Owes
      <3>2. CASE u # t
        BY <1>4, <1>5, <2>1, <2>3, <3>2 DEF Sound, Pending
      <3>3. QED
        BY <3>1, <3>2
    <2>4. ASSUME NEW u \in Pending', NEW k \in Nat \ {0}, Carries(request'[u], k)
          PROVE  /\ \A m \in DOMAIN outbox' : outbox'[m].token # k
                 /\ \A v \in Pending' \ {u} : ~ Carries(request'[v], k)
      <3>1. CASE u = t
        <4>1. issued < k
          BY <1>5, <2>4, <3>1 DEF Carries, Owes
        <4>2. \A m \in DOMAIN outbox : outbox[m].token # k
          BY <4>1 DEF IInv, TokensBounded, Typed
        <4>3. \A v \in Pending \ {t} : ~ Carries(request[v], k)
          BY <4>1 DEF IInv, TokensBounded, Typed, Carries
        <4>4. QED
          BY <1>2, <1>4, <1>5, <3>1, <4>2, <4>3 DEF Pending
      <3>2. CASE u # t
        <4>1. u \in Pending /\ request'[u] = request[u]
          BY <1>4, <1>5, <2>4, <3>2 DEF Pending
        <4>2. k <= issued
          BY <2>4, <4>1 DEF IInv, TokensBounded, Carries
        <4>3. ~ Carries(r, k)
          <5>1. /\ r.wanted.token \in {0, row.token} \/ issued < r.wanted.token
                /\ \A i \in DOMAIN r.mails :
                     r.mails[i].token # 0 => issued < r.mails[i].token
            BY DEF Owes
          <5>2. k # 0 /\ ~ issued < k
            BY <2>4, <4>2 DEF IInv, Typed
          <5>3. QED
            BY <5>1, <5>2 DEF Carries
        <4>4. /\ \A m \in DOMAIN outbox : outbox[m].token # k
              /\ \A v \in Pending \ {u} : ~ Carries(request[v], k)
          BY <2>1, <2>4, <4>1 DEF Sound, LinksAreFresh
        <4>5. QED
          BY <1>2, <1>4, <1>5, <4>3, <4>4 DEF Pending
      <3>3. QED
        BY <3>1, <3>2
    <2>5. QED
      BY <2>2, <2>3, <2>4 DEF Sound, LinksAreFresh
  <1>9. QED
    BY <1>3, <1>7, <1>8 DEF IInv

-----------------------------------------------------------------------------
LEMMA CreateKeeps ==
  ASSUME IInv, NEW t \in Threads, NEW a \in Addresses, create_registration(t, a)
  PROVE  IInv'
  <1> DEFINE mails == queue_templated_mail("email_verification", a, issued + 1)
             v == [email |-> a, verified |-> FALSE, token |-> issued + 1,
                   editable |-> TRUE, anonymized |-> FALSE]
             r == [seen |-> row, wanted |-> v, mails |-> mails, superseded |-> {},
                   opened |-> {}, sends |-> TRUE]
  <1>1. issued \in Nat /\ row \in Rows /\ row.token \in Nat /\ row.token <= issued
    BY DEF IInv, Typed, TokensBounded, Rows
  <1>2. /\ mails \in Seq(Messages)
        /\ \A i \in DOMAIN mails : mails[i].token = issued + 1 /\ mails[i].to = a
    BY <1>1, Queued DEF IInv, Kinds, Emails
  <1>3. v \in Rows /\ v.email = a /\ ~ v.verified /\ v.token = issued + 1
                   /\ ~ v.anonymized
    BY <1>1 DEF Rows, Emails
  <1>4. Began(t, r) /\ issued' = issued + 1
    BY DEF create_registration, Handled, Began
  <1> HIDE DEF mails, v
  <1>5. /\ r \in SessionStates
        /\ r.seen = row /\ r.wanted = v /\ r.mails = mails
    BY <1>1, <1>2, <1>3 DEF SessionStates
  <1> HIDE DEF r
  <1>6. Leaves(r) /\ Verifies(r) /\ Emptied(v)
    BY <1>1, <1>2, <1>3, <1>5 DEF Leaves, Verifies, Emptied, Carries
  <1>7. Owes(r)
    BY <1>1, <1>2, <1>3, <1>4, <1>5, <1>6 DEF Owes
  <1>8. QED
    BY <1>1, <1>4, <1>5, <1>7, HandlerKeeps

LEMMA CreateAdminKeeps ==
  ASSUME IInv, NEW t \in Threads, NEW a \in Addresses, create_volunteer_admin(t, a)
  PROVE  IInv'
  <1> DEFINE v == [email |-> a, verified |-> FALSE, token |-> 0, editable |-> FALSE,
                   anonymized |-> FALSE]
             r == [seen |-> row, wanted |-> v, mails |-> <<>>, superseded |-> {},
                   opened |-> {}, sends |-> FALSE]
  <1>1. issued \in Nat /\ row \in Rows
    BY DEF IInv, Typed
  <1>2. v \in Rows /\ ~ v.verified /\ v.token = 0 /\ ~ v.anonymized
    BY DEF Rows, Emails
  <1>3. Began(t, r) /\ issued' = issued
    BY DEF create_volunteer_admin, Handled, Began
  <1> HIDE DEF v
  <1>4. /\ r \in SessionStates
        /\ r.seen = row /\ r.wanted = v /\ r.mails = <<>>
    BY <1>1, <1>2 DEF SessionStates
  <1> HIDE DEF r
  <1>5. Leaves(r) /\ Verifies(r) /\ Emptied(v)
    BY <1>2, <1>4 DEF Leaves, Verifies, Emptied
  <1>6. Owes(r)
    BY <1>1, <1>2, <1>3, <1>4, <1>5 DEF Owes
  <1>7. QED
    BY <1>1, <1>3, <1>4, <1>6, HandlerKeeps

\* Handlers that change neither address nor token and send no link.
LEMMA NoticeKeeps ==
  ASSUME IInv, NEW t \in Threads, NEW r \in SessionStates, Began(t, r),
         issued' = issued, r.seen = row,
         r.wanted \in {row, [row EXCEPT !.editable = FALSE]},
         \A i \in DOMAIN r.mails : r.mails[i].token = 0
  PROVE  IInv'
  <1>1. issued \in Nat /\ row \in Rows /\ row.token \in Nat /\ row.token <= issued
    BY DEF IInv, Typed, TokensBounded, Rows
  <1>2. /\ r.wanted.token = row.token
        /\ r.wanted.email = row.email
        /\ r.wanted.verified = row.verified
        /\ r.wanted.anonymized = row.anonymized
        /\ r.wanted.editable => row.editable
    BY <1>1 DEF Rows
  <1>3. Leaves(r) /\ Verifies(r)
    BY <1>2 DEF Leaves, Verifies
  <1>4. ~ stale => Emptied(r.wanted)
    BY <1>2 DEF Emptied, IInv, Sound
  <1>5. Owes(r)
    BY <1>1, <1>2, <1>3, <1>4 DEF Owes
  <1>6. QED
    BY <1>1, <1>5, HandlerKeeps

LEMMA NotifyKeeps ==
  ASSUME IInv, NEW t \in Threads,
         NEW kind \in {"registration_cancellation", "waitlist_promoted"},
         notify(t, kind)
  PROVE  IInv'
  <1> DEFINE mails == queue_templated_mail(kind, row.email, 0)
             r == [seen |-> row, wanted |-> row, mails |-> mails, superseded |-> {},
                   opened |-> {}, sends |-> TRUE]
  <1>1. row \in Rows /\ row.email \in Emails
    BY DEF IInv, Typed, Rows
  <1>2. mails \in Seq(Messages) /\ \A i \in DOMAIN mails : mails[i].token = 0
    BY <1>1, Queued DEF IInv, Kinds
  <1>3. Began(t, r) /\ issued' = issued
    BY DEF notify, Handled, Began
  <1> HIDE DEF mails
  <1>4. r \in SessionStates /\ r.seen = row /\ r.wanted = row /\ r.mails = mails
    BY <1>1, <1>2 DEF SessionStates
  <1> HIDE DEF r
  <1>5. QED
    BY <1>2, <1>3, <1>4, NoticeKeeps

LEMMA RejectKeeps ==
  ASSUME IInv, NEW t \in Threads, reject_volunteer(t)
  PROVE  IInv'
  <1> DEFINE mails == queue_templated_mail("registration_rejected", row.email, 0)
             v == [row EXCEPT !.editable = FALSE]
             r == [seen |-> row, wanted |-> v, mails |-> mails, superseded |-> {},
                   opened |-> {}, sends |-> TRUE]
  <1>1. row \in Rows /\ v \in Rows /\ row.email \in Emails
    BY DEF IInv, Typed, Rows
  <1>2. mails \in Seq(Messages) /\ \A i \in DOMAIN mails : mails[i].token = 0
    BY <1>1, Queued DEF IInv, Kinds
  <1>3. Began(t, r) /\ issued' = issued
    BY DEF reject_volunteer, Handled, Began
  <1> HIDE DEF mails
  <1>4. r \in SessionStates /\ r.seen = row /\ r.wanted = v /\ r.mails = mails
    BY <1>1, <1>2 DEF SessionStates
  <1> HIDE DEF r
  <1>5. QED
    BY <1>2, <1>3, <1>4, NoticeKeeps

LEMMA AnonymizeKeeps ==
  ASSUME IInv, NEW t \in Threads, anonymize_volunteer(t)
  PROVE  IInv'
  <1> DEFINE r == [seen |-> row, wanted |-> Anonymized, mails |-> <<>>,
                   superseded |-> {}, opened |-> {}, sends |-> FALSE]
  <1>1. issued \in Nat /\ row \in Rows
    BY DEF IInv, Typed
  <1>2. /\ Anonymized \in Rows
        /\ Anonymized.email = Marker /\ ~ Anonymized.verified
        /\ Anonymized.token = 0 /\ ~ Anonymized.editable
    BY DEF Anonymized, Rows, Emails
  <1>3. Began(t, r) /\ issued' = issued
    BY DEF anonymize_volunteer, Handled, Began
  <1>4. r \in SessionStates /\ r.seen = row /\ r.wanted = Anonymized /\ r.mails = <<>>
    BY <1>1, <1>2 DEF SessionStates
  <1> HIDE DEF r
  <1>5. Leaves(r) /\ Verifies(r) /\ Emptied(Anonymized)
    BY <1>2, <1>4 DEF Leaves, Verifies, Emptied
  <1>6. Owes(r)
    BY <1>1, <1>2, <1>3, <1>4, <1>5 DEF Owes
  <1>7. QED
    BY <1>1, <1>3, <1>4, <1>6, HandlerKeeps

\* The link that is opened was addressed to the address that it verifies.
LEMMA VerifyKeeps ==
  ASSUME IInv, NEW t \in Threads, NEW m \in DOMAIN outbox, verify_email_token(t, m)
  PROVE  IInv'
  <1> DEFINE to == outbox[m].to
             v == [row EXCEPT !.verified = TRUE, !.token = 0]
             w == [row EXCEPT !.token = 0]
             r == [seen |-> row, wanted |-> v, mails |-> <<>>, superseded |-> {},
                   opened |-> {to}, sends |-> FALSE]
             q == [seen |-> row, wanted |-> w, mails |-> <<>>, superseded |-> {},
                   opened |-> {}, sends |-> FALSE]
  <1>1. /\ issued \in Nat /\ row \in Rows /\ v \in Rows /\ w \in Rows
        /\ row.token # 0 /\ row.token = outbox[m].token
    BY DEF IInv, Typed, Rows, verify_email_token
  <1>2. to \in Emails
    <2>1. outbox[m] \in Messages
      BY MessagesOf DEF IInv, Typed
    <2>2. QED
      BY <2>1 DEF Messages
  <1>3. /\ v.email = row.email /\ v.token = 0 /\ v.anonymized = row.anonymized
        /\ w.email = row.email /\ w.token = 0 /\ w.anonymized = row.anonymized
        /\ w.verified = row.verified
    BY <1>1 DEF Rows
  <1>4. ~ stale => to = row.email /\ ~ row.anonymized
    BY <1>1 DEF IInv, Sound, LinksMatch, Emptied
  <1>5. (Began(t, r) \/ Began(t, q)) /\ issued' = issued
    BY DEF verify_email_token, Handled, Began
  <1> HIDE DEF to, v, w
  <1>6. /\ r \in SessionStates
        /\ r.seen = row /\ r.wanted = v /\ r.mails = <<>> /\ r.opened = {to}
    BY <1>1, <1>2 DEF SessionStates
  <1>7. q \in SessionStates /\ q.seen = row /\ q.wanted = w /\ q.mails = <<>>
    BY <1>1 DEF SessionStates
  <1> HIDE DEF r, q
  <1>8. Owes(r)
    <2>1. ~ stale => Leaves(r) /\ Verifies(r) /\ Emptied(v)
      BY <1>3, <1>4, <1>6 DEF Leaves, Verifies, Emptied
    <2>2. QED
      BY <1>1, <1>3, <1>5, <1>6, <2>1 DEF Owes
  <1>9. Owes(q)
    <2>1. ~ stale => Leaves(q) /\ Verifies(q) /\ Emptied(w)
      BY <1>3, <1>4, <1>7 DEF Leaves, Verifies, Emptied
    <2>2. QED
      BY <1>1, <1>3, <1>5, <1>7, <2>1 DEF Owes
  <1>10. QED
    BY <1>1, <1>5, <1>6, <1>7, <1>8, <1>9, HandlerKeeps

LEMMA UpdateKeeps ==
  ASSUME IInv, NEW t \in Threads, NEW a \in Addresses, update_registration(t, a)
  PROVE  IInv'
  <1> DEFINE notice == queue_templated_mail("registration_updated", a, 0)
             link == queue_templated_mail("email_changed_verification", a, issued + 1)
             mails == notice \o link
             v == Readdressed(a)
             r == [seen |-> row, wanted |-> row, mails |-> notice, superseded |-> {},
                   opened |-> {}, sends |-> TRUE]
             q == [seen |-> row, wanted |-> v, mails |-> mails,
                   superseded |-> PendingVerifications, opened |-> {}, sends |-> TRUE]
  <1>1. issued \in Nat /\ row \in Rows /\ row.token \in Nat /\ row.token <= issued
    BY DEF IInv, Typed, TokensBounded, Rows
  <1>2. /\ notice \in Seq(Messages)
        /\ \A i \in DOMAIN notice : notice[i].token = 0
    BY Queued DEF IInv, Kinds, Emails
  <1>3. CASE Began(t, r) /\ issued' = issued
    <2> HIDE DEF notice
    <2>1. r \in SessionStates /\ r.seen = row /\ r.wanted = row /\ r.mails = notice
      BY <1>1, <1>2 DEF SessionStates
    <2> HIDE DEF r
    <2>2. QED
      BY <1>2, <1>3, <2>1, NoticeKeeps
  <1>4. CASE Began(t, q) /\ issued' = issued + 1 /\ row.editable
    <2>1. /\ link \in Seq(Messages)
          /\ \A i \in DOMAIN link : link[i].token = issued + 1 /\ link[i].to = a
      BY <1>1, Queued DEF IInv, Kinds, Emails
    <2>2. /\ v \in Rows /\ v.email = a /\ ~ v.verified /\ v.token = issued + 1
          /\ v.anonymized = row.anonymized
      <3>1. issued + 1 \in Nat /\ a \in Emails
        BY <1>1 DEF Emails
      <3>2. v \in Rows
        BY <1>1, <3>1 DEF Readdressed, Rows
      <3>3. v.email = a /\ ~ v.verified /\ v.token = issued + 1
        BY <1>1 DEF Readdressed, Rows
      <3>4. v.anonymized = row.anonymized
        BY <1>1 DEF Readdressed, Rows
      <3>5. QED
        BY <3>2, <3>3, <3>4
    <2>3. PendingVerifications \in SUBSET Nat
      <3>1. DOMAIN outbox \in SUBSET Nat
        BY DEF IInv, Typed
      <3>2. QED
        BY <3>1 DEF PendingVerifications
    <2> HIDE DEF notice, link, v
    <2>4. mails \in Seq(Messages)
      BY <1>2, <2>1
    <2>5. ASSUME NEW i \in DOMAIN mails
          PROVE  mails[i].token = 0 \/ (mails[i].token = issued + 1 /\ mails[i].to = a)
      <3>1. i \in 1..(Len(notice) + Len(link)) /\ Len(notice) \in Nat /\ Len(link) \in Nat
        BY <1>2, <2>1
      <3>2. CASE i <= Len(notice)
        BY <1>2, <3>1, <3>2
      <3>3. CASE i > Len(notice)
        <4>1. mails[i] = link[i - Len(notice)] /\ i - Len(notice) \in DOMAIN link
          BY <1>2, <2>1, <3>1, <3>3
        <4>2. QED
          BY <2>1, <4>1
      <3>4. QED
        BY <3>1, <3>2, <3>3
    <2> HIDE DEF mails
    <2>6. q \in SessionStates /\ q.seen = row /\ q.wanted = v /\ q.mails = mails
      BY <1>1, <2>2, <2>3, <2>4 DEF SessionStates
    <2> HIDE DEF q
    <2>7. ~ stale => Leaves(q) /\ Verifies(q) /\ Emptied(v)
      <3>1. ~ stale => ~ row.anonymized
        BY <1>4 DEF IInv, Sound, Emptied
      <3>2. QED
        BY <1>1, <2>2, <2>5, <2>6, <3>1 DEF Leaves, Verifies, Emptied, Carries
    <2>8. Owes(q)
      BY <1>1, <1>4, <2>2, <2>5, <2>6, <2>7 DEF Owes
    <2>9. QED
      BY <1>1, <1>4, <2>6, <2>8, HandlerKeeps
  <1>5. QED
    BY <1>3, <1>4 DEF update_registration, Handled, Began

-----------------------------------------------------------------------------
LEMMA SupersededKeepsLinks ==
  ASSUME Typed, NEW ids \in SUBSET Nat
  PROVE  LET old == Superseded(outbox, ids)
         IN /\ old \in Seq(Messages) /\ Len(old) = Len(outbox)
            /\ \A m \in DOMAIN outbox :
                 old[m].token = outbox[m].token /\ old[m].to = outbox[m].to
  <1> DEFINE old == Superseded(outbox, ids)
  <1>1. DOMAIN outbox = 1..Len(outbox) /\ Len(outbox) \in Nat
    BY DEF Typed
  <1>2. ASSUME NEW m \in DOMAIN outbox
        PROVE  /\ old[m] \in Messages
               /\ old[m].token = outbox[m].token
               /\ old[m].to = outbox[m].to
    <2>1. outbox[m] \in Messages
      BY MessagesOf DEF Typed
    <2>2. QED
      BY <2>1 DEF Superseded, Messages, Modes
  <1>3. old = [m \in 1..Len(outbox) |-> old[m]]
    BY <1>1 DEF Superseded
  <1> HIDE DEF old
  <1>4. old \in Seq(Messages) /\ Len(old) = Len(outbox)
    BY <1>1, <1>2, <1>3
  <1>5. QED
    BY <1>2, <1>4 DEF old

(***************************************************************************)
(* Each message after a commit was there before or is one of the session's.*)
(***************************************************************************)
LEMMA CommittedMessages ==
  ASSUME Typed, NEW t \in Threads, Commit(t)
  PROVE  /\ outbox' \in Seq(Messages)
         /\ \A m \in DOMAIN outbox' :
              \/ /\ m \in DOMAIN outbox
                 /\ outbox'[m].token = outbox[m].token /\ outbox'[m].to = outbox[m].to
              \/ \E i \in DOMAIN request[t].mails : outbox'[m] = request[t].mails[i]
  <1> DEFINE old == Superseded(outbox, request[t].superseded)
             mails == request[t].mails
  <1>1. request[t].superseded \in SUBSET Nat /\ mails \in Seq(Messages)
    BY DEF Typed, SessionStates
  <1>2. /\ old \in Seq(Messages) /\ Len(old) = Len(outbox)
        /\ \A m \in DOMAIN outbox :
             old[m].token = outbox[m].token /\ old[m].to = outbox[m].to
    BY <1>1, SupersededKeepsLinks
  <1>3. outbox' = old \o mails
    BY DEF Commit
  <1>4. outbox \in Seq(Messages)
    BY DEF Typed
  <1> HIDE DEF old, mails
  <1>5. outbox' \in Seq(Messages)
    BY <1>1, <1>2, <1>3
  <1>6. ASSUME NEW m \in DOMAIN outbox'
        PROVE  \/ /\ m \in DOMAIN outbox
                  /\ outbox'[m].token = outbox[m].token /\ outbox'[m].to = outbox[m].to
               \/ \E i \in DOMAIN mails : outbox'[m] = mails[i]
    <2>1. m \in 1..(Len(old) + Len(mails)) /\ Len(old) \in Nat /\ Len(mails) \in Nat
      BY <1>1, <1>2, <1>3
    <2>2. CASE m <= Len(old)
      <3>1. outbox'[m] = old[m] /\ m \in DOMAIN outbox
        BY <1>1, <1>2, <1>3, <1>4, <2>1, <2>2
      <3>2. QED
        BY <1>2, <3>1
    <2>3. CASE m > Len(old)
      <3>1. outbox'[m] = mails[m - Len(old)] /\ m - Len(old) \in DOMAIN mails
        BY <1>1, <1>2, <1>3, <2>1, <2>3
      <3>2. QED
        BY <3>1
    <2>4. QED
      BY <2>1, <2>2, <2>3
  <1>7. QED
    BY <1>5, <1>6 DEF mails

LEMMA CommitKeeps ==
  ASSUME IInv, NEW t \in Threads, Commit(t)
  PROVE  IInv'
  <1> DEFINE r == request[t]
  <1>1. /\ at[t] = "commit"
        /\ row' = MergedRow(r)
        /\ confirmed' = IF row'.email = row.email THEN confirmed \cup r.opened
                                                  ELSE r.opened
        /\ stale' = (stale \/ row # r.seen)
        /\ at' = [at EXCEPT ![t] = IF r.sends THEN "load" ELSE "idle"]
        /\ request' = [request EXCEPT ![t] = Idle]
        /\ UNCHANGED <<template, issued>>
    BY DEF Commit
  <1>2. r \in SessionStates /\ r.seen \in Rows /\ r.wanted \in Rows
    BY DEF IInv, Typed, SessionStates
  <1>3. Typed
    BY DEF IInv
  <1>4. /\ outbox' \in Seq(Messages)
        /\ \A m \in DOMAIN outbox' :
             \/ /\ m \in DOMAIN outbox
                /\ outbox'[m].token = outbox[m].token /\ outbox'[m].to = outbox[m].to
             \/ \E i \in DOMAIN r.mails : outbox'[m] = r.mails[i]
    BY <1>3, CommittedMessages
  <1>5. t \in Pending /\ Pending' = Pending \ {t}
    BY <1>1, <1>3 DEF Pending, Typed
  <1>6. \A u \in Threads \ {t} : request'[u] = request[u]
    BY <1>1, <1>3 DEF Typed
  <1>7. row' \in Rows /\ row'.token \in {row.token, r.wanted.token}
    BY <1>1, <1>2, <1>3 DEF MergedRow, Column, Rows, Typed
  <1>8. Typed'
    <2>1. Idle \in SessionStates
      BY DEF Idle, SessionStates, NoVolunteer, Rows, Emails
    <2>2. QED
      BY <1>1, <1>3, <1>4, <1>7, <2>1 DEF Typed, Phases
  <1> HIDE DEF r
  <1>9. TokensBounded'
    BY <1>1, <1>4, <1>5, <1>6, <1>7 DEF TokensBounded, IInv, Pending, r
  <1>10. ASSUME ~ stale'
         PROVE  Sound'
    <2>1. ~ stale /\ row = r.seen
      BY <1>1, <1>3, <1>10 DEF Typed
    <2>2. row' = r.wanted
      <3>1. \A c, l : Column(l, l, c) = c
        BY DEF Column
      <3>2. QED
        BY <1>1, <1>2, <2>1, <3>1 DEF MergedRow, Rows
    <2>3. Sound /\ Leaves(r) /\ Verifies(r) /\ Emptied(r.wanted)
      BY <1>5, <2>1 DEF IInv, Sound, r
    <2>4. \A k \in Nat \ {0} : Carries(r, k) =>
            /\ \A m \in DOMAIN outbox : outbox[m].token # k
            /\ \A u \in Pending \ {t} : ~ Carries(request[u], k)
      BY <1>5, <2>3 DEF Sound, LinksAreFresh, r
    <2>5. r.wanted.token \in Nat
      BY <1>2 DEF Rows
    <2>6. LinksMatch'
      <3>1. ASSUME NEW m \in DOMAIN outbox', outbox'[m].token # 0,
                   outbox'[m].token = row'.token
            PROVE  outbox'[m].to = row'.email
        <4>1. CASE \E i \in DOMAIN r.mails : outbox'[m] = r.mails[i]
          BY <2>2, <2>3, <3>1, <4>1 DEF Leaves
        <4>2. CASE /\ m \in DOMAIN outbox
                   /\ outbox'[m].token = outbox[m].token
                   /\ outbox'[m].to = outbox[m].to
          <5>1. ~ Carries(r, r.wanted.token)
            BY <2>2, <2>4, <2>5, <3>1, <4>2
          <5>2. r.wanted.token = row.token /\ r.wanted.email = row.email
            BY <2>1, <2>2, <2>3, <3>1, <5>1 DEF Leaves
          <5>3. QED
            BY <2>2, <2>3, <3>1, <4>2, <5>2 DEF Sound, LinksMatch
        <4>3. QED
          BY <1>4, <4>1, <4>2
      <3>2. QED
        BY <3>1 DEF LinksMatch
    <2>7. LinksAreFresh'
      <3>1. ASSUME NEW u \in Pending', NEW k \in Nat \ {0}, Carries(request'[u], k)
            PROVE  /\ \A m \in DOMAIN outbox' : outbox'[m].token # k
                   /\ \A w \in Pending' \ {u} : ~ Carries(request'[w], k)
        <4>1. u \in Pending /\ u # t /\ request'[u] = request[u]
          BY <1>5, <1>6, <3>1 DEF Pending
        <4>2. /\ \A m \in DOMAIN outbox : outbox[m].token # k
              /\ \A w \in Pending \ {u} : ~ Carries(request[w], k)
          BY <2>3, <3>1, <4>1 DEF Sound, LinksAreFresh
        <4>3. ~ Carries(r, k)
          BY <1>5, <4>1, <4>2 DEF r
        <4>4. \A i \in DOMAIN r.mails : r.mails[i].token # k
          BY <4>3 DEF Carries
        <4>5. QED
          BY <1>4, <1>5, <1>6, <4>2, <4>4 DEF Pending
      <3>2. QED
        BY <3>1 DEF LinksAreFresh
    <2>8. ASSUME row'.verified
          PROVE  row'.email \in confirmed'
      BY <1>1, <2>1, <2>2, <2>3, <2>8 DEF Sound, Verifies
    <2>9. \A u \in Pending' : /\ Leaves(request'[u]) /\ Verifies(request'[u])
                              /\ Emptied(request'[u].wanted)
      BY <1>5, <1>6, <2>3 DEF Sound, Pending
    <2>10. Emptied(row')
      BY <2>2, <2>3
    <2>11. QED
      BY <2>6, <2>7, <2>8, <2>9, <2>10 DEF Sound, Emptied
  <1>11. QED
    BY <1>8, <1>9, <1>10 DEF IInv

-----------------------------------------------------------------------------
\* What sending, settings and a crash have in common: no row, link or session is new.
Quiet ==
  /\ UNCHANGED <<row, issued, confirmed, stale>>
  /\ Typed'
  /\ Pending' \subseteq Pending
  /\ \A t \in Pending' : request'[t] = request[t]
  /\ DOMAIN outbox' = DOMAIN outbox
  /\ \A m \in DOMAIN outbox :
       outbox'[m].token = outbox[m].token /\ outbox'[m].to = outbox[m].to

LEMMA QuietKeeps ==
  ASSUME IInv, Quiet
  PROVE  IInv'
  <1>1. TokensBounded'
    BY DEF IInv, TokensBounded, Quiet
  <1>2. ASSUME ~ stale'
        PROVE  Sound'
    <2>1. Sound
      BY <1>2 DEF IInv, Quiet
    <2>2. LinksMatch' /\ (row'.verified => row'.email \in confirmed') /\ Emptied(row)'
      BY <2>1 DEF Sound, LinksMatch, Emptied, Quiet
    <2>3. LinksAreFresh'
      BY <2>1 DEF Sound, LinksAreFresh, Quiet
    <2>4. \A t \in Pending' : /\ Leaves(request'[t]) /\ Verifies(request'[t])
                              /\ Emptied(request'[t].wanted)
      BY <2>1 DEF Sound, Quiet
    <2>5. QED
      BY <2>2, <2>3, <2>4 DEF Sound
  <1>3. QED
    BY <1>1, <1>2 DEF IInv, Quiet

\* A message is marked, or its error recorded.
LEMMA MarkQuiet ==
  ASSUME IInv, NEW t \in Threads, NEW m,
         NEW phase \in Phases \ {"commit"},
         \/ outbox' = [outbox EXCEPT ![m].sent = TRUE, ![m].error = FALSE]
         \/ outbox' = [outbox EXCEPT ![m].error = TRUE],
         at' = [at EXCEPT ![t] = phase],
         UNCHANGED <<row, template, issued, request, confirmed, stale>>
  PROVE  Quiet
  <1>1. outbox \in Seq(Messages) /\ Len(outbox) \in Nat /\ DOMAIN outbox = 1..Len(outbox)
    BY DEF IInv, Typed
  <1>2. DOMAIN outbox' = DOMAIN outbox
    OBVIOUS
  <1>3. ASSUME NEW i \in DOMAIN outbox
        PROVE  /\ outbox'[i] \in Messages
               /\ outbox'[i].token = outbox[i].token /\ outbox'[i].to = outbox[i].to
    <2>1. outbox[i] \in Messages
      BY <1>1, MessagesOf
    <2>2. CASE i = m
      <3> DEFINE e == outbox[i]
      <3>1. outbox'[i] \in {[e EXCEPT !.sent = TRUE, !.error = FALSE],
                            [e EXCEPT !.error = TRUE]}
        BY <2>2
      <3>2. e \in Messages
        BY <2>1
      <3> HIDE DEF e
      <3>3. \A d \in {[e EXCEPT !.sent = TRUE, !.error = FALSE],
                      [e EXCEPT !.error = TRUE]} :
              d \in Messages /\ d.token = e.token /\ d.to = e.to
        BY <3>2 DEF Messages
      <3>4. QED
        BY <3>1, <3>3 DEF e
    <2>3. CASE i # m
      BY <2>1, <2>3
    <2>4. QED
      BY <2>2, <2>3
  <1>4. outbox' = [i \in 1..Len(outbox) |-> outbox'[i]]
    BY <1>1, <1>2
  <1>5. outbox' \in Seq(Messages)
    BY <1>1, <1>3, <1>4
  <1>6. Typed'
    BY <1>5 DEF IInv, Typed
  <1>7. Pending' \subseteq Pending
    BY DEF Pending, IInv, Typed
  <1>8. QED
    BY <1>2, <1>3, <1>6, <1>7 DEF Quiet

\* Everything a thread does after its commit, but for the outbox.
LEMMA PhaseQuiet ==
  ASSUME IInv, NEW t \in Threads, NEW phase \in Phases \ {"commit"},
         at' = [at EXCEPT ![t] = phase],
         UNCHANGED <<row, outbox, template, issued, request, confirmed, stale>>
  PROVE  Quiet
  <1>1. Typed'
    BY DEF IInv, Typed
  <1>2. Pending' \subseteq Pending
    BY DEF Pending, IInv, Typed
  <1>3. QED
    BY <1>1, <1>2 DEF Quiet

LEMMA ContinueKeeps ==
  ASSUME IInv, NEW t \in Threads, Continue(t) \/ AdminSend(t)
  PROVE  IInv'
  <1>1. CASE Commit(t)
    BY <1>1, CommitKeeps
  <1>2. ASSUME NEW phase \in Phases \ {"commit"}, at' = [at EXCEPT ![t] = phase],
               UNCHANGED <<row, outbox, template, issued, request, confirmed, stale>>
        PROVE  IInv'
    BY <1>2, PhaseQuiet, QuietKeeps
  <1>3. CASE send_pending_automatic_messages(t)
    BY <1>2, <1>3 DEF send_pending_automatic_messages, Begin, Phases
  <1>4. CASE AdminSend(t)
    BY <1>2, <1>4 DEF AdminSend, send_outbox_message_admin, Begin, Phases
  <1>5. CASE configured(t)
    BY <1>2, <1>5 DEF configured, Phases
  <1>6. CASE send_message(t)
    BY <1>2, <1>6 DEF send_message, Phases
  <1>7. CASE delivery_disabled(t)
    BY <1>2, <1>7 DEF delivery_disabled, Phases
  <1>8. ASSUME NEW phase \in {"idle", "next"}, NEW m,
               \/ outbox' = [outbox EXCEPT ![m].sent = TRUE, ![m].error = FALSE]
               \/ outbox' = [outbox EXCEPT ![m].error = TRUE],
               at' = [at EXCEPT ![t] = phase],
               UNCHANGED <<row, template, issued, request, confirmed, stale>>
        PROVE  IInv'
    <2>1. phase \in Phases \ {"commit"}
      BY DEF Phases
    <2>2. QED
      BY <1>8, <2>1, MarkQuiet, QuietKeeps
  <1>9. CASE mark_sent(t)
    BY <1>8, <1>9 DEF mark_sent, Marked, Proceed
  <1>10. CASE delivery_fails(t)
    BY <1>8, <1>10 DEF delivery_fails, Proceed
  <1>11. QED
    BY <1>1, <1>3, <1>4, <1>5, <1>6, <1>7, <1>9, <1>10 DEF Continue

LEMMA HandlerStepKeeps ==
  ASSUME IInv, NEW t \in Threads, HandlerStep(t)
  PROVE  IInv'
  BY CreateKeeps, CreateAdminKeeps, UpdateKeeps, VerifyKeeps, RejectKeeps,
     AnonymizeKeeps, NotifyKeeps DEF HandlerStep

LEMMA InvariantKept ==
  ASSUME IInv, [Next]_mailVars
  PROVE  IInv'
  <1>1. ASSUME NEW kind \in Kinds, NEW mode \in Modes, mail_template_update(kind, mode)
        PROVE  Quiet
    <2>1. Typed'
      BY <1>1 DEF mail_template_update, IInv, Typed
    <2>2. QED
      BY <1>1, <2>1 DEF mail_template_update, Quiet, Pending
  <1>2. ASSUME NEW enabled \in BOOLEAN, smtp_configuration_submit(enabled)
        PROVE  Quiet
    BY <1>2 DEF smtp_configuration_submit, Quiet, Pending, IInv, Typed
  <1>3. CASE crash
    <2>1. Idle \in SessionStates
      BY DEF Idle, SessionStates, NoVolunteer, Rows, Emails
    <2>2. Typed'
      BY <1>3, <2>1 DEF crash, IInv, Typed, Phases
    <2>3. Pending' = {}
      BY <1>3 DEF crash, Pending
    <2>4. Quiet
      BY <1>3, <2>2, <2>3 DEF crash, Quiet
    <2>5. QED
      BY <2>4, QuietKeeps
  <1>4. CASE UNCHANGED mailVars
    BY <1>4, QuietKeeps DEF mailVars, Quiet, Pending, IInv, Typed
  <1>5. QED
    BY <1>1, <1>2, <1>3, <1>4, ContinueKeeps, HandlerStepKeeps, QuietKeeps
    DEF Next, Configure

LEMMA InvariantHolds == Spec => []IInv
  <1>1. Init => IInv
    <2> SUFFICES ASSUME Init PROVE IInv
      OBVIOUS
    <2>1. row \in Rows /\ Idle \in SessionStates
      BY DEF Init, Idle, SessionStates, NoVolunteer, Rows, Emails
    <2>2. template \in [Kinds -> Modes]
      BY DEF Init, DefaultMode, Modes
    <2>3. /\ row \in Rows /\ outbox \in Seq(Messages)
          /\ template \in [Kinds -> Modes] /\ issued \in Nat
      BY <2>1, <2>2 DEF Init
    <2>4. at \in [Threads -> Phases] /\ Pending = {}
      BY DEF Init, Phases, Pending
    <2>5. request \in [Threads -> SessionStates] /\ stale \in BOOLEAN
      BY <2>1 DEF Init
    <2>6. Typed
      BY <2>3, <2>4, <2>5 DEF Typed
    <2>7. row.token = 0 /\ ~ row.verified /\ ~ row.anonymized
      BY DEF Init, NoVolunteer
    <2>8. QED
      BY <2>4, <2>6, <2>7 DEF Init, IInv, TokensBounded, Sound, LinksMatch, LinksAreFresh, Emptied
  <1>2. QED
    BY <1>1, InvariantKept, PTL DEF Spec

(***************************************************************************)
(* As long as no session commits onto a row that changed after it was      *)
(* read, the address of a verified volunteer was confirmed by a link that  *)
(* was sent to it, for any number of threads, addresses and messages.      *)
(***************************************************************************)
THEOREM VerificationSound == Spec => []VerifiedWasConfirmed
  <1>1. IInv => VerifiedWasConfirmed
    BY DEF IInv, Sound, VerifiedWasConfirmed
  <1>2. QED
    BY <1>1, InvariantHolds, PTL

(***************************************************************************)
(* With the same proviso nothing personal comes back into an anonymized    *)
(* row: the edit link, the verification link and the address stay removed. *)
(***************************************************************************)
THEOREM AnonymizationLasts == Spec => []AnonymizedStaysEmpty
  <1>1. IInv => AnonymizedStaysEmpty
    BY DEF IInv, Sound, Emptied, AnonymizedStaysEmpty
  <1>2. QED
    BY <1>1, InvariantHolds, PTL

-----------------------------------------------------------------------------
(***************************************************************************)
(* Copies. Lists are worked off from their smallest id.                    *)
(***************************************************************************)
LEMMA CurrentExists ==
  ASSUME NEW t \in Threads, list[t] \subseteq Nat, list[t] # {}
  PROVE  Current(t) \in list[t]
  <1> DEFINE R == {p \in Nat \X Nat : p[1] < p[2]}
             T == list[t]
  <1>1. IsWellFoundedOn(R, Nat)
    BY NatLessThanWellFounded DEF OpToRel
  <1>2. T \subseteq Nat /\ T # {}
    OBVIOUS
  <1>3. \E m \in T : \A n \in T : ~ (<<n, m>> \in R)
    <2> HIDE DEF R, T
    <2>1. QED
      BY <1>1, <1>2, WFMin
  <1>4. \A m, n \in T : <<n, m>> \notin R => m <= n
    <2> TAKE m, n \in T
    <2>1. m \in Nat /\ n \in Nat
      BY <1>2
    <2>2. n < m => <<n, m>> \in R
      BY <2>1
    <2>3. QED
      BY <2>1, <2>2
  <1> HIDE DEF R
  <1>5. \E m \in T : \A n \in T : m <= n
    BY <1>3, <1>4
  <1>6. QED
    BY <1>5 DEF Current

Marking(t, m) == at[t] = "mark" /\ Current(t) = m

\* Nobody but one thread has yet to send m, and m has reached nobody before it is marked.
SentOnce(m) ==
  /\ \A t, u \in Threads : m \in list[t] /\ m \in list[u] => t = u
  /\ \A t \in Threads : m \in list[t] => ~ outbox[m].sent
  /\ \/ copies[m] = 0
     \/ copies[m] = 1 /\ (outbox[m].sent \/ \E t \in Threads : Marking(t, m))

(***************************************************************************)
(* The inductive invariant: a message that no mishap befell is with one    *)
(* thread at most, unsent, and a copy of it is either marked as sent or    *)
(* about to be.                                                            *)
(***************************************************************************)
CopiesInv ==
  /\ copies \in Seq(Nat) /\ Len(copies) = Len(outbox)
  /\ list \in [Threads -> SUBSET DOMAIN outbox]
  /\ \A t \in Threads : at[t] \in {"send", "mark", "next"} => list[t] # {}
  /\ \A m \in DOMAIN outbox : m \notin mishaps => SentOnce(m)

LEMMA MessageIds ==
  ASSUME Typed, CopiesInv
  PROVE  /\ DOMAIN outbox = 1..Len(outbox) /\ Len(outbox) \in Nat
         /\ DOMAIN copies = DOMAIN outbox
         /\ \A t \in Threads : list[t] \subseteq DOMAIN outbox /\ list[t] \subseteq Nat
  BY DEF Typed, CopiesInv

LEMMA Concatenated ==
  ASSUME NEW S, NEW s \in Seq(S), NEW r \in Seq(S)
  PROVE  s \o r \in Seq(S) /\ Len(s \o r) = Len(s) + Len(r)
  OBVIOUS

LEMMA CountedSequence ==
  ASSUME NEW s \in Seq(Nat), NEW c \in DOMAIN s
  PROVE  /\ [s EXCEPT ![c] = @ + 1] \in Seq(Nat)
         /\ Len([s EXCEPT ![c] = @ + 1]) = Len(s)
  <1> DEFINE r == [s EXCEPT ![c] = @ + 1]
  <1>1. DOMAIN s = 1..Len(s) /\ Len(s) \in Nat
    OBVIOUS
  <1>2. \A i \in 1..Len(s) : r[i] \in Nat
    <2> TAKE i \in 1..Len(s)
    <2>1. s[i] \in Nat
      BY <1>1
    <2>2. QED
      BY <1>1, <2>1
  <1>3. r = [i \in 1..Len(s) |-> r[i]]
    BY <1>1
  <1> HIDE DEF r
  <1>4. r \in Seq(Nat) /\ Len(r) = Len(s)
    BY <1>1, <1>2, <1>3
  <1>5. QED
    BY <1>4 DEF r

LEMMA CurrentInList ==
  ASSUME Typed, CopiesInv, NEW t \in Threads, at[t] \in {"send", "mark", "next"}
  PROVE  Current(t) \in list[t] /\ Current(t) \in DOMAIN outbox
  <1>1. list[t] # {} /\ list[t] \subseteq Nat /\ list[t] \subseteq DOMAIN outbox
    BY MessageIds DEF CopiesInv
  <1>2. QED
    BY <1>1, CurrentExists

(***************************************************************************)
(* Steps that leave the messages, the lists and the copies alone, and do   *)
(* not take up or give up the marking of a message.                        *)
(***************************************************************************)
LEMMA ElsewhereKeepsCopies ==
  ASSUME CopiesInv, UNCHANGED <<list, copies, outbox>>, mishaps \subseteq mishaps',
         \A t \in Threads : /\ at[t] = "mark" => at'[t] = "mark"
                            /\ at'[t] \in {"send", "mark", "next"} => list[t] # {}
  PROVE  CopiesInv'
  <1>1. \A t \in Threads, m \in DOMAIN outbox : Marking(t, m) => Marking(t, m)'
    BY DEF Marking, Current
  <1>2. ASSUME NEW m \in DOMAIN outbox', m \notin mishaps'
        PROVE  SentOnce(m)'
    <2>1. SentOnce(m) /\ m \in DOMAIN outbox
      BY <1>2 DEF CopiesInv
    <2>2. QED
      BY <1>1, <2>1 DEF SentOnce
  <1>3. QED
    BY <1>2 DEF CopiesInv

LEMMA HandlerKeepsCopies ==
  ASSUME IInv, CopiesInv, NEW t \in Threads, HandlerStep(t)
  PROVE  CopiesInv'
  <1>1. /\ at[t] = "idle" /\ at' = [at EXCEPT ![t] = "commit"]
        /\ UNCHANGED <<list, copies, outbox, mishaps>>
    BY DEF HandlerStep, Handled, create_registration, create_volunteer_admin,
           update_registration, verify_email_token, reject_volunteer, anonymize_volunteer,
           notify
  <1>2. at \in [Threads -> Phases]
    BY DEF IInv, Typed
  <1>3. QED
    BY <1>1, <1>2, ElsewhereKeepsCopies DEF CopiesInv

LEMMA CommitKeepsCopies ==
  ASSUME IInv, CopiesInv, NEW t \in Threads, Commit(t)
  PROVE  CopiesInv'
  <1> DEFINE old == Superseded(outbox, request[t].superseded)
             mails == request[t].mails
             zeros == [i \in DOMAIN mails |-> 0]
  <1>1. request[t].superseded \in SUBSET Nat /\ mails \in Seq(Messages)
    BY DEF IInv, Typed, SessionStates
  <1>2. /\ old \in Seq(Messages) /\ Len(old) = Len(outbox)
        /\ outbox \in Seq(Messages) /\ DOMAIN outbox = 1..Len(outbox)
    BY <1>1, SupersededKeepsLinks DEF IInv, Typed
  <1>3. \A m \in DOMAIN outbox : old[m].sent = outbox[m].sent
    <2> TAKE m \in DOMAIN outbox
    <2>1. outbox[m] \in Messages
      BY <1>2, MessagesOf
    <2>2. QED
      BY <2>1 DEF Superseded, Messages
  <1>4. zeros \in Seq(Nat) /\ Len(zeros) = Len(mails)
    BY <1>1
  <1>5. /\ outbox' = old \o mails /\ copies' = copies \o zeros
        /\ UNCHANGED <<list, mishaps>>
        /\ at[t] = "commit" /\ at' = [at EXCEPT ![t] = IF request[t].sends THEN "load" ELSE "idle"]
    BY DEF Commit
  <1>6. \A i \in DOMAIN zeros : zeros[i] = 0
    OBVIOUS
  <1>7. copies \in Seq(Nat) /\ Len(copies) = Len(outbox)
    BY DEF CopiesInv
  <1> HIDE DEF old, mails, zeros
  <1>8. /\ copies' \in Seq(Nat) /\ Len(copies') = Len(outbox')
        /\ DOMAIN outbox' = 1..(Len(outbox) + Len(mails))
        /\ Len(outbox) \in Nat /\ Len(mails) \in Nat
    <2>1. Len(outbox) \in Nat /\ Len(mails) \in Nat /\ Len(zeros) \in Nat
      BY <1>1, <1>2, <1>4
    <2>2. outbox' \in Seq(Messages) /\ Len(outbox') = Len(old) + Len(mails)
      BY <1>1, <1>2, <1>5, Concatenated
    <2>3. copies' \in Seq(Nat) /\ Len(copies') = Len(copies) + Len(zeros)
      BY <1>4, <1>5, <1>7, Concatenated
    <2>4. DOMAIN outbox' = 1..Len(outbox')
      BY <2>2
    <2>5. QED
      BY <1>2, <1>4, <1>7, <2>1, <2>2, <2>3, <2>4
  <1>9. \A m \in DOMAIN outbox : /\ m \in DOMAIN outbox'
                                 /\ copies'[m] = copies[m]
                                 /\ outbox'[m].sent = outbox[m].sent
    <2> TAKE m \in DOMAIN outbox
    <2>1. m \in 1..Len(outbox) /\ m \in 1..(Len(outbox) + Len(mails))
      BY <1>2, <1>8
    <2>2. copies'[m] = copies[m]
      BY <1>4, <1>5, <1>7, <2>1
    <2>3. outbox'[m] = old[m]
      BY <1>1, <1>2, <1>5, <2>1
    <2>4. QED
      BY <1>3, <1>8, <2>1, <2>2, <2>3
  <1>10. ASSUME NEW m \in DOMAIN outbox', m \notin DOMAIN outbox
         PROVE  copies'[m] = 0
    <2>1. m \in 1..(Len(outbox) + Len(mails)) /\ m > Len(outbox)
      BY <1>2, <1>8, <1>10
    <2>2. copies'[m] = zeros[m - Len(outbox)] /\ m - Len(outbox) \in DOMAIN zeros
      BY <1>4, <1>5, <1>7, <1>8, <2>1
    <2>3. QED
      BY <1>6, <2>2
  <1>11. \A u \in Threads, m \in DOMAIN outbox : Marking(u, m) => Marking(u, m)'
    BY <1>5 DEF Marking, Current, IInv, Typed
  <1>12. list' \in [Threads -> SUBSET DOMAIN outbox']
    <2>1. DOMAIN outbox \subseteq DOMAIN outbox'
      BY <1>9
    <2>2. QED
      BY <1>5, <2>1 DEF CopiesInv
  <1>13. ASSUME NEW m \in DOMAIN outbox', m \notin mishaps'
         PROVE  SentOnce(m)'
    <2>1. CASE m \in DOMAIN outbox
      BY <1>5, <1>9, <1>11, <1>13, <2>1 DEF CopiesInv, SentOnce
    <2>2. CASE m \notin DOMAIN outbox
      <3>1. \A u \in Threads : m \notin list'[u]
        BY <1>5, <2>2, MessageIds DEF IInv
      <3>2. QED
        BY <1>10, <2>2, <3>1 DEF SentOnce
    <2>3. QED
      BY <2>1, <2>2
  <1>14. \A u \in Threads : at'[u] \in {"send", "mark", "next"} => list'[u] # {}
    BY <1>5 DEF CopiesInv, IInv, Typed
  <1>15. QED
    BY <1>8, <1>12, <1>13, <1>14 DEF CopiesInv

LEMMA BeginKeepsCopies ==
  ASSUME IInv, CopiesInv, NEW t \in Threads, NEW ids \in SUBSET DOMAIN outbox,
         \A m \in ids : ~ outbox[m].sent, at[t] \in {"idle", "load"}, Begin(t, ids),
         UNCHANGED <<outbox, copies>>
  PROVE  CopiesInv'
  <1>1. at \in [Threads -> Phases] /\ list \in [Threads -> SUBSET DOMAIN outbox]
    BY DEF IInv, Typed, CopiesInv
  <1>2. /\ list' = [list EXCEPT ![t] = ids]
        /\ at' = [at EXCEPT ![t] = IF ids = {} THEN "idle" ELSE "send"]
        /\ mishaps' = mishaps \cup SentByOthers(t, ids)
    BY DEF Begin
  <1>3. list' \in [Threads -> SUBSET DOMAIN outbox']
    BY <1>1, <1>2
  <1>4. \A u \in Threads : at'[u] \in {"send", "mark", "next"} => list'[u] # {}
    BY <1>1, <1>2 DEF CopiesInv
  <1>5. \A u \in Threads, m \in DOMAIN outbox : Marking(u, m) => Marking(u, m)'
    BY <1>1, <1>2 DEF Marking, Current
  <1>6. ASSUME NEW m \in DOMAIN outbox', m \notin mishaps'
        PROVE  SentOnce(m)'
    <2>1. SentOnce(m) /\ m \in DOMAIN outbox
      BY <1>2, <1>6 DEF CopiesInv
    <2>2. m \in ids => \A u \in Threads \ {t} : m \notin list[u]
      BY <1>2, <1>6 DEF SentByOthers
    <2>3. QED
      BY <1>1, <1>2, <1>5, <2>1, <2>2 DEF SentOnce
  <1>7. QED
    BY <1>3, <1>4, <1>6 DEF CopiesInv

LEMMA SendKeepsCopies ==
  ASSUME IInv, CopiesInv, NEW t \in Threads, send_message(t)
  PROVE  CopiesInv'
  <1>1. PICK c : c = Current(t)
    OBVIOUS
  <1>2. /\ at[t] = "send" /\ at' = [at EXCEPT ![t] = "mark"]
        /\ copies' = [copies EXCEPT ![c] = @ + 1]
        /\ UNCHANGED <<outbox, list, mishaps>>
    BY <1>1 DEF send_message
  <1>3. c \in list[t] /\ c \in DOMAIN outbox
    BY <1>1, <1>2, CurrentInList DEF IInv
  <1>4. /\ at \in [Threads -> Phases] /\ copies \in Seq(Nat) /\ Len(copies) = Len(outbox)
        /\ DOMAIN copies = DOMAIN outbox
    BY MessageIds DEF IInv, Typed, CopiesInv
  <1>5. copies' \in Seq(Nat) /\ Len(copies') = Len(outbox')
    BY <1>2, <1>3, <1>4, CountedSequence
  <1>6. \A u \in Threads, m \in DOMAIN outbox : Marking(u, m) => Marking(u, m)'
    BY <1>2, <1>4 DEF Marking, Current
  <1>7. Marking(t, c)'
    BY <1>1, <1>2, <1>4 DEF Marking, Current
  <1>8. ASSUME NEW m \in DOMAIN outbox', m \notin mishaps'
        PROVE  SentOnce(m)'
    <2>1. SentOnce(m) /\ m \in DOMAIN outbox
      BY <1>2, <1>8 DEF CopiesInv
    <2>2. CASE m = c
      <3>1. ~ outbox[c].sent
        BY <1>3, <2>1, <2>2 DEF SentOnce
      <3>2. ASSUME NEW u \in Threads, Marking(u, c)
            PROVE  FALSE
        <4>1. c \in list[u] /\ at[u] = "mark"
          BY <3>2, CurrentInList DEF Marking, IInv
        <4>2. QED
          BY <1>2, <1>3, <2>1, <2>2, <4>1 DEF SentOnce
      <3>3. copies[c] = 0
        BY <2>1, <2>2, <3>1, <3>2 DEF SentOnce
      <3>4. copies'[c] = 1
        BY <1>2, <1>3, <1>4, <3>3
      <3>5. QED
        BY <1>2, <1>7, <2>1, <2>2, <3>4 DEF SentOnce
    <2>3. CASE m # c
      <3>1. copies'[m] = copies[m]
        BY <1>2, <1>4, <2>1, <2>3
      <3>2. QED
        BY <1>2, <1>6, <2>1, <3>1 DEF SentOnce
    <2>4. QED
      BY <2>2, <2>3
  <1>9. \A u \in Threads : at'[u] \in {"send", "mark", "next"} => list'[u] # {}
    BY <1>2, <1>3, <1>4 DEF CopiesInv
  <1>10. QED
    BY <1>2, <1>5, <1>8, <1>9 DEF CopiesInv

(***************************************************************************)
(* Thread t is done with its current message: it is marked, or was not     *)
(* accepted, or its fate is unknown, which is a mishap.                    *)
(***************************************************************************)
LEMMA DoneKeepsCopies ==
  ASSUME IInv, CopiesInv, NEW t \in Threads, at[t] \in {"send", "mark"},
         NEW c, c = Current(t), Proceed(t, TRUE) \/ Proceed(t, FALSE),
         DOMAIN outbox' = DOMAIN outbox, Len(outbox') = Len(outbox),
         \A m \in DOMAIN outbox \ {c} : outbox'[m].sent = outbox[m].sent,
         \/ at[t] = "mark" /\ outbox'[c].sent /\ UNCHANGED <<copies, mishaps>>
         \/ at[t] = "send" /\ outbox'[c].sent = outbox[c].sent
                           /\ UNCHANGED <<copies, mishaps>>
         \/ mishaps' = mishaps \cup {c} /\ copies' = [copies EXCEPT ![c] = @ + 1]
  PROVE  CopiesInv'
  <1>1. c \in list[t] /\ c \in DOMAIN outbox
    BY CurrentInList DEF IInv
  <1>2. /\ at \in [Threads -> Phases] /\ list \in [Threads -> SUBSET DOMAIN outbox]
        /\ copies \in Seq(Nat) /\ Len(copies) = Len(outbox) /\ DOMAIN copies = DOMAIN outbox
    BY MessageIds DEF IInv, Typed, CopiesInv
  <1>3. /\ list' = [list EXCEPT ![t] = @ \ {c}]
        /\ at' = [at EXCEPT ![t] = IF list'[t] = {} THEN "idle" ELSE "next"]
    BY DEF Proceed
  <1>4. copies' \in Seq(Nat) /\ Len(copies') = Len(outbox')
    <2>1. copies' = copies \/ copies' = [copies EXCEPT ![c] = @ + 1]
      OBVIOUS
    <2>2. CASE copies' = copies
      BY <1>2, <2>2
    <2>3. CASE copies' = [copies EXCEPT ![c] = @ + 1]
      <3>1. c \in DOMAIN copies /\ copies \in Seq(Nat)
        BY <1>1, <1>2
      <3>2. copies' \in Seq(Nat) /\ Len(copies') = Len(copies)
        BY <2>3, <3>1, CountedSequence
      <3>3. QED
        BY <1>2, <3>2
    <2>4. QED
      BY <2>1, <2>2, <2>3
  <1>5. list' \in [Threads -> SUBSET DOMAIN outbox']
    BY <1>2, <1>3
  <1>6. \A u \in Threads : at'[u] \in {"send", "mark", "next"} => list'[u] # {}
    BY <1>2, <1>3 DEF CopiesInv
  <1>7. ASSUME NEW u \in Threads, NEW m \in DOMAIN outbox, m # c, Marking(u, m)
        PROVE  Marking(u, m)'
    <2>1. u # t
      BY <1>7 DEF Marking
    <2>2. at'[u] = at[u] /\ list'[u] = list[u]
      BY <1>2, <1>3, <2>1
    <2>3. QED
      BY <1>7, <2>2 DEF Marking, Current
  <1>8. ASSUME NEW m \in DOMAIN outbox', m \notin mishaps'
        PROVE  SentOnce(m)'
    <2>1. SentOnce(m) /\ m \in DOMAIN outbox
      BY <1>8 DEF CopiesInv
    <2>2. \A u \in Threads : m \in list'[u] => m \in list[u]
      BY <1>2, <1>3
    <2>3. CASE m # c
      <3>1. copies'[m] = copies[m] /\ outbox'[m].sent = outbox[m].sent
        BY <1>2, <2>1, <2>3
      <3>2. QED
        BY <1>7, <2>1, <2>2, <2>3, <3>1 DEF SentOnce
    <2>4. CASE m = c
      <3>1. \A u \in Threads : c \notin list'[u]
        BY <1>1, <1>2, <1>3, <2>1, <2>4 DEF SentOnce
      <3>2. UNCHANGED copies
        BY <1>8, <2>4
      <3>3. CASE at[t] = "mark" /\ outbox'[c].sent
        BY <2>1, <2>4, <3>1, <3>2, <3>3 DEF SentOnce
      <3>4. CASE at[t] = "send"
        <4>1. ~ outbox[c].sent
          BY <1>1, <2>1, <2>4 DEF SentOnce
        <4>2. ASSUME NEW u \in Threads, Marking(u, c)
              PROVE  FALSE
          <5>1. c \in list[u] /\ at[u] = "mark"
            BY <4>2, CurrentInList DEF Marking, IInv
          <5>2. QED
            BY <1>1, <2>1, <2>4, <3>4, <5>1 DEF SentOnce
        <4>3. copies'[c] = 0
          BY <2>1, <2>4, <3>2, <4>1, <4>2 DEF SentOnce
        <4>4. QED
          BY <2>4, <3>1, <4>3 DEF SentOnce
      <3>5. QED
        BY <1>8, <2>4, <3>3, <3>4
    <2>5. QED
      BY <2>3, <2>4
  <1>9. QED
    BY <1>4, <1>5, <1>6, <1>8 DEF CopiesInv

LEMMA MarkKeepsCopies ==
  ASSUME IInv, CopiesInv, NEW t \in Threads, mark_sent(t)
  PROVE  CopiesInv'
  <1>1. PICK c : c = Current(t)
    OBVIOUS
  <1>2. at[t] = "mark" /\ outbox' = [outbox EXCEPT ![c].sent = TRUE, ![c].error = FALSE]
    BY <1>1 DEF mark_sent, Marked
  <1>3. c \in DOMAIN outbox /\ outbox \in Seq(Messages)
    BY <1>1, <1>2, CurrentInList DEF IInv, Typed
  <1>4. outbox[c] \in Messages
    BY <1>3, MessagesOf
  <1>5. outbox'[c].sent
    BY <1>2, <1>3, <1>4 DEF Messages
  <1>6. \A m \in DOMAIN outbox \ {c} : outbox'[m] = outbox[m]
    BY <1>2
  <1>7. DOMAIN outbox' = DOMAIN outbox /\ Len(outbox') = Len(outbox)
    BY <1>2, <1>3
  <1>8. QED
    BY <1>1, <1>2, <1>5, <1>6, <1>7, DoneKeepsCopies DEF mark_sent

LEMMA FailureKeepsCopies ==
  ASSUME IInv, CopiesInv, NEW t \in Threads, delivery_fails(t)
  PROVE  CopiesInv'
  <1>1. PICK c : c = Current(t)
    OBVIOUS
  <1>2. at[t] = "send" /\ outbox' = [outbox EXCEPT ![c].error = TRUE]
    BY <1>1 DEF delivery_fails
  <1>3. c \in DOMAIN outbox /\ outbox \in Seq(Messages)
    BY <1>1, <1>2, CurrentInList DEF IInv, Typed
  <1>4. outbox[c] \in Messages
    BY <1>3, MessagesOf
  <1>5. outbox'[c].sent = outbox[c].sent
    BY <1>2, <1>3, <1>4 DEF Messages
  <1>6. \A m \in DOMAIN outbox \ {c} : outbox'[m] = outbox[m]
    BY <1>2
  <1>7. DOMAIN outbox' = DOMAIN outbox /\ Len(outbox') = Len(outbox)
    BY <1>2, <1>3
  <1>8. QED
    BY <1>1, <1>2, <1>5, <1>6, <1>7, DoneKeepsCopies DEF delivery_fails

LEMMA CrashKeepsCopies ==
  ASSUME IInv, CopiesInv, crash
  PROVE  CopiesInv'
  <1>1. /\ at' = [t \in Threads |-> "idle"] /\ list' = [t \in Threads |-> {}]
        /\ mishaps' = mishaps \cup {Current(t) : t \in {u \in Threads : at[u] = "mark"}}
        /\ UNCHANGED <<outbox, copies>>
    BY DEF crash
  <1>2. ASSUME NEW m \in DOMAIN outbox', m \notin mishaps'
        PROVE  SentOnce(m)'
    <2>1. SentOnce(m) /\ \A t \in Threads : ~ Marking(t, m)
      BY <1>1, <1>2 DEF CopiesInv, Marking
    <2>2. QED
      BY <1>1, <2>1 DEF SentOnce
  <1>3. QED
    BY <1>1, <1>2 DEF CopiesInv

LEMMA ContinueKeepsCopies ==
  ASSUME IInv, CopiesInv, NEW t \in Threads, Continue(t) \/ AdminSend(t)
  PROVE  CopiesInv'
  <1>0. at \in [Threads -> Phases]
    BY DEF IInv, Typed
  <1>1. CASE send_pending_automatic_messages(t)
    <2>1. PICK ids : ids = IF smtp THEN {m \in DOMAIN outbox : Automatic(m)} ELSE {}
      OBVIOUS
    <2>2. ids \in SUBSET DOMAIN outbox /\ \A m \in ids : ~ outbox[m].sent
      BY <2>1 DEF Automatic
    <2>3. at[t] = "load" /\ Begin(t, ids) /\ UNCHANGED <<outbox, copies>>
      BY <1>1, <2>1 DEF send_pending_automatic_messages
    <2>4. QED
      BY <2>2, <2>3, BeginKeepsCopies
  <1>2. CASE AdminSend(t)
    <2>1. PICK m \in DOMAIN outbox : send_outbox_message_admin(t, m)
      BY <1>2 DEF AdminSend
    <2>2. PICK ids : ids = {m}
      OBVIOUS
    <2>3. ids \in SUBSET DOMAIN outbox /\ \A n \in ids : ~ outbox[n].sent
      BY <2>1, <2>2 DEF send_outbox_message_admin
    <2>4. at[t] = "idle" /\ Begin(t, ids) /\ UNCHANGED <<outbox, copies>>
      BY <2>1, <2>2 DEF send_outbox_message_admin
    <2>5. QED
      BY <2>3, <2>4, BeginKeepsCopies
  <1>3. CASE configured(t)
    BY <1>0, <1>3, ElsewhereKeepsCopies DEF configured, CopiesInv
  <1>4. CASE delivery_disabled(t)
    <2>1. /\ at[t] = "next" /\ at' = [at EXCEPT ![t] = "idle"]
          /\ list' = [list EXCEPT ![t] = {}]
          /\ UNCHANGED <<outbox, copies, mishaps>>
      BY <1>4 DEF delivery_disabled
    <2>2. list \in [Threads -> SUBSET DOMAIN outbox]
      BY DEF CopiesInv
    <2>3. \A u \in Threads, m \in DOMAIN outbox : Marking(u, m) => Marking(u, m)'
      BY <1>0, <2>1, <2>2 DEF Marking, Current
    <2>4. ASSUME NEW m \in DOMAIN outbox', m \notin mishaps'
          PROVE  SentOnce(m)'
      <3>1. SentOnce(m) /\ m \in DOMAIN outbox
        BY <2>1, <2>4 DEF CopiesInv
      <3>2. QED
        BY <2>1, <2>2, <2>3, <3>1 DEF SentOnce
    <2>5. QED
      BY <1>0, <2>1, <2>2, <2>4 DEF CopiesInv
  <1>5. QED
    BY <1>1, <1>2, <1>3, <1>4, CommitKeepsCopies, SendKeepsCopies, MarkKeepsCopies,
       FailureKeepsCopies DEF Continue

LEMMA CopiesInvariant == Spec => [](IInv /\ CopiesInv)
  <1>1. Init => CopiesInv
    <2> SUFFICES ASSUME Init PROVE CopiesInv
      OBVIOUS
    <2>1. copies = <<>> /\ outbox = <<>> /\ list = [t \in Threads |-> {}]
      BY DEF Init
    <2>2. \A t \in Threads : at[t] = "idle"
      BY DEF Init
    <2>3. QED
      BY <2>1, <2>2 DEF CopiesInv
  <1>2. ASSUME IInv, CopiesInv, [Next]_mailVars
        PROVE  CopiesInv'
    <2>1. ASSUME NEW t \in Threads, HandlerStep(t)
          PROVE  CopiesInv'
      BY <1>2, <2>1, HandlerKeepsCopies
    <2>2. ASSUME NEW t \in Threads, Continue(t) \/ AdminSend(t)
          PROVE  CopiesInv'
      BY <1>2, <2>2, ContinueKeepsCopies
    <2>3. CASE Configure
      <3>1. UNCHANGED <<list, copies, outbox, mishaps, at>>
        BY <2>3 DEF Configure, mail_template_update, smtp_configuration_submit
      <3>2. QED
        BY <1>2, <3>1, ElsewhereKeepsCopies DEF CopiesInv
    <2>4. CASE crash
      BY <1>2, <2>4, CrashKeepsCopies
    <2>5. CASE UNCHANGED mailVars
      <3>1. UNCHANGED <<list, copies, outbox, mishaps, at>>
        BY <2>5 DEF mailVars
      <3>2. QED
        BY <1>2, <3>1, ElsewhereKeepsCopies DEF CopiesInv
    <2>6. QED
      BY <1>2, <2>1, <2>2, <2>3, <2>4, <2>5 DEF Next
  <1>3. QED
    BY <1>1, <1>2, InvariantHolds, PTL DEF Spec

(***************************************************************************)
(* However many threads send, and whatever becomes of the process and of   *)
(* the connection, a message arrives twice only if two of them had it in   *)
(* hand at once or the end of its sending was cut off.                     *)
(***************************************************************************)
THEOREM CopiesNeedMishaps == Spec => []RepeatedOnlyAfterMishap
  <1>1. IInv /\ CopiesInv => RepeatedOnlyAfterMishap
    <2> SUFFICES ASSUME CopiesInv, NEW m \in DOMAIN outbox, copies[m] > 1, m \notin mishaps
                 PROVE  FALSE
      BY DEF RepeatedOnlyAfterMishap
    <2>1. QED
      BY DEF CopiesInv, SentOnce
  <1>2. QED
    BY <1>1, CopiesInvariant, PTL

-----------------------------------------------------------------------------
(***************************************************************************)
(* Automatic messages are not forgotten. Threads outside the sending loop  *)
(* have empty lists, and a session with a message to insert belongs to a   *)
(* request that will send.                                                 *)
(***************************************************************************)
Announces(r) == r.mails # <<>> => r.sends

DeliveryInv ==
  /\ \A t \in Threads : at[t] \in {"idle", "commit", "load"} => list[t] = {}
  /\ \A t \in Pending : Announces(request[t])

LEMMA HandlerAnnounces ==
  ASSUME NEW t \in Threads, HandlerStep(t)
  PROVE  /\ at[t] = "idle" /\ at' = [at EXCEPT ![t] = "commit"]
         /\ UNCHANGED <<list, outbox>>
         /\ \E r : request' = [request EXCEPT ![t] = r] /\ Announces(r)
  <1>1. ASSUME NEW wanted, NEW mails, NEW superseded, NEW opened, NEW sends,
               Handled(t, wanted, mails, superseded, opened, sends),
               mails = <<>> \/ sends
        PROVE  /\ at[t] = "idle" /\ at' = [at EXCEPT ![t] = "commit"]
               /\ UNCHANGED <<list, outbox>>
               /\ \E r : request' = [request EXCEPT ![t] = r] /\ Announces(r)
    <2> DEFINE r == [seen |-> row, wanted |-> wanted, mails |-> mails,
                     superseded |-> superseded, opened |-> opened, sends |-> sends]
    <2>1. Announces(r)
      BY <1>1 DEF Announces
    <2>2. /\ at[t] = "idle" /\ at' = [at EXCEPT ![t] = "commit"]
          /\ UNCHANGED <<list, outbox>>
          /\ request' = [request EXCEPT ![t] = r]
      BY <1>1 DEF Handled
    <2> HIDE DEF r
    <2>3. QED
      BY <2>1, <2>2
  <1>2. CASE \E a \in Addresses : create_registration(t, a)
    BY <1>1, <1>2 DEF create_registration
  <1>3. CASE \E a \in Addresses : create_volunteer_admin(t, a)
    BY <1>1, <1>3 DEF create_volunteer_admin
  <1>4. CASE \E a \in Addresses : update_registration(t, a)
    BY <1>1, <1>4 DEF update_registration
  <1>5. CASE \E m \in DOMAIN outbox : verify_email_token(t, m)
    BY <1>1, <1>5 DEF verify_email_token
  <1>6. CASE reject_volunteer(t)
    BY <1>1, <1>6 DEF reject_volunteer
  <1>7. CASE anonymize_volunteer(t)
    BY <1>1, <1>7 DEF anonymize_volunteer
  <1>8. CASE \E kind \in {"registration_cancellation", "waitlist_promoted"} : notify(t, kind)
    BY <1>1, <1>8 DEF notify
  <1>9. QED
    BY <1>2, <1>3, <1>4, <1>5, <1>6, <1>7, <1>8 DEF HandlerStep

(***************************************************************************)
(* A step of thread t that begins no session and leaves the others alone.  *)
(***************************************************************************)
LEMMA DeliveryElsewhere ==
  ASSUME Typed, CopiesInv, DeliveryInv, NEW t \in Threads,
         \A u \in Threads \ {t} : at'[u] = at[u] /\ list'[u] = list[u]
                                                 /\ request'[u] = request[u],
         at'[t] \in {"idle", "commit", "load"} => list'[t] = {}, at'[t] # "commit"
  PROVE  DeliveryInv'
  <1>1. \A u \in Threads : at'[u] \in {"idle", "commit", "load"} => list'[u] = {}
    BY DEF DeliveryInv
  <1>2. ASSUME NEW u \in Pending'
        PROVE  Announces(request'[u])
    <2>1. u \in Threads \ {t} /\ at[u] = "commit"
      BY <1>2 DEF Pending
    <2>2. QED
      BY <2>1 DEF DeliveryInv, Pending
  <1>3. QED
    BY <1>1, <1>2 DEF DeliveryInv

LEMMA StepKeepsDelivery ==
  ASSUME IInv, CopiesInv, DeliveryInv, [Next]_mailVars
  PROVE  DeliveryInv'
  <1>1. /\ at \in [Threads -> Phases] /\ list \in [Threads -> SUBSET DOMAIN outbox]
        /\ request \in [Threads -> SessionStates] /\ Typed
    BY DEF IInv, Typed, CopiesInv
  <1>2. ASSUME NEW t \in Threads, HandlerStep(t)
        PROVE  DeliveryInv'
    <2>1. PICK r : request' = [request EXCEPT ![t] = r] /\ Announces(r)
      BY <1>2, HandlerAnnounces
    <2>2. at[t] = "idle" /\ at' = [at EXCEPT ![t] = "commit"] /\ UNCHANGED list
      BY <1>2, HandlerAnnounces
    <2>3. \A u \in Pending' : Announces(request'[u])
      BY <1>1, <2>1, <2>2 DEF DeliveryInv, Pending
    <2>4. \A u \in Threads : at'[u] \in {"idle", "commit", "load"} => list'[u] = {}
      BY <1>1, <2>2 DEF DeliveryInv
    <2>5. QED
      BY <2>3, <2>4 DEF DeliveryInv
  <1>3. ASSUME NEW t \in Threads, Commit(t)
        PROVE  DeliveryInv'
    BY <1>1, <1>3, DeliveryElsewhere DEF Commit, DeliveryInv
  <1>4. ASSUME NEW t \in Threads, NEW ids, Begin(t, ids), UNCHANGED request
        PROVE  DeliveryInv'
    BY <1>1, <1>4, DeliveryElsewhere DEF Begin
  <1>5. ASSUME NEW t \in Threads, configured(t) \/ send_message(t)
        PROVE  DeliveryInv'
    BY <1>1, <1>5, DeliveryElsewhere DEF configured, send_message
  <1>6. ASSUME NEW t \in Threads, delivery_disabled(t)
        PROVE  DeliveryInv'
    BY <1>1, <1>6, DeliveryElsewhere DEF delivery_disabled
  <1>7. ASSUME NEW t \in Threads, NEW sent, Proceed(t, sent), UNCHANGED request
        PROVE  DeliveryInv'
    BY <1>1, <1>7, DeliveryElsewhere DEF Proceed
  <1>8. CASE Configure
    BY <1>8 DEF Configure, mail_template_update, smtp_configuration_submit, DeliveryInv,
                Pending
  <1>9. CASE crash
    BY <1>9 DEF crash, DeliveryInv, Pending
  <1>10. CASE UNCHANGED mailVars
    BY <1>10 DEF mailVars, DeliveryInv, Pending
  <1>11. QED
    BY <1>2, <1>3, <1>4, <1>5, <1>6, <1>7, <1>8, <1>9, <1>10
       DEF Next, Continue, AdminSend, send_pending_automatic_messages,
           send_outbox_message_admin, mark_sent, delivery_fails

LEMMA DeliveryInvariant == Spec => [](IInv /\ CopiesInv /\ DeliveryInv)
  <1>1. Init => DeliveryInv
    BY DEF Init, DeliveryInv, Pending
  <1>2. IInv /\ CopiesInv /\ DeliveryInv /\ [Next]_mailVars => DeliveryInv'
    BY StepKeepsDelivery
  <1>3. QED
    BY <1>1, <1>2, CopiesInvariant, PTL DEF Spec

(***************************************************************************)
(* Whoever cares for m still does after a step of t that does not finish   *)
(* with m.                                                                 *)
(***************************************************************************)
LEMMA CareElsewhere ==
  ASSUME DeliveryInv, NEW t \in Threads, NEW m, CaredFor(m),
         \A u \in Threads \ {t} : at'[u] = at[u] /\ list'[u] = list[u],
         at[t] # "load", m \in list[t] => m \in list'[t]
  PROVE  CaredFor(m)'
  BY DEF CaredFor

LEMMA CommitCares ==
  ASSUME IInv, CopiesInv, DeliveryInv, NEW t \in Threads, Commit(t),
         NEW m \in DOMAIN outbox', m \in DOMAIN outbox => CaredFor(m)
  PROVE  CaredFor(m)'
  <1>1. /\ at[t] = "commit" /\ at' = [at EXCEPT ![t] = IF request[t].sends THEN "load" ELSE "idle"]
        /\ UNCHANGED list
        /\ outbox' = Superseded(outbox, request[t].superseded) \o request[t].mails
    BY DEF Commit
  <1>2. at \in [Threads -> Phases]
    BY DEF IInv, Typed
  <1>3. CASE m \in DOMAIN outbox
    BY <1>1, <1>2, <1>3, CareElsewhere
  <1>4. CASE m \notin DOMAIN outbox
    <2>1. request[t].superseded \in SUBSET Nat /\ request[t].mails \in Seq(Messages)
      BY DEF IInv, Typed, SessionStates
    <2>2. /\ Superseded(outbox, request[t].superseded) \in Seq(Messages)
          /\ Len(Superseded(outbox, request[t].superseded)) = Len(outbox)
          /\ outbox \in Seq(Messages)
      BY <2>1, SupersededKeepsLinks DEF IInv, Typed
    <2>3. request[t].mails # <<>>
      <3>1. PICK old \in Seq(Messages), mails \in Seq(Messages) :
              /\ mails = request[t].mails /\ Len(old) = Len(outbox)
              /\ outbox' = old \o mails
        BY <1>1, <2>1, <2>2
      <3>2. outbox' \in Seq(Messages) /\ Len(outbox') = Len(outbox) + Len(mails)
        <4>1. old \in Seq(Messages) /\ mails \in Seq(Messages)
          BY <3>1
        <4>2. old \o mails \in Seq(Messages) /\ Len(old \o mails) = Len(old) + Len(mails)
          BY <4>1, Concatenated
        <4>3. QED
          BY <3>1, <4>2
      <3>3. m \in 1..Len(outbox') /\ m \notin 1..Len(outbox) /\ Len(outbox) \in Nat
        BY <1>4, <2>2, <3>2
      <3>4. Len(mails) # 0
        BY <3>2, <3>3
      <3>5. QED
        BY <3>1, <3>4
    <2>4. request[t].sends
      BY <1>1, <2>3 DEF DeliveryInv, Pending, Announces
    <2>5. QED
      BY <1>1, <1>2, <2>4 DEF CaredFor
  <1>5. QED
    BY <1>3, <1>4

\* A thread done with its current message, which is marked or has left an error.
LEMMA DoneCares ==
  ASSUME IInv, CopiesInv, DeliveryInv, NEW t \in Threads, at[t] \in {"send", "mark"},
         NEW c, c = Current(t), Proceed(t, TRUE) \/ Proceed(t, FALSE),
         DOMAIN outbox' = DOMAIN outbox, outbox'[c].sent \/ outbox'[c].error,
         NEW m \in DOMAIN outbox', m \in DOMAIN outbox => CaredFor(m), Untried(m)'
  PROVE  CaredFor(m)'
  <1>1. m # c /\ CaredFor(m)
    BY DEF Untried, Tried
  <1>2. /\ list' = [list EXCEPT ![t] = @ \ {c}]
        /\ at' = [at EXCEPT ![t] = IF list'[t] = {} THEN "idle" ELSE "next"]
    BY DEF Proceed
  <1>3. at \in [Threads -> Phases] /\ list \in [Threads -> SUBSET DOMAIN outbox]
    BY DEF IInv, Typed, CopiesInv
  <1>4. QED
    BY <1>1, <1>2, <1>3, CareElsewhere

LEMMA StepCares ==
  ASSUME IInv, CopiesInv, DeliveryInv, Next, smtp, ~ crash,
         NEW m \in DOMAIN outbox', m \in DOMAIN outbox => CaredFor(m), Untried(m)'
  PROVE  CaredFor(m)'
  <1>1. /\ at \in [Threads -> Phases] /\ list \in [Threads -> SUBSET DOMAIN outbox]
        /\ outbox \in Seq(Messages)
    BY DEF IInv, Typed, CopiesInv
  <1>2. ASSUME NEW t \in Threads, HandlerStep(t)
        PROVE  CaredFor(m)'
    <2>1. at[t] = "idle" /\ at' = [at EXCEPT ![t] = "commit"] /\ UNCHANGED <<list, outbox>>
      BY <1>2, HandlerAnnounces
    <2>2. QED
      BY <1>1, <2>1, CareElsewhere
  <1>3. ASSUME NEW t \in Threads, send_pending_automatic_messages(t)
        PROVE  CaredFor(m)'
    <2>1. list'[t] = {n \in DOMAIN outbox : Automatic(n)} /\ UNCHANGED outbox
      BY <1>1, <1>3 DEF send_pending_automatic_messages, Begin
    <2>2. m \in list'[t]
      BY <2>1 DEF Automatic, Untried, Tried
    <2>3. QED
      BY <2>2 DEF CaredFor
  <1>4. ASSUME NEW t \in Threads, AdminSend(t)
        PROVE  CaredFor(m)'
    <2>1. PICK ids : /\ list' = [list EXCEPT ![t] = ids] /\ at[t] = "idle"
                     /\ at' = [at EXCEPT ![t] = IF ids = {} THEN "idle" ELSE "send"]
                     /\ UNCHANGED outbox
      BY <1>4 DEF AdminSend, send_outbox_message_admin, Begin
    <2>2. list[t] = {}
      BY <2>1 DEF DeliveryInv
    <2>3. QED
      BY <1>1, <2>1, <2>2, CareElsewhere
  <1>5. ASSUME NEW t \in Threads, configured(t) \/ send_message(t)
        PROVE  CaredFor(m)'
    <2>1. /\ at[t] # "load" /\ UNCHANGED <<list, outbox>>
          /\ \A u \in Threads \ {t} : at'[u] = at[u]
      BY <1>1, <1>5 DEF configured, send_message
    <2>2. QED
      BY <2>1, CareElsewhere
  <1>6. ASSUME NEW t \in Threads, mark_sent(t)
        PROVE  CaredFor(m)'
    <2>1. PICK c : c = Current(t)
      OBVIOUS
    <2>2. at[t] = "mark" /\ outbox' = [outbox EXCEPT ![c].sent = TRUE, ![c].error = FALSE]
      BY <1>6, <2>1 DEF mark_sent, Marked
    <2>3. c \in DOMAIN outbox
      BY <2>1, <2>2, CurrentInList DEF IInv
    <2>4. outbox[c] \in Messages
      BY <1>1, <2>3, MessagesOf
    <2>5. outbox'[c].sent /\ DOMAIN outbox' = DOMAIN outbox
      BY <1>1, <2>2, <2>3, <2>4 DEF Messages
    <2>6. QED
      BY <1>6, <2>1, <2>2, <2>5, DoneCares DEF mark_sent
  <1>7. ASSUME NEW t \in Threads, delivery_fails(t)
        PROVE  CaredFor(m)'
    <2>1. PICK c : c = Current(t)
      OBVIOUS
    <2>2. at[t] = "send" /\ outbox' = [outbox EXCEPT ![c].error = TRUE]
      BY <1>7, <2>1 DEF delivery_fails
    <2>3. c \in DOMAIN outbox
      BY <2>1, <2>2, CurrentInList DEF IInv
    <2>4. outbox[c] \in Messages
      BY <1>1, <2>3, MessagesOf
    <2>5. outbox'[c].error /\ DOMAIN outbox' = DOMAIN outbox
      BY <1>1, <2>2, <2>3, <2>4 DEF Messages
    <2>6. QED
      BY <1>7, <2>1, <2>2, <2>5, DoneCares DEF delivery_fails
  <1>8. CASE Configure
    <2>1. UNCHANGED <<list, outbox, at>>
      BY <1>8 DEF Configure, mail_template_update, smtp_configuration_submit
    <2>2. QED
      BY <2>1 DEF CaredFor
  <1>9. ASSUME NEW t \in Threads
        PROVE  ~ delivery_disabled(t)
    BY DEF delivery_disabled
  <1>10. QED
    BY <1>2, <1>3, <1>4, <1>5, <1>6, <1>7, <1>8, <1>9, CommitCares DEF Next, Continue

(***************************************************************************)
(* However many threads queue, load and send, and whatever is refused, an  *)
(* automatic message stays with one of them until it is tried: what        *)
(* remains for liveness is only that threads go on.                        *)
(***************************************************************************)
THEOREM MailIsNotForgotten == Spec => AutomaticMailIsKept
  <1>1. IInv /\ CopiesInv /\ DeliveryInv /\ [Next]_mailVars =>
          [\A m \in DOMAIN outbox' :
             Untried(m)' /\ (m \in DOMAIN outbox => CaredFor(m)) =>
               CaredFor(m)' \/ ~ smtp \/ crash]_mailVars
    BY StepCares
  <1>2. QED
    BY <1>1, DeliveryInvariant, PTL DEF Spec, AutomaticMailIsKept
===============================================================================
