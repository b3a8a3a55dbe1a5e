----------------------------- MODULE OidcSessions -----------------------------
(***************************************************************************)
(* Sign-in with OpenID Connect (app/auth/oidc.py): two tables in memory,   *)
(* the pending login transactions and the sessions, both bounded, expiring *)
(* and guarded by one lock, and the browsers' signed cookie, which holds   *)
(* the id of an entry in one of them.                                      *)
(*                                                                         *)
(* A browser may have several requests on the way; each carries the cookie *)
(* as it was when it was sent, and each answer sets the cookie anew,       *)
(* whatever was answered meanwhile. complete_login pops the transaction,   *)
(* awaits the identity provider and then inserts the session. begin_login  *)
(* touches nothing shared before its await, so it is one action.           *)
(*                                                                         *)
(* Left out: claims other than the user's identity, the other AUTH_MODEs,  *)
(* the cookie's own max_age, which every answer renews.                    *)
(***************************************************************************)
EXTENDS Naturals, Sequences, FiniteSets

CONSTANTS
  Browsers,
  Users,
  NoOne,
  Requests,          \* requests that may be on the way at once
  SessionTTL,        \* _SESSION_TTL_SECONDS
  TransactionTTL,    \* _TRANSACTION_TTL_SECONDS
  MaxSessions,       \* _MAX_SESSIONS
  MaxTransactions    \* _MAX_TRANSACTIONS

ASSUME OidcAssumption ==
  /\ NoOne \notin Users
  /\ SessionTTL \in Nat \ {0} /\ TransactionTTL \in Nat \ {0}
  /\ MaxSessions \in Nat \ {0} /\ MaxTransactions \in Nat \ {0}

VARIABLES
  now,           \* time.monotonic()
  transactions,  \* _transactions: login -> when it expires
  sessions,      \* _sessions: session -> when it expires and whose it is
  cookie,        \* browser -> what its session cookie holds
  request,       \* request on the way -> how far it is
  begun,         \* the browsers that began the logins so far, by login
  redirected,    \* logins whose browser was sent to the identity provider
  answers,       \* who authenticated for which login
  established,   \* the sessions established so far
  ended          \* sessions a logout has removed

tables == <<transactions, sessions>>
history == <<begun, redirected, answers, established, ended>>
oidcVars == <<now, tables, cookie, request, history>>

NoEntries == [i \in {} |-> i]

NoCookie == [holds |-> "nothing", id |-> 0]
TransactionCookie(n) == [holds |-> "transaction", id |-> n]
SessionCookie(k) == [holds |-> "session", id |-> k]

Logins == DOMAIN begun
Answer == [login : Logins, user : Users]
NoAnswer == [login |-> 0, user |-> NoOne]

Cookie ==
  [holds : {"nothing"}, id : {0}] \cup [holds : {"transaction"}, id : Logins]
    \cup [holds : {"session"}, id : DOMAIN established]

RequestRow ==
  [by : Browsers, op : {"login", "callback", "page", "logout"},
   sent : Cookie,                                 \* the cookie it carries
   answer : Answer \cup {NoAnswer},               \* state and code of a callback
   step : {"sent", "exchanging", "answered"},
   login : Logins \cup {0},                       \* the transaction it works on
   reply : Cookie]                                \* request.session at the end

TypeOK ==
  /\ now \in Nat
  /\ DOMAIN transactions \subseteq Logins
  /\ transactions \in [DOMAIN transactions -> [expires : Nat]]
  /\ DOMAIN sessions \subseteq DOMAIN established
  /\ sessions \in [DOMAIN sessions -> [expires : Nat, user : Users]]
  /\ Cardinality(DOMAIN transactions) <= MaxTransactions
  /\ Cardinality(DOMAIN sessions) <= MaxSessions
  /\ cookie \in [Browsers -> Cookie]
  /\ DOMAIN request \subseteq Requests
  /\ request \in [DOMAIN request -> RequestRow]
  /\ begun \in Seq(Browsers)
  /\ redirected \subseteq Logins
  /\ answers \subseteq Answer
  /\ established \in Seq([login : Logins, user : Users, by : Browsers, at : Nat])
  /\ ended \subseteq DOMAIN established

Init ==
  /\ now = 0
  /\ transactions = NoEntries
  /\ sessions = NoEntries
  /\ cookie = [b \in Browsers |-> NoCookie]
  /\ request = NoEntries
  /\ begun = <<>>
  /\ redirected = {}
  /\ answers = {}
  /\ established = <<>>
  /\ ended = {}

-----------------------------------------------------------------------------
(***************************************************************************)
(* The tables. Both are functions on the ids in use; entries are inserted  *)
(* in the order of their ids and of their expiry.                          *)
(***************************************************************************)
Without(table, ids) == [i \in DOMAIN table \ ids |-> table[i]]
With(table, i, entry) ==
  [j \in DOMAIN table \cup {i} |-> IF j = i THEN entry ELSE table[j]]

\* _purge_expired_sessions
Live(table) == Without(table, {i \in DOMAIN table : table[i].expires <= now})

\* Faulty variant: the entry that would last longest goes.
Oldest_latest(table) ==
  CHOOSE i \in DOMAIN table : \A j \in DOMAIN table : j <= i

\* The first entry, in insertion order, among those that expire first.
Oldest(table) ==
  CHOOSE i \in DOMAIN table :
    \A j \in DOMAIN table :
      \/ table[i].expires < table[j].expires
      \/ table[i].expires = table[j].expires /\ i <= j

\* Faulty variant: the table is full one entry too late.
Evicted_too_late(table, limit) ==
  IF Cardinality(DOMAIN table) > limit THEN Without(table, {Oldest(table)}) ELSE table

Evicted(table, limit) ==
  IF Cardinality(DOMAIN table) >= limit THEN Without(table, {Oldest(table)}) ELSE table

-----------------------------------------------------------------------------
Busy == DOMAIN request

Send(r, b, op, answer) ==
  /\ r \notin Busy
  /\ request' = With(request, r,
       [by |-> b, op |-> op, sent |-> cookie[b], answer |-> answer, step |-> "sent",
        login |-> 0, reply |-> NoCookie])
  /\ UNCHANGED <<now, tables, cookie, history>>

\* Conjoined with what the handler did before it returned or raised; login is
\* the one the answer sends the browser to, if any.
Answered(r, login, reply) ==
  request' = [request EXCEPT ![r].step = "answered", ![r].answer = NoAnswer,
                             ![r].login = login, ![r].reply = reply]

Handles(r, op, step) ==
  /\ r \in Busy
  /\ request[r].op = op
  /\ request[r].step = step

begin_login(r) ==
  LET n == Len(begun) + 1
  IN /\ Handles(r, "login", "sent")
     /\ transactions' = With(Evicted(Live(transactions), MaxTransactions), n,
                             [expires |-> now + TransactionTTL])
     /\ sessions' = Live(sessions)
     /\ begun' = Append(begun, request[r].by)
     /\ Answered(r, n, TransactionCookie(n))
     /\ UNCHANGED <<now, cookie, redirected, answers, established, ended>>

\* The provider's metadata cannot be loaded: 503.
login_unavailable(r) ==
  /\ Handles(r, "login", "sent")
  /\ Answered(r, 0, NoCookie)
  /\ UNCHANGED <<now, tables, cookie, history>>

\* Faulty variant: the transaction stays in the table during the exchange.
pop_transaction_reads(r) ==
  LET n == request[r].sent.id
  IN /\ Handles(r, "callback", "sent")
     /\ IF request[r].sent.holds = "transaction" /\ n \in DOMAIN Live(transactions)
          THEN request' = [request EXCEPT ![r].step = "exchanging", ![r].login = n]
          ELSE Answered(r, 0, NoCookie)
     /\ UNCHANGED <<now, tables, cookie, history>>

(***************************************************************************)
(* complete_login up to its await: the transaction is taken out of the     *)
(* table, once and for all.                                                *)
(***************************************************************************)
pop_transaction(r) ==
  LET n == request[r].sent.id
  IN /\ Handles(r, "callback", "sent")
     /\ \/ /\ request[r].sent.holds = "transaction"
           /\ sessions' = Live(sessions)
           /\ transactions' = Without(Live(transactions), {n})
           /\ \/ /\ n \in DOMAIN Live(transactions)
                 /\ request' = [request EXCEPT ![r].step = "exchanging", ![r].login = n]
              \/ /\ n \notin DOMAIN Live(transactions)
                 /\ Answered(r, 0, NoCookie)
        \/ /\ request[r].sent.holds # "transaction"
           /\ Answered(r, 0, NoCookie)
           /\ UNCHANGED tables
     /\ UNCHANGED <<now, cookie, history>>

(***************************************************************************)
(* After the await. The state in the callback's address must be the one    *)
(* saved with the transaction, and the token's nonce with it.              *)
(***************************************************************************)
\* Faulty variant: any answer completes any transaction.
StateMatches_any(r) == TRUE

StateMatches(r) == request[r].answer.login = request[r].login

\* Faulty variant: sessions are numbered by the size of the table.
NewSessionId_by_size == Cardinality(DOMAIN sessions) + 1

NewSessionId == Len(established) + 1   \* secrets.token_urlsafe(32)

complete_login(r) ==
  /\ Handles(r, "callback", "exchanging")
  /\ StateMatches(r)
  /\ transactions' = Live(transactions)
  /\ sessions' = With(Evicted(Live(sessions), MaxSessions), NewSessionId,
                      [expires |-> now + SessionTTL, user |-> request[r].answer.user])
  /\ established' = Append(established,
       [login |-> request[r].login, user |-> request[r].answer.user,
        by |-> request[r].by, at |-> now])
  /\ Answered(r, 0, SessionCookie(NewSessionId))
  /\ UNCHANGED <<now, cookie, begun, redirected, answers, ended>>

\* The code is refused, the answer is lost, or a claim is missing: 401.
exchange_fails(r) ==
  /\ Handles(r, "callback", "exchanging")
  /\ Answered(r, 0, NoCookie)
  /\ UNCHANGED <<now, tables, cookie, history>>

\* Faulty variant: an expired session is served until something else purges it.
get_oidc_user_unpurged(r) ==
  /\ Handles(r, "page", "sent")
  /\ UNCHANGED tables
  /\ Answered(r, 0, request[r].sent)
  /\ UNCHANGED <<now, cookie, history>>

(***************************************************************************)
(* Any page: the middleware sends back the cookie the request came with.   *)
(***************************************************************************)
get_oidc_user(r) ==
  /\ Handles(r, "page", "sent")
  /\ IF request[r].sent.holds = "session"
       THEN transactions' = Live(transactions) /\ sessions' = Live(sessions)
       ELSE UNCHANGED tables
  /\ Answered(r, 0, request[r].sent)
  /\ UNCHANGED <<now, cookie, history>>

\* Faulty variant: logging out drops the cookie only.
clear_login_cookie_only(r) ==
  /\ Handles(r, "logout", "sent")
  /\ ended' = ended \cup
       (IF request[r].sent.holds = "session" THEN {request[r].sent.id} ELSE {})
  /\ Answered(r, 0, NoCookie)
  /\ UNCHANGED <<now, tables, cookie, begun, redirected, answers, established>>

clear_login(r) ==
  LET sent == request[r].sent
  IN /\ Handles(r, "logout", "sent")
     /\ sessions' = Without(sessions, IF sent.holds = "session" THEN {sent.id} ELSE {})
     /\ transactions' =
          Without(transactions, IF sent.holds = "transaction" THEN {sent.id} ELSE {})
     /\ ended' = ended \cup (IF sent.holds = "session" THEN {sent.id} ELSE {})
     /\ Answered(r, 0, NoCookie)
     /\ UNCHANGED <<now, cookie, begun, redirected, answers, established>>

-----------------------------------------------------------------------------
(***************************************************************************)
(* The answer reaches the browser. SessionMiddleware sets the cookie if    *)
(* the session holds anything, and removes it if it held something when    *)
(* the request came. The answer to a login sends the browser on to the     *)
(* identity provider.                                                      *)
(***************************************************************************)
Deliver(r) ==
  /\ r \in Busy
  /\ request[r].step = "answered"
  /\ cookie' = [cookie EXCEPT ![request[r].by] =
       IF request[r].reply = NoCookie /\ request[r].sent = NoCookie THEN @
                                                               ELSE request[r].reply]
  /\ redirected' = redirected \cup
       ({request[r].login} \ {0})
  /\ request' = Without(request, {r})
  /\ UNCHANGED <<now, tables, begun, answers, established, ended>>

\* The answer is lost, or the browser has gone on to another page.
Lose(r) ==
  /\ r \in Busy
  /\ request[r].step = "answered"
  /\ request' = Without(request, {r})
  /\ UNCHANGED <<now, tables, cookie, history>>

(***************************************************************************)
(* Somebody authenticates at the provider and is sent back with an answer; *)
(* going back in the browser, again and as somebody else.                  *)
(***************************************************************************)
Authenticate(n, u) ==
  /\ n \in redirected
  /\ answers' = answers \cup {[login |-> n, user |-> u]}
  /\ UNCHANGED <<now, tables, cookie, request, begun, redirected, established, ended>>

Tick ==
  /\ now' = now + 1
  /\ UNCHANGED <<tables, cookie, request, history>>

\* The process ends and is started again: the tables live in its memory.
Restart ==
  /\ transactions' = NoEntries
  /\ sessions' = NoEntries
  /\ request' = NoEntries
  /\ UNCHANGED <<now, cookie, history>>

-----------------------------------------------------------------------------
\* The address of a callback may be opened in any browser.
Ask(r) ==
  \/ \E b \in Browsers, op \in {"login", "page", "logout"} : Send(r, b, op, NoAnswer)
  \/ \E b \in Browsers, a \in answers : Send(r, b, "callback", a)

Handle(r) ==
  \/ begin_login(r)
  \/ login_unavailable(r)
  \/ pop_transaction(r)
  \/ complete_login(r)
  \/ exchange_fails(r)
  \/ get_oidc_user(r)
  \/ clear_login(r)

Next ==
  \/ \E r \in Requests : Ask(r) \/ Handle(r) \/ Deliver(r) \/ Lose(r)
  \/ \E n \in Logins, u \in Users : Authenticate(n, u)
  \/ Tick
  \/ Restart

Spec == Init /\ [][Next]_oidcVars

-----------------------------------------------------------------------------
(***************************************************************************)
(* The identity of a session is one that was proved at the provider for    *)
(* the very login the session came from, in the browser that began it:     *)
(* two logins pending in two tabs do not mix, although the second takes    *)
(* the first one's cookie (complete_login, oidc.py:154).                   *)
(***************************************************************************)
SessionsMatchLogins ==
  /\ \A k \in DOMAIN established :
       LET e == established[k]
       IN [login |-> e.login, user |-> e.user] \in answers /\ begun[e.login] = e.by
  /\ \A k \in DOMAIN sessions :
       /\ sessions[k].user = established[k].user
       /\ sessions[k].expires = established[k].at + SessionTTL

(***************************************************************************)
(* A login transaction yields at most one session, however often and by    *)
(* however many requests its callback is repeated (oidc.py:163).           *)
(***************************************************************************)
OneSessionPerLogin ==
  \A j, k \in DOMAIN established : established[j].login = established[k].login => j = k

(***************************************************************************)
(* A session that was logged out is served to nobody afterwards, although  *)
(* an answer under way may still bring its cookie back (clear_login,       *)
(* oidc.py:212).                                                           *)
(***************************************************************************)
Served(r) ==
  /\ r \in Busy /\ r \in DOMAIN request'
  /\ request[r].op = "page" /\ request[r].step = "sent"
  /\ request'[r].step = "answered"
  /\ request[r].sent.holds = "session"
  /\ request[r].sent.id \in DOMAIN sessions'

LogoutHolds ==
  [][\A r \in Requests : Served(r) => request[r].sent.id \notin ended]_oidcVars

(***************************************************************************)
(* No page is served to a session older than its lifetime, whenever the    *)
(* purges happen to run (get_oidc_user, oidc.py:112).                      *)
(***************************************************************************)
ServedInTime ==
  [][\A r \in Requests :
       Served(r) => now < established[request[r].sent.id].at + SessionTTL]_oidcVars

(***************************************************************************)
(* Under pressure an unexpired entry makes room only in a full table and   *)
(* only for a newer one, and goes before every entry that lasts longer;    *)
(* nobody loses a pending login or a session otherwise, except by a        *)
(* callback or logout of a browser that holds it, or a restart             *)
(* (oidc.py:142, oidc.py:202).                                             *)
(***************************************************************************)
Vanishes(table, next, i) == i \in DOMAIN table \ DOMAIN next /\ now < table[i].expires

MadeRoom(table, next, limit, i) ==
  /\ Cardinality(DOMAIN next) = limit
  /\ \E j \in DOMAIN next : j \notin DOMAIN table
  /\ \A j \in DOMAIN next : table[i].expires <= next[j].expires

TakenBy(ops, held) ==
  \E r \in Busy \cap DOMAIN request' :
    /\ request[r].op \in ops /\ request[r].sent = held
    /\ request[r].step = "sent" /\ request'[r].step # "sent"

Restarted == transactions' = NoEntries /\ sessions' = NoEntries /\ request' = NoEntries

EntriesLeaveForAReason ==
  [][/\ \A n \in DOMAIN transactions :
          Vanishes(transactions, transactions', n) =>
            \/ MadeRoom(transactions, transactions', MaxTransactions, n)
            \/ TakenBy({"callback", "logout"}, TransactionCookie(n))
            \/ Restarted
     /\ \A k \in DOMAIN sessions :
          Vanishes(sessions, sessions', k) =>
            \/ MadeRoom(sessions, sessions', MaxSessions, k)
            \/ TakenBy({"logout"}, SessionCookie(k))
            \/ Restarted]_oidcVars

(***************************************************************************)
(* The tables and cookies implement SignIn: a browser is signed in as the  *)
(* user of the unexpired session its cookie names.                         *)
(***************************************************************************)
SignedIn(b) ==
  /\ cookie[b].holds = "session"
  /\ cookie[b].id \in DOMAIN sessions
  /\ now < sessions[cookie[b].id].expires

Promise == INSTANCE SignIn WITH
  who <- [b \in Browsers |-> IF SignedIn(b) THEN sessions[cookie[b].id].user ELSE NoOne],
  proved <- [b \in Browsers |-> {a.user : a \in {c \in answers : begun[c.login] = b}}]

ImplementsSignIn == Promise!Spec
===============================================================================
