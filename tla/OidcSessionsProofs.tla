-------------------------- MODULE OidcSessionsProofs --------------------------
(***************************************************************************)
(* Theorems about OidcSessions, for any number of browsers, users and      *)
(* requests, any limits and lifetimes.                                     *)
(***************************************************************************)
EXTENDS OidcSessions, FiniteSetTheorems, WellFoundedInduction, TLAPS

(***************************************************************************)
(* The inductive invariant. A cookie that names a login or a session is    *)
(* found only in the browser that began it or for which it was             *)
(* established, or on its way to or from that browser; and what a callback *)
(* works on is a transaction of its browser that nothing else can find any *)
(* more.                                                                   *)
(***************************************************************************)
Own(b, c) ==
  /\ c.holds = "session" => established[c.id].by = b
  /\ c.holds = "transaction" => begun[c.id] = b

Unused(n) == \A k \in DOMAIN established : established[k].login # n

Fine(q) ==
  /\ q \in RequestRow
  /\ q.op = "callback" /\ q.step # "answered" => q.answer \in answers
  /\ q.step = "exchanging" =>
       /\ q.op = "callback"
       /\ q.login \in Logins \ DOMAIN transactions
       /\ begun[q.login] = q.by
       /\ Unused(q.login)
  /\ Own(q.by, q.sent) /\ Own(q.by, q.reply)

Exchanging == {r \in Busy : request[r].step = "exchanging"}

RequestsFine == \A r \in Busy : Fine(request[r])

PoppedOnce ==
  \A r, s \in Exchanging : request[r].login = request[s].login => r = s

PendingUnused == \A n \in DOMAIN transactions : Unused(n)

CookiesTheirOwn == \A b \in Browsers : Own(b, cookie[b])

EndedGone == ended \cap DOMAIN sessions = {}

ExpiriesAhead ==
  /\ \A n \in DOMAIN transactions : transactions[n].expires <= now + TransactionTTL
  /\ \A k \in DOMAIN sessions : sessions[k].expires <= now + SessionTTL

Bounded(table, limit) ==
  IsFiniteSet(DOMAIN table) /\ Cardinality(DOMAIN table) <= limit

TablesTyped ==
  /\ DOMAIN transactions \subseteq Logins
  /\ transactions \in [DOMAIN transactions -> [expires : Nat]]
  /\ DOMAIN sessions \subseteq DOMAIN established
  /\ sessions \in [DOMAIN sessions -> [expires : Nat, user : Users]]

EstablishedRow == [login : Logins, user : Users, by : Browsers, at : Nat]

Typed ==
  /\ now \in Nat
  /\ TablesTyped
  /\ cookie \in [Browsers -> Cookie]
  /\ DOMAIN request \subseteq Requests
  /\ request = [r \in DOMAIN request |-> request[r]]
  /\ begun \in Seq(Browsers)
  /\ redirected \subseteq Logins
  /\ answers \subseteq Answer
  /\ established \in Seq(EstablishedRow)
  /\ ended \subseteq DOMAIN established

IInv ==
  /\ Typed
  /\ Bounded(transactions, MaxTransactions)
  /\ Bounded(sessions, MaxSessions)
  /\ SessionsMatchLogins
  /\ OneSessionPerLogin
  /\ RequestsFine
  /\ PoppedOnce
  /\ PendingUnused
  /\ CookiesTheirOwn
  /\ EndedGone
  /\ ExpiriesAhead

-----------------------------------------------------------------------------
(***************************************************************************)
(* The smallest of some natural numbers, and from it that a table with     *)
(* entries has an oldest one.                                              *)
(***************************************************************************)
LEMMA SmallestExists ==
  ASSUME NEW T, T \subseteq Nat, T # {}
  PROVE  \E m \in T : \A n \in T : m <= n
<1> DEFINE R == {p \in Nat \X Nat : p[1] < p[2]}
<1>1. IsWellFoundedOn(R, Nat)
  BY NatLessThanWellFounded DEF OpToRel
<1>2. \E m \in T : \A n \in T : ~ (<<n, m>> \in R)
  <2> HIDE DEF R
  <2> QED BY <1>1, WFMin
<1>3. \A m, n \in T : <<n, m>> \notin R => m <= n
  <2> TAKE m, n \in T
  <2>1. m \in Nat /\ n \in Nat
    OBVIOUS
  <2>2. n < m => <<n, m>> \in R
    BY <2>1
  <2> QED BY <2>1, <2>2
<1> HIDE DEF R
<1> QED BY <1>2, <1>3

LEMMA OldestExists ==
  ASSUME NEW table, DOMAIN table \subseteq Nat, DOMAIN table # {},
         \A i \in DOMAIN table : table[i].expires \in Nat
  PROVE  /\ Oldest(table) \in DOMAIN table
         /\ \A j \in DOMAIN table : table[Oldest(table)].expires <= table[j].expires
<1> DEFINE E == {table[i].expires : i \in DOMAIN table}
<1>1. PICK m \in E : \A n \in E : m <= n
  <2>1. E \subseteq Nat /\ E # {}
    OBVIOUS
  <2> HIDE DEF E
  <2> QED BY <2>1, SmallestExists
<1> DEFINE I == {i \in DOMAIN table : table[i].expires = m}
<1>2. PICK k \in I : \A i \in I : k <= i
  <2>1. I \subseteq Nat /\ I # {}
    BY <1>1
  <2> HIDE DEF I, E
  <2> QED BY <2>1, SmallestExists
<1>3. k \in DOMAIN table /\ table[k].expires = m
  BY <1>2
<1>4. \A j \in DOMAIN table :
        \/ table[k].expires < table[j].expires
        \/ table[k].expires = table[j].expires /\ k <= j
  <2> TAKE j \in DOMAIN table
  <2>1. table[j].expires \in E /\ table[j].expires \in Nat
    OBVIOUS
  <2>2. m <= table[j].expires /\ m \in Nat
    BY <1>1, <2>1, <1>3
  <2>3. CASE table[j].expires = m
    BY <1>2, <1>3, <2>3
  <2>4. CASE table[j].expires # m
    BY <1>3, <2>1, <2>2, <2>4
  <2> QED BY <2>3, <2>4
<1> DEFINE o == Oldest(table)
<1>5. /\ o \in DOMAIN table
      /\ \A j \in DOMAIN table :
           \/ table[o].expires < table[j].expires
           \/ table[o].expires = table[j].expires /\ o <= j
  BY <1>3, <1>4 DEF Oldest
<1> HIDE DEF o
<1>6. \A j \in DOMAIN table : table[o].expires <= table[j].expires
  BY <1>5
<1> QED BY <1>5, <1>6 DEF o

-----------------------------------------------------------------------------
(***************************************************************************)
(* What purging, evicting and inserting do to a table.                     *)
(***************************************************************************)
Shrunk(before, after) ==
  /\ DOMAIN after \subseteq DOMAIN before
  /\ after = [i \in DOMAIN after |-> before[i]]

LEMMA WithoutShrinks ==
  ASSUME NEW table, NEW ids
  PROVE  Shrunk(table, Without(table, ids)) /\ DOMAIN Without(table, ids) = DOMAIN table \ ids
BY DEF Shrunk, Without

LEMMA LiveShrinks ==
  ASSUME NEW table
  PROVE  /\ Shrunk(table, Live(table))
         /\ \A i \in DOMAIN Live(table) : ~ (table[i].expires <= now)
BY DEF Shrunk, Live, Without

LEMMA EvictedShrinks ==
  ASSUME NEW table, NEW limit, table = [i \in DOMAIN table |-> table[i]]
  PROVE  Shrunk(table, Evicted(table, limit))
BY DEF Shrunk, Evicted, Without

LEMMA ShrunkTwice ==
  ASSUME NEW a, NEW b, NEW c, Shrunk(a, b), Shrunk(b, c)
  PROVE  Shrunk(a, c)
BY DEF Shrunk

LEMMA ShrunkBounded ==
  ASSUME NEW a, NEW b, NEW limit \in Nat, Shrunk(a, b), Bounded(a, limit)
  PROVE  Bounded(b, limit)
<1>1. DOMAIN b \in SUBSET DOMAIN a /\ IsFiniteSet(DOMAIN a) /\ Cardinality(DOMAIN a) <= limit
  BY DEF Shrunk, Bounded
<1>2. IsFiniteSet(DOMAIN b) /\ Cardinality(DOMAIN b) <= Cardinality(DOMAIN a)
  BY <1>1, FS_Subset
<1>3. Cardinality(DOMAIN a) \in Nat /\ Cardinality(DOMAIN b) \in Nat
  BY <1>1, <1>2, FS_CardinalityType
<1> QED BY <1>1, <1>2, <1>3 DEF Bounded

LEMMA EvictedMakesRoom ==
  ASSUME NEW table, NEW limit \in Nat \ {0}, DOMAIN table \subseteq Nat,
         \A i \in DOMAIN table : table[i].expires \in Nat, Bounded(table, limit)
  PROVE  /\ IsFiniteSet(DOMAIN Evicted(table, limit))
         /\ Cardinality(DOMAIN Evicted(table, limit)) <= limit - 1
<1>1. IsFiniteSet(DOMAIN table) /\ Cardinality(DOMAIN table) <= limit
  BY DEF Bounded
<1>2. Cardinality(DOMAIN table) \in Nat
  BY <1>1, FS_CardinalityType
<1>3. CASE Cardinality(DOMAIN table) >= limit
  <2>1. DOMAIN table # {}
    BY <1>2, <1>3, FS_EmptySet
  <2>2. Oldest(table) \in DOMAIN table
    BY <2>1, OldestExists
  <2>3. DOMAIN Evicted(table, limit) = DOMAIN table \ {Oldest(table)}
    BY <1>3 DEF Evicted, Without
  <2>4. /\ IsFiniteSet(DOMAIN table \ {Oldest(table)})
        /\ Cardinality(DOMAIN table \ {Oldest(table)}) = Cardinality(DOMAIN table) - 1
    BY <1>1, <2>2, FS_RemoveElement
  <2> QED BY <1>1, <1>2, <2>3, <2>4
<1>4. CASE ~ (Cardinality(DOMAIN table) >= limit)
  <2>1. Evicted(table, limit) = table
    BY <1>4 DEF Evicted
  <2> QED BY <1>1, <1>2, <1>4, <2>1
<1> QED BY <1>3, <1>4

LEMMA WithInserts ==
  ASSUME NEW table, NEW i, NEW entry
  PROVE  /\ DOMAIN With(table, i, entry) = DOMAIN table \cup {i}
         /\ With(table, i, entry)[i] = entry
         /\ \A j \in DOMAIN table : j # i => With(table, i, entry)[j] = table[j]
         /\ With(table, i, entry) =
              [j \in DOMAIN With(table, i, entry) |-> With(table, i, entry)[j]]
BY DEF With

LEMMA InsertedBounded ==
  ASSUME NEW table, NEW limit \in Nat \ {0}, DOMAIN table \subseteq Nat,
         \A i \in DOMAIN table : table[i].expires \in Nat, Bounded(table, limit),
         NEW i, NEW entry
  PROVE  Bounded(With(Evicted(table, limit), i, entry), limit)
<1>1. /\ IsFiniteSet(DOMAIN Evicted(table, limit))
      /\ Cardinality(DOMAIN Evicted(table, limit)) <= limit - 1
  BY EvictedMakesRoom
<1>2. DOMAIN With(Evicted(table, limit), i, entry) = DOMAIN Evicted(table, limit) \cup {i}
  BY WithInserts
<1>3. /\ IsFiniteSet(DOMAIN Evicted(table, limit) \cup {i})
      /\ Cardinality(DOMAIN Evicted(table, limit) \cup {i}) =
           IF i \in DOMAIN Evicted(table, limit) THEN Cardinality(DOMAIN Evicted(table, limit))
           ELSE Cardinality(DOMAIN Evicted(table, limit)) + 1
  BY <1>1, FS_AddElement
<1>4. Cardinality(DOMAIN Evicted(table, limit)) \in Nat
  BY <1>1, FS_CardinalityType
<1> QED BY <1>1, <1>2, <1>3, <1>4 DEF Bounded

LEMMA Unshrunk ==
  ASSUME NEW table, NEW R, table \in [DOMAIN table -> R]
  PROVE  Shrunk(table, table)
BY DEF Shrunk

LEMMA PurgedAndPopped ==
  ASSUME NEW table, NEW ids
  PROVE  Shrunk(table, Without(Live(table), ids))
BY LiveShrinks, WithoutShrinks, ShrunkTwice

-----------------------------------------------------------------------------
(***************************************************************************)
(* What every step leaves of the history, and what that means for the      *)
(* types that depend on it.                                                *)
(***************************************************************************)
Grows ==
  /\ Logins \subseteq Logins'
  /\ \A n \in Logins : begun'[n] = begun[n]
  /\ DOMAIN established \subseteq DOMAIN established'
  /\ \A k \in DOMAIN established : established'[k] = established[k]
  /\ answers \subseteq answers'

LEMMA Appended ==
  ASSUME NEW S, NEW s \in Seq(S), NEW e \in S
  PROVE  /\ Append(s, e) \in Seq(S)
         /\ Len(s) \in Nat
         /\ DOMAIN s = 1..Len(s)
         /\ DOMAIN Append(s, e) = DOMAIN s \cup {Len(s) + 1}
         /\ Len(s) + 1 \notin DOMAIN s
         /\ Append(s, e)[Len(s) + 1] = e
         /\ \A i \in DOMAIN s : Append(s, e)[i] = s[i]
<1>1. Len(s) \in Nat /\ DOMAIN s = 1..Len(s)
  OBVIOUS
<1>2. Append(s, e) \in Seq(S) /\ Len(Append(s, e)) = Len(s) + 1
  OBVIOUS
<1>3. DOMAIN Append(s, e) = 1..(Len(s) + 1)
  BY <1>2
<1> QED BY <1>1, <1>2, <1>3

LEMMA GrownTypes ==
  ASSUME Grows
  PROVE  /\ Answer \subseteq Answer'
         /\ Cookie \subseteq Cookie'
         /\ RequestRow \subseteq RequestRow'
         /\ EstablishedRow \subseteq EstablishedRow'
<1>1. Answer \subseteq Answer' /\ EstablishedRow \subseteq EstablishedRow'
  BY DEF Grows, Answer, EstablishedRow
<1>2. Cookie \subseteq Cookie'
  BY DEF Grows, Cookie
<1>3. RequestRow \subseteq RequestRow'
  BY <1>1, <1>2 DEF Grows, RequestRow
<1> QED BY <1>1, <1>2, <1>3

LEMMA SameHistoryGrows == UNCHANGED history => Grows
BY DEF history, Grows, Logins

(***************************************************************************)
(* A request that a step leaves alone stays fine, unless the step puts its *)
(* transaction back or uses it up.                                         *)
(***************************************************************************)
StillUnused(n) == \A k \in DOMAIN established' : established'[k].login # n

LEMMA FineStays ==
  ASSUME IInv, Grows, NEW q, Fine(q),
         q.step = "exchanging" => q.login \notin DOMAIN transactions' /\ StillUnused(q.login)
  PROVE  Fine(q)'
<1>1. q \in RequestRow /\ q \in RequestRow'
  BY GrownTypes DEF Fine
<1>2. q.op = "callback" /\ q.step # "answered" => q.answer \in answers'
  BY DEF Fine, Grows
<1>3. q.sent \in Cookie /\ q.reply \in Cookie
  BY <1>1 DEF RequestRow
<1>4. \A c \in Cookie : /\ c.holds = "session" => c.id \in DOMAIN established
                        /\ c.holds = "transaction" => c.id \in Logins
  BY DEF Cookie
<1>5. Own(q.by, q.sent)' /\ Own(q.by, q.reply)'
  BY <1>3, <1>4 DEF Fine, Own, Grows
<1>6. q.step = "exchanging" => /\ q.op = "callback"
                               /\ q.login \in Logins' \ DOMAIN transactions'
                               /\ begun'[q.login] = q.by
                               /\ Unused(q.login)'
  BY DEF Fine, Grows, StillUnused, Unused
<1> QED BY <1>1, <1>2, <1>5, <1>6 DEF Fine

(***************************************************************************)
(* The requests after a step that changes at most the request r.           *)
(***************************************************************************)
LEMMA OthersStayFine ==
  ASSUME IInv, Grows, NEW r,
         \A s \in Busy' \ {r} : s \in Busy /\ request'[s] = request[s],
         \A s \in Exchanging \ {r} :
           request[s].login \notin DOMAIN transactions' /\ StillUnused(request[s].login),
         \A q : r \in Busy' /\ q = request'[r] => Fine(q)'
  PROVE  RequestsFine'
<1> SUFFICES ASSUME NEW s \in Busy' PROVE \A q : q = request'[s] => Fine(q)'
  BY DEF RequestsFine, Fine, Own, Unused, Busy
<1>1. CASE s = r
  BY <1>1
<1>2. CASE s # r
  <2>1. s \in Busy /\ request'[s] = request[s]
    BY <1>2
  <2>2. Fine(request[s])
    BY <2>1 DEF IInv, RequestsFine
  <2>3. request[s].step = "exchanging" =>
          request[s].login \notin DOMAIN transactions' /\ StillUnused(request[s].login)
    BY <1>2, <2>1 DEF Exchanging
  <2> QED BY <2>1, <2>2, <2>3, FineStays
<1> QED BY <1>1, <1>2

(***************************************************************************)
(* An answered request carries its new reply, and the rest of its row.     *)
(***************************************************************************)
AnsweredRow(q, login, reply) ==
  [q EXCEPT !.step = "answered", !.answer = NoAnswer, !.login = login, !.reply = reply]

LEMMA AnsweredEffect ==
  ASSUME IInv, NEW r \in Busy, NEW login, NEW reply, Answered(r, login, reply)
  PROVE  /\ Busy' = Busy
         /\ request' = [s \in Busy' |-> request'[s]]
         /\ \A s \in Busy' \ {r} : request'[s] = request[s]
         /\ request'[r] = AnsweredRow(request[r], login, reply)
<1>1. request = [s \in Busy |-> request[s]] /\ request[r] \in RequestRow
  BY DEF IInv, Typed, RequestsFine, Fine, Busy
<1> QED BY <1>1 DEF Answered, AnsweredRow, Busy, RequestRow

LEMMA AnsweredFine ==
  ASSUME IInv, Grows, NEW r \in Busy, NEW login, NEW reply, Answered(r, login, reply),
         login \in Logins' \cup {0}, reply \in Cookie',
         reply.holds = "session" => established'[reply.id].by = request[r].by,
         reply.holds = "transaction" => begun'[reply.id] = request[r].by
  PROVE  \A q : q = request'[r] => Fine(q)'
<1>1. Fine(request[r]) /\ request[r] \in RequestRow /\ request[r] \in RequestRow'
  BY GrownTypes DEF IInv, RequestsFine, Fine
<1> SUFFICES ASSUME NEW q, q = request'[r] PROVE Fine(q)'
  OBVIOUS
<1>2. q = AnsweredRow(request[r], login, reply)
  BY AnsweredEffect
<1>3. /\ q.step = "answered" /\ q.reply = reply /\ q.sent = request[r].sent
      /\ q.by = request[r].by
  BY <1>1, <1>2 DEF RequestRow, AnsweredRow
<1>4. q \in RequestRow'
  BY <1>1, <1>2 DEF RequestRow, AnsweredRow
<1>5. Own(q.by, q.sent)'
  <2>1. request[r].sent \in Cookie
    BY <1>1 DEF RequestRow
  <2>2. /\ request[r].sent.holds = "session" => request[r].sent.id \in DOMAIN established
        /\ request[r].sent.holds = "transaction" => request[r].sent.id \in Logins
    BY <2>1 DEF Cookie
  <2> QED BY <1>1, <1>3, <2>2 DEF Fine, Own, Grows
<1>6. Own(q.by, q.reply)'
  BY <1>3 DEF Own
<1> QED BY <1>3, <1>4, <1>5, <1>6 DEF Fine

-----------------------------------------------------------------------------
(***************************************************************************)
(* A step that establishes nothing and starts no login. It is given by     *)
(* what it does to the tables, the cookies and the requests.               *)
(***************************************************************************)
TablesShrink == Shrunk(transactions, transactions') /\ Shrunk(sessions, sessions')

NoNews == now' \in Nat /\ now <= now' /\ Grows /\ UNCHANGED <<begun, established>>

LEMMA QuietTyped ==
  ASSUME IInv, NoNews, TablesShrink,
         cookie' \in [Browsers -> Cookie'],
         Busy' \subseteq Requests, request' = [s \in Busy' |-> request'[s]],
         redirected' \subseteq Logins', answers' \subseteq Answer',
         ended' \subseteq DOMAIN established'
  PROVE  Typed'
<1>1. Logins' = Logins /\ DOMAIN established' = DOMAIN established
  BY DEF NoNews, Logins
<1>2. TablesTyped'
  <2>1. /\ DOMAIN transactions \subseteq Logins
        /\ transactions \in [DOMAIN transactions -> [expires : Nat]]
        /\ DOMAIN sessions \subseteq DOMAIN established
        /\ sessions \in [DOMAIN sessions -> [expires : Nat, user : Users]]
    BY DEF IInv, Typed, TablesTyped
  <2>2. /\ DOMAIN transactions' \subseteq Logins
        /\ transactions' \in [DOMAIN transactions' -> [expires : Nat]]
    BY <2>1 DEF TablesShrink, Shrunk
  <2>3. /\ DOMAIN sessions' \subseteq DOMAIN established
        /\ sessions' \in [DOMAIN sessions' -> [expires : Nat, user : Users]]
    BY <2>1 DEF TablesShrink, Shrunk
  <2> QED BY <1>1, <2>2, <2>3 DEF TablesTyped
<1>3. EstablishedRow' = EstablishedRow
  BY <1>1 DEF EstablishedRow
<1>4. established' \in Seq(EstablishedRow') /\ begun' \in Seq(Browsers)
  BY <1>3 DEF IInv, Typed, NoNews
<1> QED BY <1>2, <1>4 DEF Typed, NoNews, Busy

LEMMA QuietStep ==
  ASSUME IInv, NoNews, TablesShrink, Typed', RequestsFine', PoppedOnce', CookiesTheirOwn',
         \A k \in ended' \ ended : k \notin DOMAIN sessions'
  PROVE  IInv'
<1> USE DEF IInv
<1>1. Bounded(transactions, MaxTransactions)' /\ Bounded(sessions, MaxSessions)'
  <2>1. MaxTransactions \in Nat /\ MaxSessions \in Nat
    BY OidcAssumption
  <2> QED BY <2>1, ShrunkBounded DEF TablesShrink, Bounded
<1>2. SessionsMatchLogins'
  <2>1. \A k \in DOMAIN established : established[k].login \in Logins
    <3>1. \A k \in DOMAIN established : established[k] \in EstablishedRow
      BY DEF Typed
    <3> QED BY <3>1 DEF EstablishedRow
  <2>2. \A k \in DOMAIN sessions' : k \in DOMAIN sessions /\ sessions'[k] = sessions[k]
    BY DEF TablesShrink, Shrunk
  <2> QED BY <2>1, <2>2 DEF SessionsMatchLogins, NoNews, Grows
<1>3. OneSessionPerLogin'
  BY DEF OneSessionPerLogin, NoNews
<1>4. PendingUnused'
  BY DEF PendingUnused, Unused, NoNews, TablesShrink, Shrunk
<1>5. EndedGone'
  BY DEF EndedGone, TablesShrink, Shrunk
<1>6. ExpiriesAhead'
  <2>1. /\ now \in Nat /\ SessionTTL \in Nat /\ TransactionTTL \in Nat
        /\ \A n \in DOMAIN transactions : transactions[n].expires \in Nat
        /\ \A k \in DOMAIN sessions : sessions[k].expires \in Nat
    BY OidcAssumption DEF Typed, TablesTyped
  <2>2. /\ \A n \in DOMAIN transactions' :
             n \in DOMAIN transactions /\ transactions'[n] = transactions[n]
        /\ \A k \in DOMAIN sessions' : k \in DOMAIN sessions /\ sessions'[k] = sessions[k]
    BY DEF TablesShrink, Shrunk
  <2> QED BY <2>1, <2>2 DEF ExpiriesAhead, NoNews
<1> QED BY <1>1, <1>2, <1>3, <1>4, <1>5, <1>6

(***************************************************************************)
(* Nothing is exchanged after the step that was not before.                *)
(***************************************************************************)
LEMMA StillPoppedOnce ==
  ASSUME IInv,
         \A s \in Exchanging' : s \in Busy /\ request'[s] = request[s]
  PROVE  PoppedOnce'
<1>1. \A s \in Exchanging' : s \in Exchanging
  BY DEF Exchanging
<1> QED BY <1>1 DEF IInv, PoppedOnce

(***************************************************************************)
(* Quiet steps use up no transaction.                                      *)
(***************************************************************************)
LEMMA QuietFine ==
  ASSUME IInv, NoNews, TablesShrink, NEW r,
         \A s \in Busy' \ {r} : s \in Busy /\ request'[s] = request[s],
         \A q : r \in Busy' /\ q = request'[r] => Fine(q)'
  PROVE  RequestsFine'
<1>1. \A s \in Exchanging \ {r} :
        request[s].login \notin DOMAIN transactions' /\ StillUnused(request[s].login)
  <2> TAKE s \in Exchanging \ {r}
  <2>1. Fine(request[s]) /\ request[s].step = "exchanging"
    BY DEF Exchanging, IInv, RequestsFine
  <2>2. request[s].login \notin DOMAIN transactions /\ Unused(request[s].login)
    BY <2>1 DEF Fine
  <2> QED BY <2>2 DEF NoNews, TablesShrink, Shrunk, Unused, StillUnused
<1> QED BY <1>1, OthersStayFine DEF NoNews

(***************************************************************************)
(* A quiet step after which the request r is answered.                     *)
(***************************************************************************)
LEMMA QuietAnswer ==
  ASSUME IInv, NEW r \in Requests, r \in Busy, NEW reply \in Cookie, Answered(r, 0, reply),
         Own(request[r].by, reply), TablesShrink, UNCHANGED <<now, cookie>>,
         UNCHANGED <<begun, redirected, answers, established>>,
         ended' \subseteq DOMAIN established,
         \A k \in ended' \ ended : k \notin DOMAIN sessions'
  PROVE  IInv'
<1>1. NoNews
  BY DEF NoNews, Grows, Logins, IInv, Typed
<1>2. /\ Cookie' = Cookie /\ Answer' = Answer /\ Logins' = Logins
      /\ DOMAIN established' = DOMAIN established
  BY DEF Cookie, Answer, Logins
<1>3. /\ Busy' = Busy
      /\ request' = [s \in Busy' |-> request'[s]]
      /\ \A s \in Busy' \ {r} : request'[s] = request[s]
      /\ request'[r] = AnsweredRow(request[r], 0, reply)
  BY AnsweredEffect
<1>4. Typed'
  BY <1>1, <1>2, <1>3, QuietTyped DEF IInv, Typed, Busy
<1>5. RequestsFine'
  <2>1. /\ reply.holds = "session" => established'[reply.id].by = request[r].by
        /\ reply.holds = "transaction" => begun'[reply.id] = request[r].by
    BY DEF Own
  <2>2. 0 \in Logins' \cup {0} /\ reply \in Cookie'
    BY <1>2
  <2>3. \A q : q = request'[r] => Fine(q)'
    BY <1>1, <2>1, <2>2, AnsweredFine DEF NoNews
  <2>4. \A s \in Busy' \ {r} : s \in Busy /\ request'[s] = request[s]
    BY <1>3
  <2> QED BY <1>1, <2>3, <2>4, QuietFine
<1>6. request'[r].step = "answered"
  BY <1>3 DEF IInv, RequestsFine, Fine, RequestRow, AnsweredRow
<1>7. PoppedOnce'
  BY <1>3, <1>6, StillPoppedOnce DEF Exchanging
<1>8. CookiesTheirOwn'
  BY DEF CookiesTheirOwn, Own, IInv
<1> QED BY <1>1, <1>4, <1>5, <1>7, <1>8, QuietStep

LEMMA TablesStay ==
  ASSUME IInv, UNCHANGED tables
  PROVE  TablesShrink
BY Unshrunk DEF TablesShrink, tables, IInv, Typed, TablesTyped

LEMMA TablesPurged ==
  ASSUME transactions' = Live(transactions), sessions' = Live(sessions)
  PROVE  TablesShrink
BY LiveShrinks DEF TablesShrink

LEMMA NoCookieIsAnyones == NoCookie \in Cookie /\ \A b \in Browsers : Own(b, NoCookie)
BY DEF NoCookie, Cookie, Own

LEMMA HandledRequest ==
  ASSUME IInv, NEW r \in Busy
  PROVE  /\ request[r] \in RequestRow
         /\ request[r].by \in Browsers
         /\ request[r].sent \in Cookie
         /\ Own(request[r].by, request[r].sent)
         /\ request[r].reply \in Cookie
         /\ Own(request[r].by, request[r].reply)
<1>1. Fine(request[r])
  BY DEF IInv, RequestsFine
<1> QED BY <1>1 DEF Fine, RequestRow

-----------------------------------------------------------------------------
(***************************************************************************)
(* Every step keeps the inductive invariant: first those that answer a     *)
(* request and establish nothing.                                          *)
(***************************************************************************)
LEMMA EndsUntouched ==
  ASSUME IInv, UNCHANGED ended
  PROVE  ended' \subseteq DOMAIN established /\ \A k \in ended' \ ended : k \notin DOMAIN sessions'
BY DEF IInv, Typed

LEMMA UnavailableKeeps ==
  ASSUME IInv, NEW r \in Requests, login_unavailable(r)
  PROVE  IInv'
<1>1. r \in Busy /\ Answered(r, 0, NoCookie) /\ UNCHANGED <<now, tables, cookie, history>>
  BY DEF login_unavailable, Handles
<1> QED BY <1>1, TablesStay, NoCookieIsAnyones, HandledRequest, EndsUntouched, QuietAnswer
        DEF history

LEMMA FailureKeeps ==
  ASSUME IInv, NEW r \in Requests, exchange_fails(r)
  PROVE  IInv'
<1>1. r \in Busy /\ Answered(r, 0, NoCookie) /\ UNCHANGED <<now, tables, cookie, history>>
  BY DEF exchange_fails, Handles
<1> QED BY <1>1, TablesStay, NoCookieIsAnyones, HandledRequest, EndsUntouched, QuietAnswer
        DEF history

LEMMA PageKeeps ==
  ASSUME IInv, NEW r \in Requests, get_oidc_user(r)
  PROVE  IInv'
<1>1. r \in Busy /\ Answered(r, 0, request[r].sent) /\ UNCHANGED <<now, cookie, history>>
  BY DEF get_oidc_user, Handles
<1>2. TablesShrink
  BY TablesStay, TablesPurged DEF get_oidc_user
<1> QED BY <1>1, <1>2, HandledRequest, EndsUntouched, QuietAnswer DEF history

LEMMA LogoutKeeps ==
  ASSUME IInv, NEW r \in Requests, clear_login(r)
  PROVE  IInv'
<1> DEFINE sent == request[r].sent
           gone == IF sent.holds = "session" THEN {sent.id} ELSE {}
<1>1. /\ r \in Busy /\ Answered(r, 0, NoCookie) /\ UNCHANGED <<now, cookie>>
      /\ UNCHANGED <<begun, redirected, answers, established>>
      /\ ended' = ended \cup gone
      /\ sessions' = Without(sessions, gone)
      /\ transactions' =
           Without(transactions, IF sent.holds = "transaction" THEN {sent.id} ELSE {})
  BY DEF clear_login, Handles
<1>2. TablesShrink
  BY <1>1, WithoutShrinks DEF TablesShrink
<1>3. gone \subseteq DOMAIN established
  BY <1>1, HandledRequest DEF Cookie
<1>4. ended' \subseteq DOMAIN established /\ \A k \in ended' \ ended : k \notin DOMAIN sessions'
  <2>1. DOMAIN sessions' = DOMAIN sessions \ gone
    BY <1>1 DEF Without
  <2> QED BY <1>1, <1>3, <2>1 DEF IInv, Typed
<1> HIDE DEF gone
<1> QED BY <1>1, <1>2, <1>4, NoCookieIsAnyones, HandledRequest, QuietAnswer

-----------------------------------------------------------------------------
(***************************************************************************)
(* complete_login up to its await.                                         *)
(***************************************************************************)
LEMMA FoundKeeps ==
  ASSUME IInv, NEW r \in Requests, Handles(r, "callback", "sent"),
         request[r].sent.holds = "transaction",
         NEW n, n = request[r].sent.id, n \in DOMAIN Live(transactions),
         sessions' = Live(sessions), transactions' = Without(Live(transactions), {n}),
         request' = [request EXCEPT ![r].step = "exchanging", ![r].login = n],
         UNCHANGED <<now, cookie, history>>
  PROVE  IInv'
<1>1. /\ r \in Busy /\ request[r] \in RequestRow /\ Fine(request[r])
      /\ request[r].op = "callback" /\ request[r].step = "sent"
  BY DEF Handles, IInv, RequestsFine, Fine
<1>2. /\ Busy' = Busy /\ request' = [s \in Busy' |-> request'[s]]
      /\ \A s \in Busy' \ {r} : request'[s] = request[s]
      /\ request'[r] = [request[r] EXCEPT !.step = "exchanging", !.login = n]
  BY <1>1 DEF Busy, RequestRow, IInv, Typed
<1>3. /\ Logins' = Logins /\ Answer' = Answer /\ Cookie' = Cookie
      /\ DOMAIN established' = DOMAIN established
  BY DEF history, Logins, Answer, Cookie
<1>4. NoNews
  BY SameHistoryGrows DEF NoNews, history, IInv, Typed
<1>5. TablesShrink
  BY LiveShrinks, PurgedAndPopped DEF TablesShrink
<1>6. n \in DOMAIN transactions /\ n \notin DOMAIN transactions'
  BY DEF Live, Without
<1>7. n \in Logins /\ Unused(n)
  BY <1>6 DEF IInv, Typed, TablesTyped, PendingUnused
<1>8. Typed'
  BY <1>2, <1>3, <1>4, <1>5, QuietTyped DEF IInv, Typed, Busy, history
<1>9. \A q : q = request'[r] => Fine(q)'
  <2> SUFFICES ASSUME NEW q, q = request'[r] PROVE Fine(q)'
    OBVIOUS
  <2>1. /\ q \in RequestRow
        /\ q.step = "exchanging" /\ q.login = n /\ q.op = "callback"
        /\ q.by = request[r].by /\ q.answer = request[r].answer
        /\ q.sent = request[r].sent /\ q.reply = request[r].reply
    BY <1>1, <1>2, <1>7 DEF RequestRow
  <2>2. q \in RequestRow'
    BY <1>4, <2>1, GrownTypes DEF NoNews
  <2>3. Unused(n)'
    BY <1>7 DEF Unused, history
  <2>4. Own(q.by, q.sent)' /\ Own(q.by, q.reply)'
    BY <1>1, <2>1 DEF Fine, Own, history
  <2>5. q.answer \in answers' /\ begun'[q.login] = q.by
    BY <1>1, <2>1 DEF Fine, Own, history
  <2>6. q.login \in Logins' \ DOMAIN transactions' /\ Unused(q.login)'
    <3>1. n \in Logins' \ DOMAIN transactions'
      BY <1>3, <1>6, <1>7
    <3>2. Unused(q.login)'
      BY <2>1, <2>3 DEF Unused
    <3> QED BY <2>1, <3>1, <3>2
  <2> QED BY <2>1, <2>2, <2>4, <2>5, <2>6 DEF Fine
<1>10. RequestsFine'
  BY <1>2, <1>4, <1>5, <1>9, QuietFine
<1>11. PoppedOnce'
  <2> SUFFICES ASSUME NEW s \in Exchanging', s # r
               PROVE  request'[s].login # request'[r].login
    <3>1. ASSUME NEW s \in Exchanging', NEW t \in Exchanging', s # r, t # r,
                 request'[s].login = request'[t].login
          PROVE  s = t
      BY <1>2, <3>1 DEF Exchanging, IInv, PoppedOnce
    <3> QED BY <3>1 DEF PoppedOnce
  <2>1. s \in Busy /\ request'[s] = request[s] /\ request[s].step = "exchanging"
    BY <1>2 DEF Exchanging
  <2>2. request[s].login \notin DOMAIN transactions
    BY <2>1 DEF IInv, RequestsFine, Fine
  <2>3. request'[r].login = n
    BY <1>1, <1>2 DEF RequestRow
  <2> QED BY <1>6, <2>1, <2>2, <2>3
<1>12. CookiesTheirOwn'
  BY DEF CookiesTheirOwn, Own, IInv, history
<1> QED BY <1>4, <1>5, <1>8, <1>10, <1>11, <1>12, QuietStep DEF history

LEMMA PopKeeps ==
  ASSUME IInv, NEW r \in Requests, pop_transaction(r)
  PROVE  IInv'
<1> DEFINE n == request[r].sent.id
<1>1. r \in Busy /\ Handles(r, "callback", "sent") /\ UNCHANGED <<now, cookie, history>>
  BY DEF pop_transaction, Handles
<1>2. CASE /\ request[r].sent.holds = "transaction"
           /\ sessions' = Live(sessions)
           /\ transactions' = Without(Live(transactions), {n})
           /\ n \in DOMAIN Live(transactions)
           /\ request' = [request EXCEPT ![r].step = "exchanging", ![r].login = n]
  BY <1>1, <1>2, FoundKeeps
<1>3. CASE /\ sessions' = Live(sessions)
           /\ transactions' = Without(Live(transactions), {n})
           /\ Answered(r, 0, NoCookie)
  <2>1. TablesShrink
    BY <1>3, LiveShrinks, PurgedAndPopped DEF TablesShrink
  <2> QED BY <1>1, <1>3, <2>1, NoCookieIsAnyones, HandledRequest, EndsUntouched, QuietAnswer
          DEF history
<1>4. CASE Answered(r, 0, NoCookie) /\ UNCHANGED tables
  BY <1>1, <1>4, TablesStay, NoCookieIsAnyones, HandledRequest, EndsUntouched, QuietAnswer
     DEF history
<1> QED BY <1>2, <1>3, <1>4 DEF pop_transaction

-----------------------------------------------------------------------------
(***************************************************************************)
(* Requests that are sent, and answers that arrive or are lost.            *)
(***************************************************************************)
LEMMA SendKeeps ==
  ASSUME IInv, NEW r \in Requests, NEW b \in Browsers,
         NEW op \in {"login", "callback", "page", "logout"}, NEW answer,
         answer = NoAnswer \/ answer \in answers,
         op = "callback" => answer \in answers,
         Send(r, b, op, answer)
  PROVE  IInv'
<1> DEFINE row == [by |-> b, op |-> op, sent |-> cookie[b], answer |-> answer,
                   step |-> "sent", login |-> 0, reply |-> NoCookie]
<1>1. /\ r \notin Busy /\ request' = With(request, r, row)
      /\ UNCHANGED <<now, tables, cookie, history>>
  BY DEF Send
<1>2. /\ Busy' = Busy \cup {r} /\ request'[r] = row
      /\ \A s \in Busy' \ {r} : s \in Busy /\ request'[s] = request[s]
      /\ request' = [s \in Busy' |-> request'[s]]
  BY <1>1 DEF Busy, With
<1>3. /\ Logins' = Logins /\ Answer' = Answer /\ Cookie' = Cookie
      /\ DOMAIN established' = DOMAIN established
  BY <1>1 DEF history, Logins, Answer, Cookie
<1>4. NoNews /\ TablesShrink
  BY <1>1, SameHistoryGrows, TablesStay DEF NoNews, history, IInv, Typed
<1>5. Typed'
  BY <1>1, <1>2, <1>3, <1>4, QuietTyped DEF IInv, Typed, Busy, history
<1>6. \A q : q = request'[r] => Fine(q)'
  <2> SUFFICES ASSUME NEW q, q = request'[r] PROVE Fine(q)'
    OBVIOUS
  <2>1. /\ q.by = b /\ q.op = op /\ q.sent = cookie[b] /\ q.answer = answer
        /\ q.step = "sent" /\ q.reply = NoCookie
    BY <1>2
  <2>2. q \in RequestRow
    <3>1. answer \in Answer \cup {NoAnswer} /\ cookie[b] \in Cookie /\ NoCookie \in Cookie
      BY NoCookieIsAnyones DEF IInv, Typed
    <3> QED BY <1>2, <3>1 DEF RequestRow
  <2>3. q \in RequestRow'
    BY <1>4, <2>2, GrownTypes DEF NoNews
  <2>4. Own(q.by, q.sent)' /\ Own(q.by, q.reply)'
    BY <1>1, <2>1 DEF Own, history, IInv, CookiesTheirOwn, NoCookie
  <2>5. q.op = "callback" => q.answer \in answers'
    BY <1>1, <2>1 DEF history
  <2> QED BY <2>1, <2>3, <2>4, <2>5 DEF Fine
<1> HIDE DEF row
<1>7. RequestsFine'
  BY <1>2, <1>4, <1>6, QuietFine
<1>8. PoppedOnce'
  <2>1. request'[r].step = "sent"
    BY <1>2 DEF row
  <2> QED BY <1>2, <2>1, StillPoppedOnce DEF Exchanging
<1>9. CookiesTheirOwn'
  BY <1>1 DEF CookiesTheirOwn, Own, IInv, history
<1> QED BY <1>1, <1>4, <1>5, <1>7, <1>8, <1>9, QuietStep DEF history

LEMMA AskKeeps ==
  ASSUME IInv, NEW r \in Requests, Ask(r)
  PROVE  IInv'
<1>1. CASE \E b \in Browsers, op \in {"login", "page", "logout"} : Send(r, b, op, NoAnswer)
  <2> PICK b \in Browsers, op \in {"login", "page", "logout"} : Send(r, b, op, NoAnswer)
    BY <1>1
  <2> QED BY SendKeeps
<1>2. CASE \E b \in Browsers, a \in answers : Send(r, b, "callback", a)
  <2> PICK b \in Browsers, a \in answers : Send(r, b, "callback", a)
    BY <1>2
  <2> QED BY SendKeeps
<1> QED BY <1>1, <1>2 DEF Ask

LEMMA DropTypes ==
  ASSUME IInv, NEW r \in Busy, request' = Without(request, {r}),
         UNCHANGED <<now, tables, begun, established>>, UNCHANGED <<answers, ended>>,
         redirected' \subseteq Logins, cookie' \in [Browsers -> Cookie],
         CookiesTheirOwn'
  PROVE  IInv'
<1>1. /\ Busy' = Busy \ {r}
      /\ \A s \in Busy' : s \in Busy /\ request'[s] = request[s]
      /\ request' = [s \in Busy' |-> request'[s]]
  BY DEF Busy, Without
<1>2. /\ Logins' = Logins /\ Answer' = Answer /\ Cookie' = Cookie
      /\ DOMAIN established' = DOMAIN established
  BY DEF Logins, Answer, Cookie
<1>3. NoNews /\ TablesShrink
  BY TablesStay DEF NoNews, Grows, Logins, IInv, Typed
<1>4. Typed'
  BY <1>1, <1>2, <1>3, QuietTyped DEF IInv, Typed, Busy
<1>5. RequestsFine'
  BY <1>1, <1>3, QuietFine
<1>6. PoppedOnce'
  BY <1>1, StillPoppedOnce DEF Exchanging
<1> QED BY <1>3, <1>4, <1>5, <1>6, QuietStep

LEMMA DeliverKeeps ==
  ASSUME IInv, NEW r \in Requests, Deliver(r)
  PROVE  IInv'
<1> DEFINE q == request[r]
<1>1. /\ r \in Busy /\ request' = Without(request, {r})
      /\ UNCHANGED <<now, tables, begun, established>> /\ UNCHANGED <<answers, ended>>
      /\ redirected' = redirected \cup ({q.login} \ {0})
  BY DEF Deliver
<1>2. /\ q \in RequestRow /\ q.by \in Browsers /\ q.login \in Logins \cup {0}
      /\ q.reply \in Cookie /\ Own(q.by, q.reply)
  BY <1>1, HandledRequest DEF RequestRow
<1>3. redirected' \subseteq Logins
  BY <1>1, <1>2 DEF IInv, Typed
<1>4. /\ cookie \in [Browsers -> Cookie]
      /\ \/ cookie' = cookie
         \/ cookie' = [cookie EXCEPT ![q.by] = q.reply]
  BY DEF Deliver, IInv, Typed
<1>5. cookie' \in [Browsers -> Cookie]
  BY <1>2, <1>4
<1>6. CookiesTheirOwn'
  BY <1>1, <1>2, <1>4 DEF CookiesTheirOwn, Own, IInv
<1> HIDE DEF q
<1> QED BY <1>1, <1>3, <1>5, <1>6, DropTypes

LEMMA LoseKeeps ==
  ASSUME IInv, NEW r \in Requests, Lose(r)
  PROVE  IInv'
<1>1. /\ r \in Busy /\ request' = Without(request, {r})
      /\ UNCHANGED <<now, tables, begun, established>> /\ UNCHANGED <<answers, ended>>
      /\ UNCHANGED <<redirected, cookie>>
  BY DEF Lose, history
<1>2. redirected' \subseteq Logins /\ cookie' \in [Browsers -> Cookie]
  BY <1>1 DEF IInv, Typed
<1>3. CookiesTheirOwn'
  BY <1>1 DEF CookiesTheirOwn, Own, IInv
<1> QED BY <1>1, <1>2, <1>3, DropTypes

-----------------------------------------------------------------------------
(***************************************************************************)
(* The provider, the clock and a restart.                                  *)
(***************************************************************************)
LEMMA IdleRequestsKeep ==
  ASSUME IInv, NoNews, TablesShrink, UNCHANGED <<cookie, redirected, ended>>,
         \/ UNCHANGED request
         \/ request' = NoEntries,
         answers' \subseteq Answer'
  PROVE  IInv'
<1>1. /\ Busy' \subseteq Busy
      /\ \A s \in Busy' : s \in Busy /\ request'[s] = request[s]
      /\ request' = [s \in Busy' |-> request'[s]]
  BY DEF Busy, NoEntries, IInv, Typed
<1>2. /\ Logins' = Logins /\ Cookie' = Cookie
      /\ DOMAIN established' = DOMAIN established
  BY DEF NoNews, Logins, Cookie
<1>3. Typed'
  BY <1>1, <1>2, QuietTyped DEF IInv, Typed, Busy
<1>4. RequestsFine'
  <2> PICK r : r \notin Busy'
    BY NoSetContainsEverything
  <2> QED BY <1>1, QuietFine
<1>5. PoppedOnce'
  BY <1>1, StillPoppedOnce DEF Exchanging
<1>6. CookiesTheirOwn'
  BY DEF CookiesTheirOwn, Own, IInv, NoNews
<1> QED BY <1>3, <1>4, <1>5, <1>6, QuietStep

LEMMA AuthenticateKeeps ==
  ASSUME IInv, NEW n \in Logins, NEW u \in Users, Authenticate(n, u)
  PROVE  IInv'
<1>1. NoNews /\ TablesShrink
  BY TablesStay DEF Authenticate, NoNews, Grows, Logins, IInv, Typed
<1>2. answers' \subseteq Answer'
  BY DEF Authenticate, Answer, Logins, IInv, Typed
<1> QED BY <1>1, <1>2, IdleRequestsKeep DEF Authenticate

LEMMA TickKeeps ==
  ASSUME IInv, Tick
  PROVE  IInv'
<1>1. NoNews /\ TablesShrink
  BY TablesStay, SameHistoryGrows DEF Tick, NoNews, history, IInv, Typed
<1>2. answers' \subseteq Answer'
  BY DEF Tick, history, Answer, Logins, IInv, Typed
<1> QED BY <1>1, <1>2, IdleRequestsKeep DEF Tick, history

LEMMA RestartKeeps ==
  ASSUME IInv, Restart
  PROVE  IInv'
<1>1. NoNews
  BY SameHistoryGrows DEF Restart, NoNews, history, IInv, Typed
<1>2. TablesShrink
  BY DEF Restart, TablesShrink, Shrunk, NoEntries
<1>3. answers' \subseteq Answer'
  BY DEF Restart, history, Answer, Logins, IInv, Typed
<1> QED BY <1>1, <1>2, <1>3, IdleRequestsKeep DEF Restart, history

LEMMA StutterKeeps ==
  ASSUME IInv, UNCHANGED oidcVars
  PROVE  IInv'
<1>1. NoNews /\ TablesShrink
  BY TablesStay, SameHistoryGrows DEF oidcVars, NoNews, history, IInv, Typed
<1>2. answers' \subseteq Answer'
  BY DEF oidcVars, history, Answer, Logins, IInv, Typed
<1> QED BY <1>1, <1>2, IdleRequestsKeep DEF oidcVars, history

-----------------------------------------------------------------------------
(***************************************************************************)
(* What is kept of a table that is purged, and of which an entry makes     *)
(* room.                                                                   *)
(***************************************************************************)
LEMMA PurgedAndEvicted ==
  ASSUME NEW table, NEW limit \in Nat \ {0}, DOMAIN table \subseteq Nat,
         table = [i \in DOMAIN table |-> table[i]],
         \A i \in DOMAIN table : table[i].expires \in Nat, Bounded(table, limit)
  PROVE  /\ Shrunk(table, Live(table))
         /\ Shrunk(table, Evicted(Live(table), limit))
         /\ \A i, entry : Bounded(With(Evicted(Live(table), limit), i, entry), limit)
<1> DEFINE live == Live(table)
<1>1. Shrunk(table, live)
  BY LiveShrinks
<1>2. /\ live = [i \in DOMAIN live |-> live[i]]
      /\ DOMAIN live \subseteq Nat /\ \A i \in DOMAIN live : live[i].expires \in Nat
  BY <1>1 DEF Shrunk
<1>3. Bounded(live, limit)
  BY <1>1, ShrunkBounded
<1> HIDE DEF live
<1>4. Shrunk(live, Evicted(live, limit))
  BY <1>2, EvictedShrinks
<1>5. \A i, entry : Bounded(With(Evicted(live, limit), i, entry), limit)
  BY <1>2, <1>3, InsertedBounded
<1> QED BY <1>1, <1>4, <1>5, ShrunkTwice DEF live

(***************************************************************************)
(* A new login.                                                            *)
(***************************************************************************)
LEMMA LoginKeeps ==
  ASSUME IInv, NEW r \in Requests, begin_login(r)
  PROVE  IInv'
<1> DEFINE n == Len(begun) + 1
           kept == Evicted(Live(transactions), MaxTransactions)
<1>1. /\ r \in Busy /\ Answered(r, n, TransactionCookie(n))
      /\ transactions' = With(kept, n, [expires |-> now + TransactionTTL])
      /\ sessions' = Live(sessions)
      /\ begun' = Append(begun, request[r].by)
      /\ UNCHANGED <<now, cookie, redirected, answers, established, ended>>
  BY DEF begin_login, Handles
<1>2. /\ begun' \in Seq(Browsers) /\ Logins' = Logins \cup {n} /\ n \notin Logins
      /\ n \in Nat /\ Logins \subseteq Nat
      /\ \A i \in Logins : begun'[i] = begun[i]
      /\ begun'[n] = request[r].by
  <2>1. begun \in Seq(Browsers) /\ request[r].by \in Browsers
    BY <1>1, HandledRequest DEF IInv, Typed
  <2> QED BY <1>1, <2>1, Appended DEF Logins
<1>3. /\ DOMAIN transactions \subseteq Logins
      /\ transactions = [i \in DOMAIN transactions |-> transactions[i]]
      /\ \A i \in DOMAIN transactions : transactions[i] \in [expires : Nat]
      /\ now \in Nat /\ TransactionTTL \in Nat /\ MaxTransactions \in Nat \ {0}
      /\ MaxSessions \in Nat \ {0}
  BY OidcAssumption DEF IInv, Typed, TablesTyped
<1>4. \A i \in DOMAIN transactions : transactions[i].expires \in Nat
  BY <1>3
<1>5. /\ Shrunk(transactions, kept)
      /\ Bounded(transactions', MaxTransactions)
  BY <1>1, <1>2, <1>3, <1>4, PurgedAndEvicted DEF IInv
<1>6. /\ Shrunk(sessions, sessions')
      /\ Bounded(sessions', MaxSessions)
  BY <1>1, <1>3, LiveShrinks, ShrunkBounded DEF IInv
<1> HIDE DEF kept, n
<1>7. /\ DOMAIN transactions' = DOMAIN kept \cup {n}
      /\ DOMAIN kept \subseteq DOMAIN transactions
      /\ transactions' \in [DOMAIN transactions' -> [expires : Nat]]
  <2>1. now + TransactionTTL \in Nat
    BY <1>3
  <2>2. \A i \in DOMAIN kept : i \in DOMAIN transactions /\ kept[i] = transactions[i]
    BY <1>5 DEF Shrunk
  <2> QED BY <1>1, <1>3, <2>1, <2>2 DEF With
<1>8. Grows
  BY <1>1, <1>2 DEF Grows
<1>9. /\ Answer \subseteq Answer' /\ Cookie \subseteq Cookie'
      /\ EstablishedRow \subseteq EstablishedRow'
  BY <1>8, GrownTypes
<1>10. /\ Busy' = Busy
       /\ request' = [s \in Busy' |-> request'[s]]
       /\ \A s \in Busy' \ {r} : request'[s] = request[s]
       /\ request'[r] = AnsweredRow(request[r], n, TransactionCookie(n))
  BY <1>1, AnsweredEffect
<1>11. Typed'
  <2>1. TablesTyped'
    BY <1>1, <1>2, <1>3, <1>6, <1>7 DEF TablesTyped, Shrunk, IInv, Typed
  <2>2. established' \in Seq(EstablishedRow')
    <3>1. \A S, T : S \subseteq T => \A e \in Seq(S) : e \in Seq(T)
      OBVIOUS
    <3> QED BY <1>1, <1>9, <3>1 DEF IInv, Typed
  <2>3. cookie' \in [Browsers -> Cookie']
    BY <1>1, <1>9 DEF IInv, Typed
  <2> QED BY <1>1, <1>2, <1>9, <1>10, <2>1, <2>2, <2>3 DEF IInv, Typed, Busy
<1>12. \A k \in DOMAIN established : established[k].login \in Logins
  <2>1. \A k \in DOMAIN established : established[k] \in EstablishedRow
    BY DEF IInv, Typed
  <2> QED BY <2>1 DEF EstablishedRow
<1>13. SessionsMatchLogins'
  <2>1. \A k \in DOMAIN sessions' : k \in DOMAIN sessions /\ sessions'[k] = sessions[k]
    BY <1>6 DEF Shrunk
  <2> QED BY <1>1, <1>2, <1>12, <2>1 DEF IInv, SessionsMatchLogins
<1>14. OneSessionPerLogin'
  BY <1>1 DEF IInv, OneSessionPerLogin
<1>15. RequestsFine'
  <2>1. \A s \in Exchanging \ {r} :
          request[s].login \notin DOMAIN transactions' /\ StillUnused(request[s].login)
    <3> TAKE s \in Exchanging \ {r}
    <3>1. Fine(request[s]) /\ request[s].step = "exchanging"
      BY DEF Exchanging, IInv, RequestsFine
    <3>2. /\ request[s].login \in Logins /\ request[s].login \notin DOMAIN transactions
          /\ Unused(request[s].login)
      BY <3>1 DEF Fine
    <3> QED BY <1>1, <1>2, <1>7, <3>2 DEF Unused, StillUnused
  <2>2. n \in Logins' \cup {0} /\ TransactionCookie(n) \in Cookie'
    BY <1>2 DEF TransactionCookie, Cookie
  <2>3. /\ TransactionCookie(n).holds # "session"
        /\ begun'[TransactionCookie(n).id] = request[r].by
    BY <1>2 DEF TransactionCookie
  <2>4. \A q : q = request'[r] => Fine(q)'
    BY <1>1, <1>8, <2>2, <2>3, AnsweredFine
  <2> QED BY <1>8, <1>10, <2>1, <2>4, OthersStayFine
<1>16. PoppedOnce'
  <2>1. request'[r].step = "answered"
    BY <1>1, <1>10, HandledRequest DEF RequestRow, AnsweredRow
  <2> QED BY <1>10, <2>1, StillPoppedOnce DEF Exchanging
<1>17. PendingUnused'
  BY <1>1, <1>2, <1>7, <1>12 DEF IInv, PendingUnused, Unused
<1>18. CookiesTheirOwn'
  <2>1. \A b \in Browsers : cookie[b].holds = "transaction" => cookie[b].id \in Logins
    BY DEF IInv, Typed, Cookie
  <2> QED BY <1>1, <1>2, <2>1 DEF IInv, CookiesTheirOwn, Own
<1>19. EndedGone'
  BY <1>1, <1>6 DEF IInv, EndedGone, Shrunk
<1>20. ExpiriesAhead'
  <2>1. \A i \in DOMAIN transactions' :
          \/ transactions'[i].expires = now + TransactionTTL
          \/ i \in DOMAIN transactions /\ transactions'[i] = transactions[i]
    BY <1>1, <1>5, <1>7 DEF With, Shrunk
  <2>2. \A k \in DOMAIN sessions' : k \in DOMAIN sessions /\ sessions'[k] = sessions[k]
    BY <1>6 DEF Shrunk
  <2> QED BY <1>1, <1>3, <2>1, <2>2 DEF IInv, ExpiriesAhead
<1> QED BY <1>5, <1>6, <1>11, <1>13, <1>14, <1>15, <1>16, <1>17, <1>18, <1>19, <1>20
        DEF IInv, Bounded

(***************************************************************************)
(* A session.                                                              *)
(***************************************************************************)
LEMMA CompletionKeeps ==
  ASSUME IInv, NEW r \in Requests, complete_login(r)
  PROVE  IInv'
<1> DEFINE k == Len(established) + 1
           kept == Evicted(Live(sessions), MaxSessions)
           row == [login |-> request[r].login, user |-> request[r].answer.user,
                   by |-> request[r].by, at |-> now]
           entry == [expires |-> now + SessionTTL, user |-> request[r].answer.user]
<1>1. /\ r \in Busy /\ Answered(r, 0, SessionCookie(k))
      /\ request[r].op = "callback" /\ request[r].step = "exchanging"
      /\ request[r].answer.login = request[r].login
      /\ transactions' = Live(transactions)
      /\ sessions' = With(kept, k, entry)
      /\ established' = Append(established, row)
      /\ UNCHANGED <<now, cookie, begun, redirected, answers, ended>>
  BY DEF complete_login, Handles, StateMatches, NewSessionId
<1>2. /\ request[r].login \in Logins /\ Unused(request[r].login)
      /\ request[r].answer \in answers /\ request[r].by = begun[request[r].login]
      /\ request[r].by \in Browsers
  <2>1. Fine(request[r])
    BY <1>1 DEF IInv, RequestsFine
  <2> QED BY <1>1, <2>1, HandledRequest DEF Fine
<1>3. /\ request[r].answer.user \in Users
      /\ [login |-> request[r].login, user |-> request[r].answer.user] \in answers
  <2>1. request[r].answer \in Answer
    BY <1>2 DEF IInv, Typed
  <2>2. request[r].answer =
          [login |-> request[r].answer.login, user |-> request[r].answer.user]
    BY <2>1 DEF Answer
  <2> QED BY <1>1, <1>2, <2>1, <2>2 DEF Answer
<1>4. /\ DOMAIN sessions \subseteq DOMAIN established
      /\ sessions = [i \in DOMAIN sessions |-> sessions[i]]
      /\ \A i \in DOMAIN sessions : sessions[i] \in [expires : Nat, user : Users]
      /\ now \in Nat /\ SessionTTL \in Nat /\ MaxSessions \in Nat \ {0}
      /\ MaxTransactions \in Nat \ {0}
  BY OidcAssumption DEF IInv, Typed, TablesTyped
<1>5. row \in EstablishedRow
  BY <1>2, <1>3, <1>4 DEF EstablishedRow
<1>6. /\ established' \in Seq(EstablishedRow)
      /\ DOMAIN established' = DOMAIN established \cup {k} /\ k \notin DOMAIN established
      /\ k \in Nat /\ DOMAIN established \subseteq Nat
      /\ established'[k] = row
      /\ \A i \in DOMAIN established : established'[i] = established[i]
  <2>1. established \in Seq(EstablishedRow)
    BY DEF IInv, Typed
  <2> HIDE DEF row
  <2> QED BY <1>1, <1>5, <2>1, Appended
<1>7. \A i \in DOMAIN sessions : sessions[i].expires \in Nat
  BY <1>4
<1>8. /\ Shrunk(sessions, kept)
      /\ Bounded(sessions', MaxSessions)
  BY <1>1, <1>4, <1>6, <1>7, PurgedAndEvicted DEF IInv
<1>9. /\ Shrunk(transactions, transactions')
      /\ Bounded(transactions', MaxTransactions)
  BY <1>1, <1>4, LiveShrinks, ShrunkBounded DEF IInv
<1>10. entry \in [expires : Nat, user : Users]
  <2>1. now + SessionTTL \in Nat
    BY <1>4
  <2> QED BY <1>3, <2>1
<1>11. /\ row.login = request[r].login /\ row.user = request[r].answer.user
       /\ row.by = request[r].by /\ row.at = now
       /\ entry.user = row.user /\ entry.expires = now + SessionTTL
  OBVIOUS
<1> HIDE DEF kept, k, row, entry
<1>12. /\ DOMAIN sessions' = DOMAIN kept \cup {k}
       /\ sessions'[k] = entry
       /\ \A i \in DOMAIN kept : i \in DOMAIN sessions /\ i # k /\ sessions'[i] = sessions[i]
       /\ sessions' \in [DOMAIN sessions' -> [expires : Nat, user : Users]]
  <2>1. \A i \in DOMAIN kept : i \in DOMAIN sessions /\ i # k /\ kept[i] = sessions[i]
    BY <1>4, <1>6, <1>8 DEF Shrunk
  <2> QED BY <1>1, <1>4, <1>10, <2>1 DEF With
<1>13. Grows /\ Logins' = Logins
  BY <1>1, <1>6 DEF Grows, Logins
<1>14. /\ Answer \subseteq Answer' /\ Cookie \subseteq Cookie'
       /\ EstablishedRow \subseteq EstablishedRow'
  BY <1>13, GrownTypes
<1>15. /\ Busy' = Busy
       /\ request' = [s \in Busy' |-> request'[s]]
       /\ \A s \in Busy' \ {r} : request'[s] = request[s]
       /\ request'[r] = AnsweredRow(request[r], 0, SessionCookie(k))
  BY <1>1, AnsweredEffect
<1>16. Typed'
  <2>1. TablesTyped'
    BY <1>1, <1>4, <1>6, <1>9, <1>12, <1>13 DEF TablesTyped, Shrunk, IInv, Typed
  <2>2. established' \in Seq(EstablishedRow')
    <3>1. \A S, T : S \subseteq T => \A e \in Seq(S) : e \in Seq(T)
      OBVIOUS
    <3> QED BY <1>6, <1>14, <3>1
  <2>3. cookie' \in [Browsers -> Cookie']
    BY <1>1, <1>14 DEF IInv, Typed
  <2> QED BY <1>1, <1>6, <1>13, <1>14, <1>15, <2>1, <2>2, <2>3 DEF IInv, Typed, Busy
<1>17. SessionsMatchLogins'
  <2>1. ASSUME NEW i \in DOMAIN established'
        PROVE  /\ [login |-> established'[i].login, user |-> established'[i].user] \in answers'
               /\ begun'[established'[i].login] = established'[i].by
    <3>1. CASE i = k
      BY <1>1, <1>2, <1>3, <1>6, <1>11, <3>1
    <3>2. CASE i # k
      BY <1>1, <1>6, <3>2 DEF IInv, SessionsMatchLogins
    <3> QED BY <3>1, <3>2
  <2>2. ASSUME NEW i \in DOMAIN sessions'
        PROVE  /\ sessions'[i].user = established'[i].user
               /\ sessions'[i].expires = established'[i].at + SessionTTL
    <3>1. CASE i = k
      BY <1>6, <1>11, <1>12, <3>1
    <3>2. CASE i # k
      <4>1. i \in DOMAIN sessions /\ sessions'[i] = sessions[i] /\ i \in DOMAIN established
        BY <1>4, <1>12, <3>2
      <4> QED BY <1>6, <4>1 DEF IInv, SessionsMatchLogins
    <3> QED BY <3>1, <3>2
  <2> QED BY <2>1, <2>2 DEF SessionsMatchLogins
<1>18. OneSessionPerLogin'
  BY <1>2, <1>6, <1>11 DEF IInv, OneSessionPerLogin, Unused
<1>19. RequestsFine'
  <2>1. \A s \in Exchanging \ {r} :
          request[s].login \notin DOMAIN transactions' /\ StillUnused(request[s].login)
    <3> TAKE s \in Exchanging \ {r}
    <3>1. Fine(request[s]) /\ request[s].step = "exchanging"
      BY DEF Exchanging, IInv, RequestsFine
    <3>2. request[s].login \notin DOMAIN transactions /\ Unused(request[s].login)
      BY <3>1 DEF Fine
    <3>3. request[s].login # request[r].login
      BY <1>1 DEF Exchanging, IInv, PoppedOnce
    <3> QED BY <1>6, <1>9, <1>11, <3>2, <3>3 DEF Unused, StillUnused, Shrunk
  <2>2. 0 \in Logins' \cup {0} /\ SessionCookie(k) \in Cookie'
    BY <1>6 DEF SessionCookie, Cookie
  <2>3. /\ established'[SessionCookie(k).id].by = request[r].by
        /\ SessionCookie(k).holds # "transaction"
    BY <1>6, <1>11 DEF SessionCookie
  <2>4. \A q : q = request'[r] => Fine(q)'
    BY <1>1, <1>13, <2>2, <2>3, AnsweredFine
  <2> QED BY <1>13, <1>15, <2>1, <2>4, OthersStayFine
<1>20. PoppedOnce'
  <2>1. request'[r].step = "answered"
    BY <1>1, <1>15, HandledRequest DEF RequestRow, AnsweredRow
  <2> QED BY <1>15, <2>1, StillPoppedOnce DEF Exchanging
<1>21. PendingUnused'
  <2>1. request[r].login \notin DOMAIN transactions
    BY <1>1 DEF IInv, RequestsFine, Fine
  <2> QED BY <1>6, <1>9, <1>11, <2>1 DEF IInv, PendingUnused, Unused, Shrunk
<1>22. CookiesTheirOwn'
  <2>1. \A b \in Browsers : cookie[b].holds = "session" => cookie[b].id \in DOMAIN established
    BY DEF IInv, Typed, Cookie
  <2> QED BY <1>1, <1>6, <2>1 DEF IInv, CookiesTheirOwn, Own
<1>23. EndedGone'
  <2>1. ended \subseteq DOMAIN established
    BY DEF IInv, Typed
  <2> QED BY <1>1, <1>6, <1>12, <2>1 DEF IInv, EndedGone
<1>24. ExpiriesAhead'
  <2>1. \A i \in DOMAIN sessions' :
          \/ sessions'[i].expires = now + SessionTTL
          \/ i \in DOMAIN sessions /\ sessions'[i] = sessions[i]
    BY <1>11, <1>12
  <2>2. \A n \in DOMAIN transactions' :
          n \in DOMAIN transactions /\ transactions'[n] = transactions[n]
    BY <1>9 DEF Shrunk
  <2> QED BY <1>1, <1>4, <2>1, <2>2 DEF IInv, ExpiriesAhead
<1> QED BY <1>8, <1>9, <1>16, <1>17, <1>18, <1>19, <1>20, <1>21, <1>22, <1>23, <1>24
        DEF IInv, Bounded

-----------------------------------------------------------------------------
LEMMA InitIInv == Init => IInv
<1> SUFFICES ASSUME Init PROVE IInv
  OBVIOUS
<1> USE DEF Init, NoEntries
<1>1. /\ DOMAIN transactions = {} /\ DOMAIN sessions = {} /\ Busy = {}
      /\ Len(begun) = 0 /\ Logins = {} /\ DOMAIN established = {}
  BY DEF Busy, Logins
<1>2. Typed
  <2>1. cookie \in [Browsers -> Cookie]
    BY NoCookieIsAnyones
  <2> QED BY <1>1, <2>1 DEF Typed, TablesTyped, Busy
<1>3. Bounded(transactions, MaxTransactions) /\ Bounded(sessions, MaxSessions)
  BY <1>1, OidcAssumption, FS_EmptySet DEF Bounded
<1>4. SessionsMatchLogins /\ OneSessionPerLogin /\ PendingUnused /\ EndedGone /\ ExpiriesAhead
  BY <1>1 DEF SessionsMatchLogins, OneSessionPerLogin, PendingUnused, EndedGone, ExpiriesAhead
<1>5. RequestsFine /\ PoppedOnce /\ CookiesTheirOwn
  BY <1>1, NoCookieIsAnyones DEF RequestsFine, PoppedOnce, CookiesTheirOwn, Exchanging
<1> QED BY <1>2, <1>3, <1>4, <1>5 DEF IInv

LEMMA StepIInv == IInv /\ [Next]_oidcVars => IInv'
<1> SUFFICES ASSUME IInv, [Next]_oidcVars PROVE IInv'
  OBVIOUS
<1>1. ASSUME NEW r \in Requests, Ask(r) PROVE IInv'
  BY <1>1, AskKeeps
<1>2. ASSUME NEW r \in Requests, Handle(r) PROVE IInv'
  BY <1>2, LoginKeeps, UnavailableKeeps, PopKeeps, CompletionKeeps, FailureKeeps, PageKeeps,
     LogoutKeeps DEF Handle
<1>3. ASSUME NEW r \in Requests, Deliver(r) PROVE IInv'
  BY <1>3, DeliverKeeps
<1>4. ASSUME NEW r \in Requests, Lose(r) PROVE IInv'
  BY <1>4, LoseKeeps
<1>5. ASSUME NEW n \in Logins, NEW u \in Users, Authenticate(n, u) PROVE IInv'
  BY <1>5, AuthenticateKeeps
<1>6. CASE Tick
  BY <1>6, TickKeeps
<1>7. CASE Restart
  BY <1>7, RestartKeeps
<1>8. CASE UNCHANGED oidcVars
  BY <1>8, StutterKeeps
<1> QED BY <1>1, <1>2, <1>3, <1>4, <1>5, <1>6, <1>7, <1>8 DEF Next

(***************************************************************************)
(* The inductive invariant holds in every behaviour.                       *)
(***************************************************************************)
THEOREM Invariant == Spec => []IInv
BY InitIInv, StepIInv, PTL DEF Spec

(***************************************************************************)
(* Every variable keeps its type, and neither table grows beyond its cap   *)
(* (begin_login, complete_login).                                          *)
(***************************************************************************)
THEOREM TypeCorrect == Spec => []TypeOK
<1>1. IInv => TypeOK
  <2> SUFFICES ASSUME IInv PROVE TypeOK
    OBVIOUS
  <2>1. request \in [DOMAIN request -> RequestRow]
    BY DEF IInv, Typed, RequestsFine, Fine, Busy
  <2> QED BY <2>1 DEF IInv, Typed, TablesTyped, Bounded, TypeOK, EstablishedRow
<1> QED BY <1>1, Invariant, PTL

(***************************************************************************)
(* Whoever a session is for proved to be that person, for the login the    *)
(* session came from and from the browser that began it.                   *)
(***************************************************************************)
THEOREM SessionsMatch == Spec => []SessionsMatchLogins
<1>1. IInv => SessionsMatchLogins
  BY DEF IInv
<1> QED BY <1>1, Invariant, PTL

(***************************************************************************)
(* No login is completed twice, however its callback is repeated.          *)
(***************************************************************************)
THEOREM LoginsCompleteOnce == Spec => []OneSessionPerLogin
<1>1. IInv => OneSessionPerLogin
  BY DEF IInv
<1> QED BY <1>1, Invariant, PTL

-----------------------------------------------------------------------------
(***************************************************************************)
(* Only get_oidc_user serves a page.                                       *)
(***************************************************************************)
Untouched(r) == r \in Busy /\ r \in DOMAIN request' => request'[r].step = request[r].step

LEMMA OthersUntouched ==
  ASSUME IInv, NEW q \in Busy, NEW login, NEW reply, Answered(q, login, reply), NEW r, r # q
  PROVE  Untouched(r)
BY AnsweredEffect DEF Untouched, Busy

LEMMA ServedByHandler ==
  ASSUME IInv, [Next]_oidcVars, NEW r \in Requests, Served(r)
  PROVE  get_oidc_user(r)
<1>1. /\ r \in Busy /\ r \in DOMAIN request' /\ ~ Untouched(r)
      /\ request[r].op = "page" /\ request[r].step = "sent"
  BY DEF Served, Untouched
<1>2. ASSUME NEW q \in Requests, Handle(q) PROVE get_oidc_user(r)
  <2>1. CASE begin_login(q)
    BY <1>1, <2>1, OthersUntouched DEF begin_login, Handles
  <2>2. CASE login_unavailable(q)
    BY <1>1, <2>2, OthersUntouched DEF login_unavailable, Handles
  <2>3. CASE pop_transaction(q)
    <3>1. q \in Busy /\ q # r
      BY <1>1, <2>3 DEF pop_transaction, Handles
    <3>2. CASE Answered(q, 0, NoCookie)
      BY <1>1, <3>1, <3>2, OthersUntouched
    <3>3. CASE request' = [request EXCEPT ![q].step = "exchanging",
                                         ![q].login = request[q].sent.id]
      BY <1>1, <3>1, <3>3 DEF Untouched, Busy
    <3> QED BY <2>3, <3>2, <3>3 DEF pop_transaction
  <2>4. CASE complete_login(q)
    BY <1>1, <2>4, OthersUntouched DEF complete_login, Handles
  <2>5. CASE exchange_fails(q)
    BY <1>1, <2>5, OthersUntouched DEF exchange_fails, Handles
  <2>6. CASE get_oidc_user(q)
    BY <1>1, <2>6, OthersUntouched DEF get_oidc_user, Handles
  <2>7. CASE clear_login(q)
    BY <1>1, <2>7, OthersUntouched DEF clear_login, Handles
  <2> QED BY <1>2, <2>1, <2>2, <2>3, <2>4, <2>5, <2>6, <2>7 DEF Handle
<1>3. ASSUME NEW q \in Requests, Ask(q) PROVE Untouched(r)
  BY <1>3 DEF Ask, Send, With, Untouched, Busy
<1>4. ASSUME NEW q \in Requests, Deliver(q) \/ Lose(q) PROVE Untouched(r)
  BY <1>4 DEF Deliver, Lose, Without, Untouched, Busy
<1>5. ASSUME NEW n \in Logins, NEW u \in Users, Authenticate(n, u) PROVE Untouched(r)
  BY <1>5 DEF Authenticate, Untouched, Busy
<1>6. ASSUME Tick PROVE Untouched(r)
  BY <1>6 DEF Tick, Untouched, Busy
<1>7. ~ Restart
  BY <1>1 DEF Restart, NoEntries
<1>8. ASSUME UNCHANGED oidcVars PROVE Untouched(r)
  BY <1>8 DEF oidcVars, Untouched, Busy
<1> QED BY <1>1, <1>2, <1>3, <1>4, <1>5, <1>6, <1>7, <1>8 DEF Next

(***************************************************************************)
(* A session that was logged out is served to nobody any more.             *)
(***************************************************************************)
THEOREM LogoutsHold == Spec => LogoutHolds
<1>1. IInv /\ [Next]_oidcVars =>
        [\A r \in Requests : Served(r) => request[r].sent.id \notin ended]_oidcVars
  <2> SUFFICES ASSUME IInv, [Next]_oidcVars, NEW r \in Requests, Served(r)
               PROVE  request[r].sent.id \notin ended
    OBVIOUS
  <2>1. get_oidc_user(r) /\ request[r].sent.id \in DOMAIN sessions'
    BY ServedByHandler DEF Served
  <2>2. DOMAIN sessions' \subseteq DOMAIN sessions
    BY <2>1 DEF get_oidc_user, tables, Live, Without
  <2> QED BY <2>1, <2>2 DEF IInv, EndedGone
<1> QED BY <1>1, Invariant, PTL DEF Spec, LogoutHolds

(***************************************************************************)
(* No page is served to a session older than its lifetime.                 *)
(***************************************************************************)
THEOREM PagesServedInTime == Spec => ServedInTime
<1>1. IInv /\ [Next]_oidcVars =>
        [\A r \in Requests :
           Served(r) => now < established[request[r].sent.id].at + SessionTTL]_oidcVars
  <2> SUFFICES ASSUME IInv, [Next]_oidcVars, NEW r \in Requests, Served(r)
               PROVE  now < established[request[r].sent.id].at + SessionTTL
    OBVIOUS
  <2> DEFINE k == request[r].sent.id
  <2>1. /\ get_oidc_user(r) /\ k \in DOMAIN sessions'
        /\ request[r].sent.holds = "session"
    BY ServedByHandler DEF Served
  <2>2. sessions' = Live(sessions)
    BY <2>1 DEF get_oidc_user
  <2>3. k \in DOMAIN sessions /\ ~ (sessions[k].expires <= now)
    BY <2>1, <2>2 DEF Live, Without
  <2>4. sessions[k].expires \in Nat /\ now \in Nat
    BY <2>3 DEF IInv, Typed, TablesTyped
  <2>5. sessions[k].expires = established[k].at + SessionTTL
    BY <2>3 DEF IInv, SessionsMatchLogins
  <2> QED BY <2>3, <2>4, <2>5
<1> QED BY <1>1, Invariant, PTL DEF Spec, ServedInTime

-----------------------------------------------------------------------------
(***************************************************************************)
(* Which entries a step may take from a table before they expire.          *)
(***************************************************************************)
LEMMA PurgingTakesNone ==
  ASSUME NEW table, NEW i, now \in Nat, table[i].expires \in Nat
  PROVE  ~ Vanishes(table, Live(table), i)
BY DEF Vanishes, Live, Without

LEMMA EvictionMakesRoom ==
  ASSUME NEW table, NEW limit \in Nat \ {0}, DOMAIN table \subseteq Nat,
         table = [i \in DOMAIN table |-> table[i]], now \in Nat,
         \A i \in DOMAIN table : table[i].expires \in Nat, Bounded(table, limit),
         NEW k, k \notin DOMAIN table, NEW entry, entry.expires \in Nat,
         \A i \in DOMAIN table : table[i].expires <= entry.expires,
         NEW next, next = With(Evicted(Live(table), limit), k, entry),
         NEW i, Vanishes(table, next, i)
  PROVE  MadeRoom(table, next, limit, i)
<1> DEFINE live == Live(table)
           kept == Evicted(live, limit)
<1>1. /\ DOMAIN live \subseteq DOMAIN table
      /\ \A j \in DOMAIN live : live[j] = table[j]
      /\ \A j \in DOMAIN table : ~ (table[j].expires <= now) => j \in DOMAIN live
  BY DEF Live, Without
<1>2. Bounded(live, limit) /\ Bounded(next, limit)
  BY PurgedAndEvicted, LiveShrinks, ShrunkBounded
<1> HIDE DEF live
<1>3. IsFiniteSet(DOMAIN live) /\ Cardinality(DOMAIN live) \in Nat
  BY <1>2, FS_CardinalityType DEF Bounded
<1>4. /\ DOMAIN next = DOMAIN kept \cup {k} /\ next[k] = entry
      /\ \A j \in DOMAIN kept : j # k => next[j] = kept[j]
  BY DEF With, live
<1>5. /\ i \in DOMAIN table /\ i \notin DOMAIN next /\ now < table[i].expires
      /\ i \in DOMAIN live /\ i \notin DOMAIN kept
  <2>1. /\ i \in DOMAIN table /\ i \notin DOMAIN next /\ now < table[i].expires
        /\ table[i].expires \in Nat
    BY DEF Vanishes
  <2> QED BY <1>1, <1>4, <2>1
<1>6. Cardinality(DOMAIN live) >= limit /\ kept = Without(live, {Oldest(live)})
  BY <1>5 DEF Evicted
<1> DEFINE o == Oldest(live)
<1>7. o \in DOMAIN live /\ \A j \in DOMAIN live : live[o].expires <= live[j].expires
  BY <1>1, <1>5, OldestExists
<1> HIDE DEF kept
<1>8. DOMAIN kept = DOMAIN live \ {o} /\ \A j \in DOMAIN kept : kept[j] = live[j]
  BY <1>6 DEF Without
<1>9. i = o
  BY <1>5, <1>8
<1> HIDE DEF o
<1>10. Cardinality(DOMAIN next) = limit
  <2>1. IsFiniteSet(DOMAIN kept) /\ Cardinality(DOMAIN kept) = Cardinality(DOMAIN live) - 1
    BY <1>3, <1>7, <1>8, FS_RemoveElement
  <2>2. k \notin DOMAIN kept
    BY <1>1, <1>8
  <2>3. Cardinality(DOMAIN next) = Cardinality(DOMAIN kept) + 1
    BY <1>4, <2>1, <2>2, FS_AddElement
  <2>4. Cardinality(DOMAIN live) <= limit
    BY <1>2 DEF Bounded
  <2> QED BY <1>3, <1>6, <2>1, <2>3, <2>4
<1>11. \A j \in DOMAIN next : table[i].expires <= next[j].expires
  <2> TAKE j \in DOMAIN next
  <2>1. CASE j = k
    BY <1>4, <1>5, <2>1
  <2>2. CASE j # k
    BY <1>1, <1>4, <1>7, <1>8, <1>9, <2>2
  <2> QED BY <2>1, <2>2
<1> QED BY <1>4, <1>10, <1>11 DEF MadeRoom

LoginLeaves(n) ==
  Vanishes(transactions, transactions', n) =>
    \/ MadeRoom(transactions, transactions', MaxTransactions, n)
    \/ TakenBy({"callback", "logout"}, TransactionCookie(n))
    \/ Restarted

SessionLeaves(k) ==
  Vanishes(sessions, sessions', k) =>
    \/ MadeRoom(sessions, sessions', MaxSessions, k)
    \/ TakenBy({"logout"}, SessionCookie(k))
    \/ Restarted

Leaving ==
  /\ \A n \in DOMAIN transactions : LoginLeaves(n)
  /\ \A k \in DOMAIN sessions : SessionLeaves(k)

LEMMA Expiries ==
  ASSUME IInv
  PROVE  /\ now \in Nat /\ DOMAIN transactions \subseteq Nat /\ DOMAIN sessions \subseteq Nat
         /\ \A n \in DOMAIN transactions : transactions[n].expires \in Nat
         /\ \A k \in DOMAIN sessions : sessions[k].expires \in Nat
         /\ transactions = [n \in DOMAIN transactions |-> transactions[n]]
         /\ sessions = [k \in DOMAIN sessions |-> sessions[k]]
         /\ MaxTransactions \in Nat \ {0} /\ MaxSessions \in Nat \ {0}
         /\ SessionTTL \in Nat /\ TransactionTTL \in Nat
<1>1. Logins \subseteq Nat /\ DOMAIN established \subseteq Nat
  BY DEF IInv, Typed, Logins
<1> QED BY <1>1, OidcAssumption DEF IInv, Typed, TablesTyped

LEMMA PurgedLogins ==
  ASSUME IInv, transactions' = Live(transactions)
  PROVE  \A n \in DOMAIN transactions : LoginLeaves(n)
BY Expiries, PurgingTakesNone DEF LoginLeaves

LEMMA PurgedSessions ==
  ASSUME IInv, sessions' = Live(sessions)
  PROVE  \A k \in DOMAIN sessions : SessionLeaves(k)
BY Expiries, PurgingTakesNone DEF SessionLeaves

LEMMA NobodyLeaves ==
  ASSUME UNCHANGED tables
  PROVE  Leaving
BY DEF Leaving, LoginLeaves, SessionLeaves, Vanishes, tables

(***************************************************************************)
(* The request r has taken what its cookie named.                          *)
(***************************************************************************)
LEMMA TakerFound ==
  ASSUME IInv, NEW r \in Busy, NEW ops, request[r].op \in ops, request[r].step = "sent",
         r \in DOMAIN request', request'[r].step # "sent", NEW held, request[r].sent = held
  PROVE  TakenBy(ops, held)
BY DEF TakenBy

LEMMA TransactionNamed ==
  ASSUME NEW c \in Cookie, c.holds = "transaction"
  PROVE  c = TransactionCookie(c.id)
BY DEF Cookie, TransactionCookie

LEMMA SessionNamed ==
  ASSUME NEW c \in Cookie, c.holds = "session"
  PROVE  c = SessionCookie(c.id)
BY DEF Cookie, SessionCookie

LEMMA AnswerTakes ==
  ASSUME IInv, NEW r \in Busy, NEW login, NEW reply, Answered(r, login, reply)
  PROVE  r \in DOMAIN request' /\ request'[r].step # "sent"
<1>1. request'[r] = AnsweredRow(request[r], login, reply) /\ Busy' = Busy
  BY AnsweredEffect
<1>2. request[r] \in RequestRow
  BY HandledRequest
<1> QED BY <1>1, <1>2 DEF AnsweredRow, RequestRow, Busy

LEMMA LoginLeaving ==
  ASSUME IInv, NEW r \in Requests, begin_login(r)
  PROVE  Leaving
<1> DEFINE n == Len(begun) + 1
           entry == [expires |-> now + TransactionTTL]
<1>1. /\ transactions' = With(Evicted(Live(transactions), MaxTransactions), n, entry)
      /\ sessions' = Live(sessions)
  BY DEF begin_login
<1>2. n \notin DOMAIN transactions
  BY DEF IInv, Typed, TablesTyped, Logins
<1>3. /\ entry.expires = now + TransactionTTL /\ entry.expires \in Nat
      /\ \A i \in DOMAIN transactions : transactions[i].expires <= entry.expires
  BY Expiries DEF IInv, ExpiriesAhead
<1> HIDE DEF n, entry
<1>4. \A i \in DOMAIN transactions : LoginLeaves(i)
  BY <1>1, <1>2, <1>3, Expiries, EvictionMakesRoom DEF LoginLeaves, IInv
<1> QED BY <1>1, <1>4, PurgedSessions DEF Leaving

LEMMA CompletionLeaving ==
  ASSUME IInv, NEW r \in Requests, complete_login(r)
  PROVE  Leaving
<1> DEFINE k == Len(established) + 1
           entry == [expires |-> now + SessionTTL, user |-> request[r].answer.user]
<1>1. /\ sessions' = With(Evicted(Live(sessions), MaxSessions), k, entry)
      /\ transactions' = Live(transactions)
  BY DEF complete_login, NewSessionId
<1>2. k \notin DOMAIN sessions
  BY DEF IInv, Typed, TablesTyped
<1>3. /\ entry.expires = now + SessionTTL /\ entry.expires \in Nat
      /\ \A i \in DOMAIN sessions : sessions[i].expires <= entry.expires
  BY Expiries DEF IInv, ExpiriesAhead
<1> HIDE DEF k, entry
<1>4. \A i \in DOMAIN sessions : SessionLeaves(i)
  BY <1>1, <1>2, <1>3, Expiries, EvictionMakesRoom DEF SessionLeaves, IInv
<1> QED BY <1>1, <1>4, PurgedLogins DEF Leaving

LEMMA PopLeaving ==
  ASSUME IInv, NEW r \in Requests, pop_transaction(r)
  PROVE  Leaving
<1> DEFINE sent == request[r].sent
<1>1. /\ r \in Busy /\ request[r].op = "callback" /\ request[r].step = "sent"
      /\ request[r] \in RequestRow /\ sent \in Cookie
  BY HandledRequest DEF pop_transaction, Handles
<1>2. r \in DOMAIN request' /\ request'[r].step # "sent"
  <2>1. CASE request' = [request EXCEPT ![r].step = "exchanging", ![r].login = sent.id]
    BY <1>1, <2>1 DEF Busy, RequestRow
  <2>2. CASE Answered(r, 0, NoCookie)
    BY <1>1, <2>2, AnswerTakes
  <2> QED BY <2>1, <2>2 DEF pop_transaction
<1>3. CASE /\ sent.holds = "transaction"
           /\ sessions' = Live(sessions)
           /\ transactions' = Without(Live(transactions), {sent.id})
  <2>1. ASSUME NEW n \in DOMAIN transactions, Vanishes(transactions, transactions', n)
        PROVE  n = sent.id
    BY <1>3, <2>1, Expiries DEF Vanishes, Live, Without
  <2>2. TakenBy({"callback", "logout"}, TransactionCookie(sent.id))
    BY <1>1, <1>2, <1>3, TakerFound, TransactionNamed
  <2> QED BY <1>3, <2>1, <2>2, PurgedSessions DEF Leaving, LoginLeaves
<1>4. CASE UNCHANGED tables
  BY <1>4, NobodyLeaves
<1> QED BY <1>3, <1>4 DEF pop_transaction

LEMMA LogoutLeaving ==
  ASSUME IInv, NEW r \in Requests, clear_login(r)
  PROVE  Leaving
<1> DEFINE sent == request[r].sent
<1>1. /\ r \in Busy /\ request[r].op = "logout" /\ request[r].step = "sent" /\ sent \in Cookie
      /\ r \in DOMAIN request' /\ request'[r].step # "sent"
  BY HandledRequest, AnswerTakes DEF clear_login, Handles
<1>2. ASSUME NEW n \in DOMAIN transactions, Vanishes(transactions, transactions', n)
      PROVE  TakenBy({"callback", "logout"}, TransactionCookie(n))
  <2>1. sent.holds = "transaction" /\ n = sent.id
    BY <1>2 DEF clear_login, Vanishes, Without
  <2> QED BY <1>1, <2>1, TakerFound, TransactionNamed
<1>3. ASSUME NEW k \in DOMAIN sessions, Vanishes(sessions, sessions', k)
      PROVE  TakenBy({"logout"}, SessionCookie(k))
  <2>1. sent.holds = "session" /\ k = sent.id
    BY <1>3 DEF clear_login, Vanishes, Without
  <2> QED BY <1>1, <2>1, TakerFound, SessionNamed
<1> QED BY <1>2, <1>3 DEF Leaving, LoginLeaves, SessionLeaves

(***************************************************************************)
(* Unexpired entries leave the tables under pressure only in the order of  *)
(* their expiry, or by whoever holds them, or by a restart.                *)
(***************************************************************************)
THEOREM EntriesLeave == Spec => EntriesLeaveForAReason
<1>1. IInv /\ [Next]_oidcVars => [Leaving]_oidcVars
  <2> SUFFICES ASSUME IInv, [Next]_oidcVars PROVE Leaving
    OBVIOUS
  <2>1. ASSUME NEW r \in Requests, Handle(r) PROVE Leaving
    <3>1. CASE begin_login(r)
      BY <3>1, LoginLeaving
    <3>2. CASE login_unavailable(r) \/ exchange_fails(r)
      BY <3>2, NobodyLeaves DEF login_unavailable, exchange_fails
    <3>3. CASE pop_transaction(r)
      BY <3>3, PopLeaving
    <3>4. CASE complete_login(r)
      BY <3>4, CompletionLeaving
    <3>5. CASE get_oidc_user(r)
      BY <3>5, NobodyLeaves, PurgedLogins, PurgedSessions DEF get_oidc_user, Leaving
    <3>6. CASE clear_login(r)
      BY <3>6, LogoutLeaving
    <3> QED BY <2>1, <3>1, <3>2, <3>3, <3>4, <3>5, <3>6 DEF Handle
  <2>2. ASSUME NEW r \in Requests, Ask(r) PROVE UNCHANGED tables
    BY <2>2 DEF Ask, Send
  <2>3. ASSUME NEW r \in Requests, Deliver(r) \/ Lose(r) PROVE UNCHANGED tables
    BY <2>3 DEF Deliver, Lose
  <2>4. ASSUME NEW n \in Logins, NEW u \in Users, Authenticate(n, u) PROVE UNCHANGED tables
    BY <2>4 DEF Authenticate
  <2>5. ASSUME Tick \/ UNCHANGED oidcVars PROVE UNCHANGED tables
    BY <2>5 DEF Tick, oidcVars
  <2>6. ASSUME Restart PROVE Leaving
    BY <2>6 DEF Restart, Restarted, Leaving, LoginLeaves, SessionLeaves
  <2> QED BY <2>1, <2>2, <2>3, <2>4, <2>5, <2>6, NobodyLeaves DEF Next
<1> QED BY <1>1, Invariant, PTL
        DEF Spec, EntriesLeaveForAReason, Leaving, LoginLeaves, SessionLeaves

-----------------------------------------------------------------------------
(***************************************************************************)
(* The refinement of SignIn: what its variables stand for.                 *)
(***************************************************************************)
Who == [b \in Browsers |-> IF SignedIn(b) THEN sessions[cookie[b].id].user ELSE NoOne]
Proved == [b \in Browsers |-> {a.user : a \in {c \in answers : begun[c.login] = b}}]

LEMMA ProofsStand ==
  ASSUME IInv, UNCHANGED answers, \A n \in Logins : begun'[n] = begun[n]
  PROVE  Proved' = Proved
<1>1. \A a \in answers : a.login \in Logins
  BY DEF IInv, Typed, Answer
<1>2. \A b : {c \in answers' : begun'[c.login] = b} = {c \in answers : begun[c.login] = b}
  BY <1>1
<1> QED BY <1>2 DEF Proved

LEMMA SomeLeave ==
  ASSUME Proved' = Proved, \A b \in Browsers : Who'[b] = Who[b] \/ Who'[b] = NoOne
  PROVE  Promise!Next
<1> PICK S : S = {b \in Browsers : Who'[b] # Who[b]}
  OBVIOUS
<1>1. Who' = [b \in Browsers |-> Who'[b]]
  BY DEF Who
<1>2. Who' = [b \in Browsers |-> IF b \in S THEN NoOne ELSE Who[b]]
  BY <1>1
<1>3. S \in SUBSET Browsers
  OBVIOUS
<1>4. Promise!Leave(S)
  BY <1>2 DEF Promise!Leave, Who, Proved
<1> QED BY <1>3, <1>4 DEF Promise!Next

(***************************************************************************)
(* Nobody is signed in by what happens to the tables and the clock alone.  *)
(***************************************************************************)
LEMMA TablesSignNobodyIn ==
  ASSUME IInv, UNCHANGED <<cookie, answers>>, \A n \in Logins : begun'[n] = begun[n],
         now' \in Nat, now <= now',
         \A k \in DOMAIN sessions' :
           k \in DOMAIN established => k \in DOMAIN sessions /\ sessions'[k] = sessions[k]
  PROVE  Promise!Next
<1>1. Proved' = Proved
  BY ProofsStand
<1>2. ASSUME NEW b \in Browsers, Who'[b] # NoOne
      PROVE  Who'[b] = Who[b]
  <2>1. SignedIn(b)' /\ Who'[b] = sessions'[cookie[b].id].user
    BY <1>2 DEF Who
  <2>2. /\ cookie[b].holds = "session" /\ cookie[b].id \in DOMAIN sessions'
        /\ now' < sessions'[cookie[b].id].expires
    BY <2>1 DEF SignedIn
  <2>3. cookie[b].id \in DOMAIN established
    BY <2>2 DEF IInv, Typed, Cookie
  <2>4. cookie[b].id \in DOMAIN sessions /\ sessions'[cookie[b].id] = sessions[cookie[b].id]
    BY <2>2, <2>3
  <2>5. sessions[cookie[b].id].expires \in Nat /\ now \in Nat
    BY <2>4, Expiries
  <2>6. SignedIn(b)
    BY <2>2, <2>4, <2>5 DEF SignedIn
  <2> QED BY <2>1, <2>4, <2>6 DEF Who
<1> QED BY <1>1, <1>2, SomeLeave

(***************************************************************************)
(* Only a delivered answer signs somebody in, and only as the user of a    *)
(* session that was established in that browser.                           *)
(***************************************************************************)
LEMMA DeliveryEnters ==
  ASSUME IInv, NEW r \in Requests, Deliver(r)
  PROVE  Promise!Next
<1> PICK b, c : b = request[r].by /\ c = request[r].reply
  OBVIOUS
<1>1. /\ r \in Busy /\ UNCHANGED <<now, tables, begun, answers>>
      /\ b \in Browsers /\ c \in Cookie /\ Own(b, c) /\ cookie \in [Browsers -> Cookie]
      /\ \/ cookie' = cookie
         \/ cookie' = [cookie EXCEPT ![b] = c]
  BY HandledRequest DEF Deliver, IInv, Typed
<1>2. Proved' = Proved
  BY <1>1, ProofsStand
<1>3. ASSUME NEW d \in Browsers, d # b \/ cookie' = cookie
      PROVE  Who'[d] = Who[d]
  BY <1>1, <1>3 DEF Who, SignedIn, tables
<1>4. CASE Who'[b] = NoOne \/ cookie' = cookie
  BY <1>1, <1>2, <1>3, <1>4, SomeLeave
<1>5. CASE Who'[b] # NoOne /\ cookie' = [cookie EXCEPT ![b] = c]
  <2>1. /\ SignedIn(b)' /\ cookie'[b] = c
        /\ Who'[b] = sessions[c.id].user
    BY <1>1, <1>5 DEF Who, tables
  <2>2. c.holds = "session" /\ c.id \in DOMAIN sessions
    BY <1>1, <2>1 DEF SignedIn, tables
  <2> PICK u : u = sessions[c.id].user
    OBVIOUS
  <2>3. /\ c.id \in DOMAIN established /\ u = established[c.id].user /\ u \in Users
        /\ established[c.id].by = b
        /\ [login |-> established[c.id].login, user |-> u] \in answers
        /\ begun[established[c.id].login] = b
    BY <1>1, <2>2 DEF IInv, Typed, TablesTyped, SessionsMatchLogins, Own
  <2>4. u \in Proved[b]
    <3> DEFINE a == [login |-> established[c.id].login, user |-> u]
    <3>1. a \in {e \in answers : begun[e.login] = b} /\ a.user = u
      BY <2>3
    <3>2. u \in {e.user : e \in {e \in answers : begun[e.login] = b}}
      BY <3>1
    <3> QED BY <1>1, <3>2 DEF Proved
  <2>5. Who' = [Who EXCEPT ![b] = u]
    <3>1. Who' = [d \in Browsers |-> Who'[d]] /\ Who = [d \in Browsers |-> Who[d]]
      BY DEF Who
    <3>2. \A d \in Browsers : Who'[d] = IF d = b THEN u ELSE Who[d]
      BY <1>3, <2>1
    <3> QED BY <3>1, <3>2
  <2>6. Promise!EnterAs(b, u)
    BY <1>2, <2>4, <2>5 DEF Promise!EnterAs, Who, Proved
  <2> QED BY <1>1, <2>3, <2>6 DEF Promise!Next
<1> QED BY <1>1, <1>4, <1>5

LEMMA AuthenticationProves ==
  ASSUME IInv, NEW n \in Logins, NEW u \in Users, Authenticate(n, u)
  PROVE  Promise!Next
<1> DEFINE a == [login |-> n, user |-> u]
<1> PICK b : b = begun[n]
  OBVIOUS
<1>1. /\ answers' = answers \cup {a} /\ a.login = n /\ a.user = u
      /\ UNCHANGED <<now, tables, cookie, begun>>
  BY DEF Authenticate
<1>2. b \in Browsers
  BY DEF IInv, Typed, Logins
<1> HIDE DEF a
<1>3. ASSUME NEW d \in Browsers
      PROVE  Proved'[d] = IF d = b THEN Proved[d] \cup {u} ELSE Proved[d]
  <2>1. {c \in answers' : begun'[c.login] = d} =
          {c \in answers : begun[c.login] = d} \cup (IF d = b THEN {a} ELSE {})
    BY <1>1
  <2> QED BY <1>1, <2>1 DEF Proved
<1>4. Proved' = [Proved EXCEPT ![b] = @ \cup {u}]
  <2>1. Proved' = [d \in Browsers |-> Proved'[d]] /\ Proved = [d \in Browsers |-> Proved[d]]
    BY DEF Proved
  <2> QED BY <1>2, <1>3, <2>1
<1>5. Who' = Who
  BY <1>1 DEF Who, SignedIn, tables
<1>6. Promise!Prove(b, u)
  BY <1>4, <1>5 DEF Promise!Prove, Who, Proved
<1> QED BY <1>2, <1>6 DEF Promise!Next

(***************************************************************************)
(* The cookies and the tables implement SignIn: a browser is signed in     *)
(* only as somebody who proved to be that person from it, and no step      *)
(* changes that for two browsers except by signing them out.               *)
(***************************************************************************)
THEOREM Implements == Spec => ImplementsSignIn
<1>1. Init => Promise!Init
  <2> SUFFICES ASSUME Init PROVE Promise!Init
    OBVIOUS
  <2>1. \A b \in Browsers : ~ SignedIn(b)
    BY DEF Init, SignedIn, NoCookie
  <2> QED BY <2>1 DEF Init, Promise!Init
<1>2. IInv /\ [Next]_oidcVars => [Promise!Next]_<<Who, Proved>>
  <2> SUFFICES ASSUME IInv, [Next]_oidcVars
               PROVE  Promise!Next \/ UNCHANGED <<Who, Proved>>
    OBVIOUS
  <2>1. ASSUME NEW r \in Requests, Handle(r) PROVE Promise!Next
    <3>1. CASE begin_login(r)
      <4>1. /\ begun' = Append(begun, request[r].by) /\ sessions' = Live(sessions) /\ r \in Busy
            /\ UNCHANGED <<now, cookie, answers>>
        BY <3>1 DEF begin_login, Handles
      <4>2. \A n \in Logins : begun'[n] = begun[n]
        <5>1. begun \in Seq(Browsers) /\ request[r].by \in Browsers
          BY <4>1, HandledRequest DEF IInv, Typed
        <5> QED BY <4>1, <5>1, Appended DEF Logins
      <4>3. \A k \in DOMAIN sessions' : k \in DOMAIN sessions /\ sessions'[k] = sessions[k]
        BY <4>1, LiveShrinks DEF Shrunk
      <4>4. now' \in Nat /\ now <= now'
        BY <4>1, Expiries
      <4> QED BY <4>1, <4>2, <4>3, <4>4, TablesSignNobodyIn
    <3>2. CASE complete_login(r)
      <4> DEFINE k == Len(established) + 1
                 kept == Evicted(Live(sessions), MaxSessions)
      <4>1. /\ DOMAIN sessions' = DOMAIN kept \cup {k}
            /\ \A j \in DOMAIN kept : j # k => sessions'[j] = kept[j]
            /\ UNCHANGED <<now, cookie, begun, answers>>
        BY <3>2 DEF complete_login, With, NewSessionId
      <4>2. k \notin DOMAIN established
        BY DEF IInv, Typed
      <4>3. Shrunk(sessions, kept)
        BY Expiries, PurgedAndEvicted DEF IInv
      <4> HIDE DEF k, kept
      <4> QED BY <4>1, <4>2, <4>3, Expiries, TablesSignNobodyIn DEF Shrunk
    <3>3. CASE login_unavailable(r) \/ exchange_fails(r) \/ get_oidc_user(r)
                 \/ pop_transaction(r)
      <4>1. UNCHANGED <<now, cookie, history>>
        BY <3>3 DEF login_unavailable, exchange_fails, get_oidc_user, pop_transaction
      <4>2. sessions' = sessions \/ sessions' = Live(sessions)
        BY <3>3 DEF login_unavailable, exchange_fails, get_oidc_user, pop_transaction, tables
      <4> QED BY <4>1, <4>2, LiveShrinks, Expiries, TablesSignNobodyIn DEF Shrunk, history
    <3>4. CASE clear_login(r)
      <4>1. UNCHANGED <<now, cookie, begun, answers>>
        BY <3>4 DEF clear_login
      <4>2. Shrunk(sessions, sessions')
        BY <3>4, WithoutShrinks DEF clear_login
      <4> QED BY <4>1, <4>2, Expiries, TablesSignNobodyIn DEF Shrunk
    <3> QED BY <2>1, <3>1, <3>2, <3>3, <3>4 DEF Handle
  <2>2. ASSUME NEW r \in Requests, Deliver(r) PROVE Promise!Next
    BY <2>2, DeliveryEnters
  <2>3. ASSUME NEW n \in Logins, NEW u \in Users, Authenticate(n, u) PROVE Promise!Next
    BY <2>3, AuthenticationProves
  <2>4. ASSUME Tick PROVE Promise!Next
    BY <2>4, Expiries, TablesSignNobodyIn DEF Tick, tables, history
  <2>5. ASSUME Restart PROVE Promise!Next
    BY <2>5, Expiries, TablesSignNobodyIn DEF Restart, history, NoEntries
  <2>6. ASSUME NEW r \in Requests, Ask(r) \/ Lose(r)
        PROVE  UNCHANGED <<now, sessions, cookie, begun, answers>>
    BY <2>6 DEF Ask, Send, Lose, tables, history
  <2>7. ASSUME UNCHANGED oidcVars
        PROVE  UNCHANGED <<now, sessions, cookie, begun, answers>>
    BY <2>7 DEF oidcVars, tables, history
  <2>8. ASSUME UNCHANGED <<now, sessions, cookie, begun, answers>>
        PROVE  UNCHANGED <<Who, Proved>>
    BY <2>8 DEF Who, Proved, SignedIn
  <2> QED BY <2>1, <2>2, <2>3, <2>4, <2>5, <2>6, <2>7, <2>8 DEF Next
<1> QED BY <1>1, <1>2, Invariant, PTL
        DEF Spec, ImplementsSignIn, Promise!Spec, Who, Proved
===============================================================================
