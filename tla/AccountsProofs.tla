--------------------------- MODULE AccountsProofs ---------------------------
(***************************************************************************)
(* Proofs about Accounts, for any number of connections, accounts, keys    *)
(* and functions, any sets of scopes, and with failing queries.            *)
(***************************************************************************)
EXTENDS Accounts, TLAPS

Guarded == KeyRoutes \cup FunctionRoutes

\* The request on connection c: past the guards it acts for the account its
\* credential stands for, with the credential's scopes, and these cover the route's.
\* A request that arrived with a revoked key is still before the guard.
ReqInv(c) ==
    /\ req[c].late => req[c].pc = "guard" /\ keys[req[c].cred.id].st = "revoked"
    /\ req[c].pc # "idle" => /\ req[c].ans = "none"
                             /\ req[c].route \in Routes
                             /\ req[c].arg \in Arguments(req[c].route)
    /\ req[c].pc = "guard" => req[c].cred.kind = "key" /\ req[c].route \in Guarded
    /\ req[c].pc = "revoke" => req[c].route = "revokeApiKey"
    /\ req[c].pc \in {"handler", "revoke"} /\ req[c].route \in Guarded =>
         /\ req[c].user.id \in users
         /\ req[c].user.id = Owner(req[c].cred)
         /\ req[c].user.scopes = Granted(req[c].cred)
         /\ Required(req[c].route) \subseteq req[c].user.scopes
         /\ req[c].cred.kind = "key" => keys[req[c].cred.id].st # "none"

\* A live key belongs to an account.
KeysOwned == \A k \in Keys : keys[k].st = "live" => keys[k].owner \in users

AccountInv == TypeOK /\ KeysOwned /\ \A c \in Conns : ReqInv(c)

-----------------------------------------------------------------------------
(* Lemmas about the model's operators.                                     *)

\* A credential of kind "key" names a key.
LEMMA KeyCredential ==
    ASSUME NEW cred \in Credentials
    PROVE  /\ cred.kind = "key" => cred.id \in Keys
           /\ cred.kind \in {"none", "jwt", "key"}
  BY DEF Credentials

\* What the routes are about, and which scopes they require.
LEMMA RouteFacts ==
    /\ \A route \in OpenRoutes : Arguments(route) = Users
    /\ Arguments("revokeApiKey") = Keys
    /\ \A route \in FunctionRoutes \ {"list"} : Arguments(route) = Names
    /\ Required("create") = {"functions:write"} /\ Required("remove") = {"functions:write"}
    /\ \A route \in Routes : Required(route) \subseteq Scopes
    /\ OpenRoutes \cap Guarded = {}
<1> USE DEF OpenRoutes, KeyRoutes, FunctionRoutes, Guarded, Routes
<1>1. /\ \A route \in OpenRoutes : Arguments(route) = Users
      /\ Arguments("revokeApiKey") = Keys
      /\ \A route \in FunctionRoutes \ {"list"} : Arguments(route) = Names
  BY DEF Arguments
<1>2. Required("create") = {"functions:write"} /\ Required("remove") = {"functions:write"}
  BY DEF Required
<1>3. \A route \in Routes : Required(route) \subseteq Scopes
  BY DEF Required, Scopes
<1> QED BY <1>1, <1>2, <1>3

\* A fresh request, before its pc is set.
LEMMA FreshFacts ==
    ASSUME NEW route \in Routes, NEW arg \in Arguments(route),
           NEW kind, NEW id, [kind |-> kind, id |-> id] \in Credentials
    PROVE  LET s == Fresh(route, arg, kind, id) IN
           /\ s \in Requests /\ s.route = route /\ s.arg = arg
           /\ s.cred = [kind |-> kind, id |-> id] /\ s.user = Nobody
           /\ ~s.late /\ s.ans = "none"
<1> DEFINE cred == [kind |-> kind, id |-> id]
           args == (UNION {Arguments(rt) : rt \in Routes}) \cup {NoOne}
<1>1. arg \in args /\ NoOne \in args
  <2>1. Arguments(route) \in {Arguments(rt) : rt \in Routes}
    OBVIOUS
  <2> QED BY <2>1
<1>2. NoCredential \in Credentials /\ cred \in Credentials
  BY DEF NoCredential, Credentials
<1>3. Nobody \in [id : Users \cup {NoOne}, scopes : SUBSET Scopes]
  BY DEF Nobody
<1> HIDE DEF args, cred
<1>4. Requests = [pc : {"idle", "guard", "handler", "revoke"}, route : Routes \cup {"none"},
                  arg : args, cred : Credentials,
                  user : [id : Users \cup {NoOne}, scopes : SUBSET Scopes],
                  late : BOOLEAN, ans : Statuses \cup {"none"}]
  BY DEF Requests, args
<1>5. /\ Idle \in Requests /\ Idle.user = Nobody /\ Idle.late = FALSE /\ Idle.ans = "none"
  BY <1>1, <1>2, <1>3, <1>4 DEF Idle
<1>6. Fresh(route, arg, kind, id) = [Idle EXCEPT !.route = route, !.arg = arg, !.cred = cred]
  BY DEF Fresh, cred
<1> DEFINE s == [Idle EXCEPT !.route = route, !.arg = arg, !.cred = cred]
<1>7. /\ s \in Requests /\ s.route = route /\ s.arg = arg /\ s.cred = cred /\ s.user = Nobody
      /\ ~s.late /\ s.ans = "none"
  BY <1>1, <1>2, <1>4, <1>5
<1> HIDE DEF s
<1> QED BY <1>6, <1>7 DEF s, cred

\* An idle connection with an answer.
LEMMA AnsweredFacts ==
    ASSUME NEW status \in Statuses
    PROVE  LET s == [Idle EXCEPT !.ans = status] IN
           s \in Requests /\ s.pc = "idle" /\ ~s.late /\ s.ans = status
<1> DEFINE args == (UNION {Arguments(rt) : rt \in Routes}) \cup {NoOne}
<1>1. NoOne \in args
  OBVIOUS
<1>2. NoCredential \in Credentials /\ Nobody \in [id : Users \cup {NoOne}, scopes : SUBSET Scopes]
  BY DEF Nobody, NoCredential, Credentials
<1> HIDE DEF args
<1>3. Requests = [pc : {"idle", "guard", "handler", "revoke"}, route : Routes \cup {"none"},
                  arg : args, cred : Credentials,
                  user : [id : Users \cup {NoOne}, scopes : SUBSET Scopes],
                  late : BOOLEAN, ans : Statuses \cup {"none"}]
  BY DEF Requests, args
<1>4. Idle \in Requests /\ Idle.pc = "idle" /\ Idle.late = FALSE
  BY <1>1, <1>2, <1>3 DEF Idle
<1> QED BY <1>3, <1>4

\* How the parts of a request that the invariant reads are typed.
LEMMA RequestFacts ==
    ASSUME NEW s \in Requests
    PROVE  /\ s.cred \in Credentials
           /\ s.user \in [id : Users \cup {NoOne}, scopes : SUBSET Scopes]
           /\ s.pc \in {"idle", "guard", "handler", "revoke"}
           /\ s.late \in BOOLEAN
           /\ [s EXCEPT !.ans = "none"] \in Requests
           /\ [s EXCEPT !.pc = "revoke"] \in Requests
  BY DEF Requests

-----------------------------------------------------------------------------
(* What a step does to the requests it is not about.                       *)

\* Rows of api_keys are not reused, do not change owner or scopes, and stay revoked.
KeysMove ==
    \A k \in Keys : keys[k].st # "none" =>
        /\ keys'[k].owner = keys[k].owner /\ keys'[k].scopes = keys[k].scopes
        /\ keys'[k].st # "none" /\ (keys[k].st = "revoked" => keys'[k].st = "revoked")

\* A request that a step leaves alone, except for dropping its last answer.
LEMMA StableRequest ==
    ASSUME AccountInv, NEW c \in Conns, users \subseteq users', KeysMove,
           req'[c] = req[c] \/ req'[c] = [req[c] EXCEPT !.ans = "none"]
    PROVE  req'[c] \in Requests /\ ReqInv(c)'
<1>1. req[c] \in Requests /\ ReqInv(c)
  BY DEF AccountInv, TypeOK
<1>2. /\ req'[c] \in Requests
      /\ req'[c].late = req[c].late /\ req'[c].pc = req[c].pc /\ req'[c].route = req[c].route
      /\ req'[c].arg = req[c].arg /\ req'[c].cred = req[c].cred /\ req'[c].user = req[c].user
      /\ req'[c].ans \in {req[c].ans, "none"}
  <2> DEFINE s == [req[c] EXCEPT !.ans = "none"]
  <2>1. /\ s \in Requests
        /\ s.late = req[c].late /\ s.pc = req[c].pc /\ s.route = req[c].route
        /\ s.arg = req[c].arg /\ s.cred = req[c].cred /\ s.user = req[c].user /\ s.ans = "none"
    BY <1>1 DEF Requests
  <2> HIDE DEF s
  <2> QED BY <1>1, <2>1 DEF s
<1>3. req[c].cred.kind = "key" => req[c].cred.id \in Keys
  BY <1>1, RequestFacts, KeyCredential
<1>4. req'[c].late => req'[c].pc = "guard" /\ keys'[req'[c].cred.id].st = "revoked"
  BY <1>1, <1>2, <1>3 DEF ReqInv, KeysMove
<1>5. ASSUME req[c].pc \in {"handler", "revoke"}, req[c].route \in Guarded
      PROVE  /\ req'[c].user.id \in users'
             /\ req'[c].user.id = Owner(req[c].cred)'
             /\ req'[c].user.scopes = Granted(req[c].cred)'
             /\ Required(req'[c].route) \subseteq req'[c].user.scopes
             /\ req'[c].cred.kind = "key" => keys'[req'[c].cred.id].st # "none"
  BY <1>1, <1>2, <1>3, <1>5 DEF ReqInv, KeysMove, Owner, Granted
<1> QED BY <1>1, <1>2, <1>4, <1>5 DEF ReqInv

\* A request is answered: its connection is free, and the others go on as before.
LEMMA AfterAnswer ==
    ASSUME AccountInv, NEW c \in Conns, NEW status \in Statuses, Answer(c, status),
           users \subseteq users', KeysMove
    PROVE  /\ req' \in [Conns -> Requests] /\ \A d \in Conns : ReqInv(d)'
           /\ req'[c].pc = "idle" /\ req'[c].ans = status
           /\ \A d \in Conns : d # c => req'[d].ans = "none"
<1>1. req' = [d \in Conns |-> IF d = c THEN [Idle EXCEPT !.ans = status]
                             ELSE [req[d] EXCEPT !.ans = "none"]]
  BY DEF Answer
<1>2. ASSUME NEW d \in Conns, d # c
      PROVE  req'[d] \in Requests /\ ReqInv(d)' /\ req'[d].ans = "none"
  <2>1. req'[d] = [req[d] EXCEPT !.ans = "none"] /\ req[d] \in Requests
    BY <1>1, <1>2 DEF AccountInv, TypeOK
  <2> QED BY <2>1, StableRequest DEF Requests
<1>3. req'[c] = [Idle EXCEPT !.ans = status]
  BY <1>1
<1>4. req'[c] \in Requests /\ req'[c].pc = "idle" /\ ~req'[c].late /\ req'[c].ans = status
  BY <1>3, AnsweredFacts
<1>5. ReqInv(c)'
  BY <1>4 DEF ReqInv
<1>6. req' = [d \in Conns |-> req'[d]]
  BY <1>1
<1> QED BY <1>2, <1>4, <1>5, <1>6

\* A request goes on as the record s.
LEMMA AfterOne ==
    ASSUME AccountInv, NEW c \in Conns, NEW s \in Requests, req' = [req EXCEPT ![c] = s],
           users \subseteq users', KeysMove, ReqInv(c)'
    PROVE  req' \in [Conns -> Requests] /\ \A d \in Conns : ReqInv(d)'
<1>1. req \in [Conns -> Requests]
  BY DEF AccountInv, TypeOK
<1>2. req' \in [Conns -> Requests] /\ \A d \in Conns : d # c => req'[d] = req[d]
  BY <1>1
<1> QED BY <1>2, StableRequest

\* A step that leaves accounts and keys alone.
LEMMA SameTables ==
    ASSUME users' = users, keys' = keys
    PROVE  users \subseteq users' /\ KeysMove
  BY DEF KeysMove

\* The invariant, once the requests are taken care of and the tables are as they were.
LEMMA OnlyRequests ==
    ASSUME AccountInv, UNCHANGED <<users, keys, fns, sessions>>, touched' \subseteq Keys,
           req' \in [Conns -> Requests], \A d \in Conns : ReqInv(d)'
    PROVE  AccountInv'
  BY DEF AccountInv, TypeOK, KeysOwned

\* A handler that only reads ends with its answer.
LEMMA AnswerOnly ==
    ASSUME AccountInv, NEW c \in Conns, NEW status \in Statuses, Answer(c, status),
           UNCHANGED <<users, keys, fns, sessions>>, touched' \subseteq Keys
    PROVE  AccountInv'
<1>1. users \subseteq users' /\ KeysMove
  BY SameTables
<1>2. req' \in [Conns -> Requests] /\ \A d \in Conns : ReqInv(d)'
  BY <1>1, AfterAnswer
<1> QED BY <1>2, OnlyRequests

\* Reply is one of two answers.
LEMMA ReplyFacts ==
    ASSUME NEW c \in Conns, NEW status \in Statuses, Reply(c, status)
    PROVE  \E a \in Statuses : a \in {status, "500"} /\ Answer(c, a)
  BY DEF Reply, Statuses

-----------------------------------------------------------------------------
(* The steps.                                                              *)

\* The guards: an admitted request has the account and the scopes of its credential.
LEMMA AdmitKeeps ==
    ASSUME AccountInv, NEW c \in Conns, NEW r \in Requests, r.route \in Guarded,
           r.arg \in Arguments(r.route), r.ans = "none", ~r.late,
           NEW u \in users, NEW scopes \in SUBSET Scopes,
           u = Owner(r.cred), scopes = Granted(r.cred),
           r.cred.kind = "key" => keys[r.cred.id].st # "none",
           Admit(c, r, [id |-> u, scopes |-> scopes]),
           UNCHANGED <<users, keys, fns, sessions>>, touched' \subseteq Keys
    PROVE  AccountInv'
<1>1. CASE Required(r.route) \subseteq scopes
  <2> DEFINE user == [id |-> u, scopes |-> scopes]
             s == [r EXCEPT !.pc = "handler", !.user = user]
  <2>1. req' = [req EXCEPT ![c] = s]
    BY <1>1 DEF Admit
  <2>2. user \in [id : Users \cup {NoOne}, scopes : SUBSET Scopes] /\ user.id = u /\ user.scopes = scopes
    BY DEF AccountInv, TypeOK
  <2> HIDE DEF user
  <2>3. /\ s \in Requests /\ s.pc = "handler" /\ s.user = user /\ s.cred = r.cred
        /\ s.route = r.route /\ s.arg = r.arg /\ s.ans = "none" /\ ~s.late
    BY <2>2 DEF Requests
  <2> HIDE DEF s
  <2>4. req'[c] = s
    BY <2>1 DEF AccountInv, TypeOK
  <2>5. Owner(req[c].cred)' = u /\ Granted(req[c].cred)' = scopes
    BY <2>3, <2>4 DEF Owner, Granted
  <2>6. ReqInv(c)'
    BY <1>1, <2>2, <2>3, <2>4, <2>5 DEF ReqInv, Routes, Guarded
  <2>7. req' \in [Conns -> Requests] /\ \A d \in Conns : ReqInv(d)'
    BY <2>1, <2>3, <2>6, SameTables, AfterOne
  <2> QED BY <2>7, OnlyRequests
<1>2. CASE ~(Required(r.route) \subseteq scopes)
  <2>1. Answer(c, "403") /\ "403" \in Statuses
    BY <1>2 DEF Admit, Statuses
  <2> QED BY <2>1, AnswerOnly
<1> QED BY <1>1, <1>2

\* A request arrives.
LEMMA ArriveKeeps ==
    ASSUME AccountInv, NEW c \in Conns, Arrive(c) PROVE AccountInv'
<1> USE DEF tables
<1>1. touched \subseteq Keys /\ sessions \subseteq users /\ users \subseteq Users /\ keys \in [Keys -> KeyRow]
  BY DEF AccountInv, TypeOK
<1>2. ASSUME NEW route \in OpenRoutes, NEW u \in Users, ArriveOpenly(c, route, u) PROVE AccountInv'
  <2> DEFINE f == Fresh(route, u, "none", NoOne)
             s == [f EXCEPT !.pc = "handler"]
  <2>1. req' = [req EXCEPT ![c] = s] /\ UNCHANGED <<users, keys, fns, sessions, touched>>
    BY <1>2 DEF ArriveOpenly
  <2>2. route \in Routes /\ u \in Arguments(route) /\ [kind |-> "none", id |-> NoOne] \in Credentials
    BY RouteFacts DEF Routes, Credentials
  <2>3. f \in Requests /\ f.route = route /\ f.arg = u /\ ~f.late /\ f.ans = "none"
    BY <2>2, FreshFacts
  <2> HIDE DEF f
  <2>4. /\ s \in Requests /\ s.pc = "handler" /\ s.route = route /\ s.arg = u
        /\ ~s.late /\ s.ans = "none"
    BY <2>3 DEF Requests
  <2> HIDE DEF s
  <2>5. req'[c] = s
    BY <2>1 DEF AccountInv, TypeOK
  <2>6. route \notin Guarded
    BY RouteFacts
  <2>7. ReqInv(c)'
    BY <2>2, <2>4, <2>5, <2>6 DEF ReqInv
  <2>8. req' \in [Conns -> Requests] /\ \A d \in Conns : ReqInv(d)'
    BY <2>1, <2>4, <2>7, SameTables, AfterOne
  <2> QED BY <1>1, <2>1, <2>8, OnlyRequests
<1>3. ASSUME NEW route \in Guarded, NEW arg \in Arguments(route), NEW k \in Keys,
             ArriveWithKey(c, route, arg, k)
      PROVE  AccountInv'
  <2> DEFINE f == Fresh(route, arg, "key", k)
             late == (keys[k].st = "revoked")
             s == [f EXCEPT !.pc = "guard", !.late = late]
  <2>1. req' = [req EXCEPT ![c] = s] /\ UNCHANGED <<users, keys, fns, sessions, touched>>
    BY <1>3 DEF ArriveWithKey
  <2>2. route \in Routes /\ [kind |-> "key", id |-> k] \in Credentials
    BY DEF Routes, Guarded, Credentials
  <2>3. /\ f \in Requests /\ f.route = route /\ f.arg = arg /\ ~f.late /\ f.ans = "none"
        /\ f.cred = [kind |-> "key", id |-> k]
    BY <2>2, FreshFacts
  <2> HIDE DEF f
  <2>4. late \in BOOLEAN
    OBVIOUS
  <2>5. /\ s \in Requests /\ s.pc = "guard" /\ s.route = route /\ s.arg = arg
        /\ s.late = late /\ s.ans = "none" /\ s.cred = [kind |-> "key", id |-> k]
    <3> HIDE DEF late
    <3> QED BY <2>3, <2>4 DEF Requests
  <2> HIDE DEF s
  <2>6. req'[c] = s /\ keys' = keys
    BY <2>1 DEF AccountInv, TypeOK
  <2>7. ReqInv(c)'
    <3>1. req'[c].cred.kind = "key" /\ req'[c].cred.id = k
      BY <2>5, <2>6
    <3>2. req'[c].late => keys'[req'[c].cred.id].st = "revoked"
      BY <2>5, <2>6, <3>1
    <3> QED BY <2>2, <2>5, <2>6, <3>1, <3>2 DEF ReqInv
  <2>8. req' \in [Conns -> Requests] /\ \A d \in Conns : ReqInv(d)'
    BY <2>1, <2>5, <2>7, SameTables, AfterOne
  <2> QED BY <1>1, <2>1, <2>8, OnlyRequests
<1>4. ASSUME NEW route \in Guarded, NEW arg \in Arguments(route), NEW u \in Users,
             ArriveWithJwt(c, route, arg, u)
      PROVE  AccountInv'
  <2> DEFINE f == Fresh(route, arg, "jwt", u)
  <2>1. UNCHANGED <<users, keys, fns, sessions, touched>>
    BY <1>4 DEF ArriveWithJwt
  <2>2. CASE u \in sessions
    <3>1. Admit(c, f, [id |-> u, scopes |-> Scopes])
      BY <1>4, <2>2 DEF ArriveWithJwt
    <3>2. route \in Routes /\ [kind |-> "jwt", id |-> u] \in Credentials
      BY DEF Routes, Guarded, Credentials
    <3>3. /\ f \in Requests /\ f.route = route /\ f.arg = arg /\ ~f.late /\ f.ans = "none"
          /\ f.cred = [kind |-> "jwt", id |-> u]
      BY <3>2, FreshFacts
    <3> HIDE DEF f
    <3>4. Owner(f.cred) = u /\ Granted(f.cred) = Scopes /\ f.cred.kind # "key"
      BY <3>3 DEF Owner, Granted
    <3>5. Scopes \in SUBSET Scopes /\ u \in users
      BY <1>1, <2>2
    <3> QED BY <1>1, <2>1, <3>1, <3>3, <3>4, <3>5, AdmitKeeps
  <2>3. CASE u \notin sessions
    <3>1. Answer(c, "401") /\ "401" \in Statuses
      BY <1>4, <2>3 DEF ArriveWithJwt, Statuses
    <3> QED BY <1>1, <2>1, <3>1, AnswerOnly
  <2> QED BY <2>2, <2>3
<1> QED BY <1>2, <1>3, <1>4 DEF Arrive, Guarded

\* validateApiKey.
LEMMA ValidateKeeps ==
    ASSUME AccountInv, NEW c \in Conns, ValidateApiKey(c) PROVE AccountInv'
<1> DEFINE k == req[c].cred.id
<1>1. /\ req[c] \in Requests /\ ReqInv(c) /\ touched \subseteq Keys /\ keys \in [Keys -> KeyRow]
      /\ KeysOwned
  BY DEF AccountInv, TypeOK
<1>2. req[c].pc = "guard" /\ UNCHANGED <<users, keys, fns, sessions>>
  BY DEF ValidateApiKey, tables
<1>3. req[c].cred.kind = "key" /\ k \in Keys
  BY <1>1, <1>2, RequestFacts, KeyCredential DEF ReqInv
<1>4. CASE keys[k].st # "live" /\ Answer(c, "401") /\ touched' = touched
  BY <1>1, <1>2, <1>4, AnswerOnly DEF Statuses
<1>5. CASE /\ keys[k].st = "live" /\ touched' = touched \cup {k}
           /\ Admit(c, req[c], [id |-> keys[k].owner, scopes |-> keys[k].scopes])
  <2>1. /\ req[c].route \in Guarded /\ req[c].arg \in Arguments(req[c].route)
        /\ req[c].ans = "none" /\ ~req[c].late
    BY <1>1, <1>2, <1>5 DEF ReqInv
  <2>2. keys[k].owner \in users /\ keys[k].scopes \in SUBSET Scopes
    BY <1>1, <1>3, <1>5 DEF KeysOwned, KeyRow
  <2>3. keys[k].owner = Owner(req[c].cred) /\ keys[k].scopes = Granted(req[c].cred) /\ keys[k].st # "none"
    BY <1>3, <1>5 DEF Owner, Granted
  <2>4. touched' \subseteq Keys
    BY <1>1, <1>3, <1>5
  <2> QED BY <1>1, <1>2, <1>5, <2>1, <2>2, <2>3, <2>4, AdmitKeeps
<1> QED BY <1>4, <1>5 DEF ValidateApiKey

\* The handlers that write an account or a session.
LEMMA LoginKeeps ==
    ASSUME AccountInv, NEW c \in Conns, RegisterUser(c) \/ Login(c) PROVE AccountInv'
<1>1. /\ req[c] \in Requests /\ ReqInv(c) /\ touched \subseteq Keys /\ users \subseteq Users
      /\ sessions \subseteq users /\ fns \subseteq users \X Names
  BY DEF AccountInv, TypeOK
<1>2. req[c].arg \in Users /\ keys' = keys /\ fns' = fns /\ touched' = touched
  <2>1. req[c].pc = "handler" /\ req[c].route \in OpenRoutes
    BY DEF RegisterUser, Login, Handling, OpenRoutes
  <2> QED BY <1>1, <2>1, RouteFacts DEF ReqInv, RegisterUser, Login, tables
<1>3. \E a \in Statuses : Answer(c, a)
  <2>1. {"401", "200", "409", "201"} \subseteq Statuses
    BY DEF Statuses
  <2> QED BY <2>1, ReplyFacts DEF RegisterUser, Login
<1>4. users \subseteq users' /\ users' \subseteq Users /\ sessions' \subseteq users'
  BY <1>1, <1>2 DEF RegisterUser, Login, tables
<1>5. KeysMove
  BY <1>2 DEF KeysMove
<1>6. req' \in [Conns -> Requests] /\ \A d \in Conns : ReqInv(d)'
  BY <1>3, <1>4, <1>5, AfterAnswer
<1>7. fns' \subseteq users' \X Names
  BY <1>1, <1>2, <1>4
<1> QED BY <1>1, <1>2, <1>4, <1>6, <1>7 DEF AccountInv, TypeOK, KeysOwned

\* createApiKey: the new key belongs to the account of the request.
LEMMA CreateKeyKeeps ==
    ASSUME AccountInv, NEW c \in Conns, CreateApiKey(c) PROVE AccountInv'
<1>1. req[c] \in Requests /\ ReqInv(c) /\ keys \in [Keys -> KeyRow] /\ users \subseteq Users
  BY DEF AccountInv, TypeOK
<1>2. PICK k \in Keys, s \in Grants :
        /\ keys[k].st = "none"
        /\ keys' = [keys EXCEPT ![k] = [st |-> "live", owner |-> req[c].user.id, scopes |-> s]]
  BY DEF CreateApiKey
<1>3. req[c].user.id \in users /\ UNCHANGED <<users, fns, sessions, touched>>
  <2>1. req[c].pc = "handler" /\ req[c].route \in Guarded
    BY DEF CreateApiKey, Handling, Guarded, KeyRoutes
  <2> QED BY <1>1, <2>1 DEF ReqInv, CreateApiKey
<1>4. s \in SUBSET Scopes
  BY AccountsAssumption
<1> DEFINE row == [st |-> "live", owner |-> req[c].user.id, scopes |-> s]
<1>5. row \in KeyRow /\ row.owner \in users
  BY <1>1, <1>3, <1>4 DEF KeyRow
<1> HIDE DEF row
<1>6. keys' = [keys EXCEPT ![k] = row]
  BY <1>2 DEF row
<1>7. keys' \in [Keys -> KeyRow] /\ \A j \in Keys : keys'[j] = IF j = k THEN row ELSE keys[j]
  BY <1>1, <1>5, <1>6
<1>8. KeysMove /\ users \subseteq users' /\ KeysOwned'
  BY <1>2, <1>3, <1>5, <1>7 DEF KeysMove, KeysOwned, AccountInv
<1>9. \E a \in Statuses : Answer(c, a)
  <2>1. "201" \in Statuses
    BY DEF Statuses
  <2> QED BY <2>1, ReplyFacts DEF CreateApiKey
<1>10. req' \in [Conns -> Requests] /\ \A d \in Conns : ReqInv(d)'
  BY <1>8, <1>9, AfterAnswer
<1> QED BY <1>3, <1>7, <1>8, <1>10 DEF AccountInv, TypeOK

\* revokeApiKey, both queries.
LEMMA RevokeKeeps ==
    ASSUME AccountInv, NEW c \in Conns, FindKeyToRevoke(c) \/ RevokeKey(c) PROVE AccountInv'
<1>1. /\ req \in [Conns -> Requests] /\ req[c] \in Requests /\ ReqInv(c)
      /\ keys \in [Keys -> KeyRow] /\ touched \subseteq Keys
  BY DEF AccountInv, TypeOK
<1>2. CASE FindKeyToRevoke(c)
  <2>1. /\ req[c].pc = "handler" /\ req[c].route = "revokeApiKey"
        /\ UNCHANGED <<users, keys, fns, sessions, touched>>
    BY <1>2 DEF FindKeyToRevoke, Handling, tables
  <2>2. CASE Answer(c, "404")
    BY <1>1, <2>1, <2>2, AnswerOnly DEF Statuses
  <2>3. CASE req' = [req EXCEPT ![c].pc = "revoke"]
    <3> DEFINE s == [req[c] EXCEPT !.pc = "revoke"]
    <3>1. req' = [req EXCEPT ![c] = s]
      BY <2>3
    <3>2. /\ s \in Requests /\ s.pc = "revoke" /\ s.route = req[c].route /\ s.arg = req[c].arg
          /\ s.cred = req[c].cred /\ s.user = req[c].user /\ s.late = req[c].late /\ s.ans = req[c].ans
      BY <1>1 DEF Requests
    <3> HIDE DEF s
    <3>3. req'[c] = s
      BY <1>1, <3>1
    <3>4. Owner(req[c].cred)' = Owner(req[c].cred) /\ Granted(req[c].cred)' = Granted(req[c].cred)
      BY <2>1, <3>2, <3>3 DEF Owner, Granted
    <3>5. ReqInv(c)'
      BY <1>1, <2>1, <3>2, <3>3, <3>4 DEF ReqInv
    <3>6. req' \in [Conns -> Requests] /\ \A d \in Conns : ReqInv(d)'
      BY <2>1, <3>1, <3>2, <3>5, SameTables, AfterOne
    <3> QED BY <1>1, <2>1, <3>6, OnlyRequests
  <2> QED BY <1>2, <2>2, <2>3 DEF FindKeyToRevoke
<1>3. CASE RevokeKey(c)
  <2>1. /\ req[c].pc = "revoke" /\ UNCHANGED <<users, fns, sessions, touched>>
        /\ keys' = [keys EXCEPT ![req[c].arg].st = "revoked"] /\ Reply(c, "204")
    BY <1>3 DEF RevokeKey
  <2>2. \A k \in Keys : /\ keys'[k] \in KeyRow /\ keys'[k].owner = keys[k].owner
                        /\ keys'[k].scopes = keys[k].scopes
                        /\ keys'[k].st \in {keys[k].st, "revoked"}
    BY <1>1, <2>1 DEF KeyRow
  <2>3. keys' \in [Keys -> KeyRow] /\ KeysMove /\ users \subseteq users' /\ KeysOwned'
    <3>1. keys' = [k \in Keys |-> keys'[k]]
      BY <1>1, <2>1
    <3>2. KeysMove
      BY <2>2 DEF KeysMove
    <3>3. KeysOwned'
      BY <2>1, <2>2 DEF KeysOwned, AccountInv
    <3> QED BY <2>1, <2>2, <3>1, <3>2, <3>3
  <2>4. \E a \in Statuses : Answer(c, a)
    BY <2>1, ReplyFacts DEF Statuses
  <2>5. req' \in [Conns -> Requests] /\ \A d \in Conns : ReqInv(d)'
    BY <2>3, <2>4, AfterAnswer
  <2> QED BY <2>1, <2>3, <2>5 DEF AccountInv, TypeOK
<1> QED BY <1>2, <1>3

\* The routes of FunctionsController, and the listing of the keys.
LEMMA FunctionsKeep ==
    ASSUME AccountInv, NEW c \in Conns,
           CreateFunction(c) \/ RemoveFunction(c) \/ UseFunction(c) \/ List(c) \/ DbFails(c)
    PROVE  AccountInv'
<1>1. req[c] \in Requests /\ ReqInv(c) /\ touched \subseteq Keys /\ fns \subseteq users \X Names
  BY DEF AccountInv, TypeOK
<1>2. UNCHANGED <<users, keys, sessions, touched>> /\ users \subseteq users' /\ KeysMove
  BY SameTables DEF CreateFunction, RemoveFunction, UseFunction, List, DbFails, tables
<1>3. \E a \in Statuses : Answer(c, a)
  <2>1. {"200", "201", "204", "404", "409", "500", "503"} \subseteq Statuses
    BY DEF Statuses
  <2> QED BY <2>1, ReplyFacts DEF CreateFunction, RemoveFunction, UseFunction, List, DbFails
<1>4. fns' \subseteq users \X Names
  <2>1. CASE CreateFunction(c)
    <3>1. req[c].pc = "handler" /\ req[c].route = "create"
      BY <2>1 DEF CreateFunction, Handling
    <3>2. req[c].user.id \in users /\ req[c].arg \in Names
      BY <1>1, <3>1, RouteFacts DEF ReqInv, Guarded, FunctionRoutes
    <3> QED BY <1>1, <2>1, <3>2 DEF CreateFunction, Row
  <2>2. CASE ~CreateFunction(c)
    BY <1>1, <2>2 DEF RemoveFunction, UseFunction, List, DbFails, tables
  <2> QED BY <2>1, <2>2
<1>5. req' \in [Conns -> Requests] /\ \A d \in Conns : ReqInv(d)'
  BY <1>2, <1>3, AfterAnswer
<1> QED BY <1>2, <1>4, <1>5 DEF AccountInv, TypeOK, KeysOwned

\* The inductive invariant of accounts, keys and guards.
THEOREM AccountInvariant == Spec => []AccountInv
<1>1. Init => AccountInv
  <2> SUFFICES ASSUME Init PROVE AccountInv
    OBVIOUS
  <2>1. Idle \in Requests /\ Idle.pc = "idle" /\ Idle.late = FALSE
    <3>1. NoOne \in (UNION {Arguments(rt) : rt \in Routes}) \cup {NoOne}
      OBVIOUS
    <3>2. NoCredential \in Credentials /\ Nobody \in [id : Users \cup {NoOne}, scopes : SUBSET Scopes]
      BY DEF Nobody, NoCredential, Credentials
    <3> QED BY <3>1, <3>2 DEF Idle, Requests
  <2>2. NoKey \in KeyRow /\ NoKey.st = "none"
    BY DEF NoKey, KeyRow
  <2>3. TypeOK
    BY <2>1, <2>2 DEF Init, TypeOK
  <2>4. KeysOwned
    BY <2>2 DEF Init, KeysOwned
  <2>5. \A c \in Conns : ReqInv(c)
    BY <2>1 DEF Init, ReqInv
  <2> QED BY <2>3, <2>4, <2>5 DEF AccountInv
<1>2. AccountInv /\ [Next]_vars => AccountInv'
  <2> SUFFICES ASSUME AccountInv, [Next]_vars PROVE AccountInv'
    OBVIOUS
  <2>1. CASE UNCHANGED vars
    BY <2>1 DEF vars, tables, AccountInv, TypeOK, KeysOwned, ReqInv, Owner, Granted
  <2>2. ASSUME NEW c \in Conns, Arrive(c) \/ Step(c) \/ DbFails(c) PROVE AccountInv'
    BY <2>2, ArriveKeeps, ValidateKeeps, LoginKeeps, CreateKeyKeeps, RevokeKeeps, FunctionsKeep DEF Step
  <2>3. ASSUME NEW k \in Keys, TouchKey(k) PROVE AccountInv'
    BY <2>3 DEF TouchKey, tables, AccountInv, TypeOK, KeysOwned, ReqInv, Owner, Granted
  <2>4. ASSUME NEW u \in Users, Expire(u) PROVE AccountInv'
    BY <2>4 DEF Expire, tables, AccountInv, TypeOK, KeysOwned, ReqInv, Owner, Granted
  <2> QED BY <2>1, <2>2, <2>3, <2>4 DEF Next
<1> QED BY <1>1, <1>2, PTL DEF Spec

\* Type correctness; in particular every session and every function row belongs to
\* a registered account.
THEOREM AccountTypeCorrect == Spec => []TypeOK
<1>1. AccountInv => TypeOK
  BY DEF AccountInv
<1> QED BY <1>1, AccountInvariant, PTL

\* A request that arrives with a revoked key never gets past the guards.
THEOREM AccountRevokedNeverServed == Spec => []RevokedNeverServed
<1>1. AccountInv => RevokedNeverServed
  BY DEF AccountInv, ReqInv, RevokedNeverServed
<1> QED BY <1>1, AccountInvariant, PTL

-----------------------------------------------------------------------------
(* The action properties.                                                  *)

\* An answer other than 403 leaves no 403 anywhere.
LEMMA NotForbidden ==
    ASSUME AccountInv, NEW c \in Conns, NEW a \in Statuses, a # "403", Answer(c, a)
    PROVE  \A d \in Conns : req'[d].ans # "403"
<1>1. req' = [d \in Conns |-> IF d = c THEN [Idle EXCEPT !.ans = a]
                             ELSE [req[d] EXCEPT !.ans = "none"]]
  BY DEF Answer
<1>2. ASSUME NEW d \in Conns, d # c PROVE req'[d].ans = "none"
  <2>1. req'[d] = [req[d] EXCEPT !.ans = "none"] /\ req[d] \in Requests
    BY <1>1, <1>2 DEF AccountInv, TypeOK
  <2> QED BY <2>1 DEF Requests
<1>3. req'[c] = [Idle EXCEPT !.ans = a]
  BY <1>1
<1>4. req'[c].ans = a
  BY <1>3, AnsweredFacts
<1> QED BY <1>2, <1>4

\* A request that goes on has no answer yet.
LEMMA GoesOn ==
    ASSUME AccountInv, NEW c \in Conns, NEW s, s.ans = "none", req' = [req EXCEPT ![c] = s]
    PROVE  \A d \in Conns : req'[d].ans = "403" => req'[d] = req[d]
  BY DEF AccountInv, TypeOK

\* The guards answer 403 exactly when a scope is missing.
LEMMA AdmitForbids ==
    ASSUME AccountInv, NEW c \in Conns, NEW r \in Requests, r.ans = "none",
           NEW user \in [id : Users \cup {NoOne}, scopes : SUBSET Scopes], Admit(c, r, user),
           NEW d \in Conns, req'[d].ans = "403", req'[d] # req[d]
    PROVE  d = c /\ ~(Required(r.route) \subseteq user.scopes)
<1>1. CASE Required(r.route) \subseteq user.scopes
  <2> DEFINE s == [r EXCEPT !.pc = "handler", !.user = user]
  <2>1. s.ans = "none" /\ req' = [req EXCEPT ![c] = s]
    BY <1>1 DEF Admit, Requests
  <2> QED BY <2>1, GoesOn
<1>2. CASE ~(Required(r.route) \subseteq user.scopes)
  <2>1. req' = [e \in Conns |-> IF e = c THEN [Idle EXCEPT !.ans = "403"]
                               ELSE [req[e] EXCEPT !.ans = "none"]]
    BY <1>2 DEF Admit, Answer
  <2>2. ASSUME d # c PROVE req'[d].ans = "none"
    <3>1. req'[d] = [req[d] EXCEPT !.ans = "none"] /\ req[d] \in Requests
      BY <2>1, <2>2 DEF AccountInv, TypeOK
    <3> QED BY <3>1 DEF Requests
  <2> QED BY <1>2, <2>2
<1> QED BY <1>1, <1>2

\* The function routes are handled only for credentials with their scope, and 403 is
\* only the answer to an API key without it: a session is granted every scope, the key
\* routes ask for none, and no handler answers 403.
THEOREM AccountScopesDecide == Spec => ScopesDecide
<1> DEFINE S(c) == req[c].pc = "handler" /\ req[c].route \in FunctionRoutes
                     => Required(req[c].route) \subseteq Granted(req[c].cred)
           F(c) == req'[c].ans = "403" /\ req'[c] # req[c]
                     => /\ req[c].pc = "guard" /\ req[c].route \in FunctionRoutes
                        /\ ~(Required(req[c].route) \subseteq Granted(req[c].cred))
           A == \A c \in Conns :
                  /\ req[c].pc = "handler" /\ req[c].route \in FunctionRoutes
                       => Required(req[c].route) \subseteq Granted(req[c].cred)
                  /\ req'[c].ans = "403" /\ req'[c] # req[c]
                       => /\ req[c].pc = "guard" /\ req[c].route \in FunctionRoutes
                          /\ ~(Required(req[c].route) \subseteq Granted(req[c].cred))
<1>1. AccountInv /\ [Next]_vars => [A]_vars
  <2> SUFFICES ASSUME AccountInv, Next, NEW d \in Conns PROVE S(d) /\ F(d)
    OBVIOUS
  <2>0. S(d)
    BY DEF AccountInv, ReqInv, Guarded
  <2> SUFFICES ASSUME req'[d].ans = "403", req'[d] # req[d]
               PROVE  /\ req[d].pc = "guard" /\ req[d].route \in FunctionRoutes
                      /\ ~(Required(req[d].route) \subseteq Granted(req[d].cred))
    BY <2>0
  <2>1. ASSUME NEW c \in Conns, NEW a \in Statuses, a # "403", Answer(c, a) PROVE FALSE
    BY <2>1, NotForbidden
  <2>2. req' # req
    OBVIOUS
  <2>3. Statuses = {"200", "201", "204", "401", "403", "404", "409", "500", "503"}
    BY DEF Statuses
  <2>4. ASSUME NEW c \in Conns, NEW a \in Statuses, a # "403", Reply(c, a) PROVE FALSE
    <3>1. PICK b \in Statuses : b \in {a, "500"} /\ Answer(c, b)
      BY <2>4, ReplyFacts
    <3> QED BY <2>1, <2>4, <3>1
  <2>5. ASSUME NEW c \in Conns, Arrive(c) PROVE FALSE
    <3>1. ASSUME NEW route \in OpenRoutes, NEW u \in Users, ArriveOpenly(c, route, u) PROVE FALSE
      <4> DEFINE f == Fresh(route, u, "none", NoOne)
                 s == [f EXCEPT !.pc = "handler"]
      <4>1. route \in Routes /\ u \in Arguments(route) /\ [kind |-> "none", id |-> NoOne] \in Credentials
        BY RouteFacts DEF Routes, Credentials
      <4>2. f \in Requests /\ f.ans = "none"
        BY <4>1, FreshFacts
      <4> HIDE DEF f
      <4>3. s.ans = "none" /\ req' = [req EXCEPT ![c] = s]
        BY <3>1, <4>2 DEF ArriveOpenly, Requests, f
      <4> QED BY <4>3, GoesOn
    <3>2. ASSUME NEW route \in Guarded, NEW arg \in Arguments(route), NEW k \in Keys,
                 ArriveWithKey(c, route, arg, k)
          PROVE  FALSE
      <4> DEFINE f == Fresh(route, arg, "key", k)
                 s == [f EXCEPT !.pc = "guard", !.late = (keys[k].st = "revoked")]
      <4>1. route \in Routes /\ [kind |-> "key", id |-> k] \in Credentials
        BY DEF Routes, Guarded, Credentials
      <4>2. f \in Requests /\ f.ans = "none"
        BY <4>1, FreshFacts
      <4>3. req' = [req EXCEPT ![c] = s]
        BY <3>2 DEF ArriveWithKey
      <4> HIDE DEF f
      <4>4. s.ans = "none"
        BY <4>2 DEF Requests
      <4> HIDE DEF s
      <4> QED BY <4>3, <4>4, GoesOn
    <3>3. ASSUME NEW route \in Guarded, NEW arg \in Arguments(route), NEW u \in Users,
                 ArriveWithJwt(c, route, arg, u)
          PROVE  FALSE
      <4> DEFINE f == Fresh(route, arg, "jwt", u)
                 user == [id |-> u, scopes |-> Scopes]
      <4>1. route \in Routes /\ [kind |-> "jwt", id |-> u] \in Credentials
        BY DEF Routes, Guarded, Credentials
      <4>2. f \in Requests /\ f.ans = "none" /\ f.route = route
        BY <4>1, FreshFacts
      <4>3. Admit(c, f, user) \/ Answer(c, "401")
        BY <3>3 DEF ArriveWithJwt
      <4>4. /\ user \in [id : Users \cup {NoOne}, scopes : SUBSET Scopes]
            /\ Required(f.route) \subseteq user.scopes
        BY <4>1, <4>2, RouteFacts
      <4> HIDE DEF f, user
      <4> QED BY <2>1, <2>3, <4>2, <4>3, <4>4, AdmitForbids
    <3> QED BY <2>5, <3>1, <3>2, <3>3 DEF Arrive, Guarded
  <2>6. ASSUME NEW c \in Conns, ValidateApiKey(c)
        PROVE  /\ req[d].pc = "guard" /\ req[d].route \in FunctionRoutes
               /\ ~(Required(req[d].route) \subseteq Granted(req[d].cred))
    <3> DEFINE k == req[c].cred.id
               user == [id |-> keys[k].owner, scopes |-> keys[k].scopes]
    <3>1. /\ req[c] \in Requests /\ req[c].pc = "guard" /\ req[c].ans = "none"
          /\ req[c].cred.kind = "key" /\ keys \in [Keys -> KeyRow]
          /\ req[c].route \in Guarded
      BY <2>6 DEF ValidateApiKey, AccountInv, TypeOK, ReqInv
    <3>2. k \in Keys
      BY <3>1, RequestFacts, KeyCredential
    <3>3. Admit(c, req[c], user)
      BY <2>1, <2>3, <2>6 DEF ValidateApiKey
    <3>4. user \in [id : Users \cup {NoOne}, scopes : SUBSET Scopes] /\ user.scopes = Granted(req[c].cred)
      BY <3>1, <3>2 DEF KeyRow, Granted
    <3> HIDE DEF user
    <3>5. d = c /\ ~(Required(req[c].route) \subseteq user.scopes)
      BY <3>1, <3>3, <3>4, AdmitForbids
    <3>6. \A route \in KeyRoutes : Required(route) = {}
      BY DEF KeyRoutes, Required
    <3> QED BY <3>1, <3>4, <3>5, <3>6 DEF Guarded
  <2>7. ASSUME NEW c \in Conns, FindKeyToRevoke(c) PROVE FALSE
    <3>1. req[c] \in Requests /\ req[c].ans = "none"
      BY <2>7 DEF FindKeyToRevoke, Handling, AccountInv, TypeOK, ReqInv
    <3> DEFINE s == [req[c] EXCEPT !.pc = "revoke"]
    <3>2. s.ans = "none"
      BY <3>1 DEF Requests
    <3>3. req' = [req EXCEPT ![c] = s] \/ Answer(c, "404")
      BY <2>7 DEF FindKeyToRevoke
    <3> HIDE DEF s
    <3> QED BY <2>1, <2>3, <3>2, <3>3, GoesOn
  <2>8. ASSUME NEW c \in Conns,
               \/ RegisterUser(c) \/ Login(c) \/ CreateApiKey(c) \/ RevokeKey(c) \/ CreateFunction(c)
               \/ RemoveFunction(c) \/ UseFunction(c) \/ List(c) \/ DbFails(c)
        PROVE  FALSE
    <3>1. \E a \in Statuses : a # "403" /\ (Answer(c, a) \/ Reply(c, a))
      BY <2>3, <2>8 DEF RegisterUser, Login, CreateApiKey, RevokeKey, CreateFunction, RemoveFunction,
                        UseFunction, List, DbFails
    <3> QED BY <2>1, <2>4, <3>1
  <2>9. \A k \in Keys : ~TouchKey(k)
    BY <2>2 DEF TouchKey
  <2>10. \A u \in Users : ~Expire(u)
    BY <2>2 DEF Expire
  <2> QED BY <2>5, <2>6, <2>7, <2>8, <2>9, <2>10 DEF Next, Step
<1> QED BY <1>1, AccountInvariant, PTL DEF Spec, ScopesDecide

\* A function row appears or goes only by a request with a credential of the row's own
\* account that carries functions:write.
THEOREM AccountFunctionsChangeByOwner == Spec => FunctionsChangeByOwner
<1> DEFINE A == \A u \in Users, n \in Names :
                  (<<u, n>> \in fns) # (<<u, n>> \in fns')
                    => \E c \in Conns : /\ req[c].pc = "handler" /\ req'[c].pc = "idle"
                                        /\ req[c].arg = n
                                        /\ Owner(req[c].cred) = u
                                        /\ "functions:write" \in Granted(req[c].cred)
<1>1. AccountInv /\ [Next]_vars => [A]_vars
  <2> SUFFICES ASSUME AccountInv, Next, fns' # fns, NEW u \in Users, NEW n \in Names,
                      (<<u, n>> \in fns) # (<<u, n>> \in fns')
               PROVE  \E c \in Conns : /\ req[c].pc = "handler" /\ req'[c].pc = "idle"
                                       /\ req[c].arg = n
                                       /\ Owner(req[c].cred) = u
                                       /\ "functions:write" \in Granted(req[c].cred)
    OBVIOUS
  <2>1. PICK c \in Conns : CreateFunction(c) \/ RemoveFunction(c)
    <3>1. \A c \in Conns : ~Arrive(c)
      BY DEF Arrive, ArriveOpenly, ArriveWithKey, ArriveWithJwt, tables
    <3>2. \A c \in Conns : Step(c) => CreateFunction(c) \/ RemoveFunction(c)
      BY DEF Step, ValidateApiKey, RegisterUser, Login, CreateApiKey, FindKeyToRevoke, RevokeKey,
             UseFunction, List, tables
    <3>3. /\ \A c \in Conns : ~DbFails(c)
          /\ \A k \in Keys : ~TouchKey(k)
          /\ \A v \in Users : ~Expire(v)
      BY DEF DbFails, TouchKey, Expire, tables
    <3> QED BY <3>1, <3>2, <3>3 DEF Next
  <2>2. /\ req[c].pc = "handler" /\ req[c].route \in {"create", "remove"}
        /\ fns' = fns \cup {Row(c)} \/ fns' = fns \ {Row(c)}
        /\ \E a \in Statuses : Answer(c, a)
    <3>1. {"201", "204", "404", "409"} \subseteq Statuses
      BY DEF Statuses
    <3> QED BY <2>1, <3>1, ReplyFacts DEF CreateFunction, RemoveFunction, Handling
  <2>3. Row(c) = <<u, n>>
    BY <2>2
  <2>4. req[c].user.id = u /\ req[c].arg = n
    BY <2>3 DEF Row
  <2>5. ReqInv(c) /\ req[c].route \in Guarded /\ Required(req[c].route) = {"functions:write"}
    BY <2>2, RouteFacts DEF AccountInv, Guarded, FunctionRoutes
  <2>6. req'[c].pc = "idle"
    <3>1. users \subseteq users' /\ KeysMove
      BY <2>1, SameTables DEF CreateFunction, RemoveFunction
    <3> QED BY <2>2, <3>1, AfterAnswer
  <2> QED BY <2>2, <2>4, <2>5, <2>6 DEF ReqInv
<1> QED BY <1>1, AccountInvariant, PTL DEF Spec, FunctionsChangeByOwner
=============================================================================
