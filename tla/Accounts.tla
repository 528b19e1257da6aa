------------------------------ MODULE Accounts ------------------------------
(***************************************************************************)
(* Accounts, sessions and API keys, and the routes they open: AuthController *)
(* and FunctionsController behind AuthGuard and ScopesGuard.               *)
(*                                                                         *)
(* A connection carries one request after the other, any number of them;   *)
(* the API processes keep nothing between two requests, so it does not     *)
(* matter which process serves which.  One action per awaited query.       *)
(* Hashes, passwords and the text of tokens are abstracted: a session is   *)
(* its account, an API key its row's id, and a password is right or wrong. *)
(***************************************************************************)
EXTENDS Naturals, FiniteSets

CONSTANTS
    Conns,      \* client connections
    Users,      \* accounts; the unique e-mail stands for the id
    Keys,       \* ids of API keys; an id is used once
    Names,      \* function names
    Grants,     \* sets of scopes that keys are created with
    DbFaults    \* may a query fail, or its reply be lost?

VARIABLES
    users,      \* rows of the table users
    sessions,   \* accounts that hold an unexpired JWT
    keys,       \* keys[k]: row k of the table api_keys
    touched,    \* keys whose lastUsedAt update is on its way
    fns,        \* rows of the table functions: account and name
    req         \* req[c]: the request on connection c

tables == <<users, keys, fns>>
vars   == <<tables, sessions, touched, req>>

\* API_SCOPES; a session has ALL_SCOPES.
Scopes == {"functions:read", "functions:write", "functions:invoke"}

\* CreateApiKeyDto: at least one scope, and only known ones.
ASSUME AccountsAssumption ==
    /\ Grants \subseteq (SUBSET Scopes) \ {{}}
    /\ DbFaults \in BOOLEAN

NoOne  == "no one"
KeyRow == [st : {"none", "live", "revoked"}, owner : Users \cup {NoOne}, scopes : SUBSET Scopes]
NoKey  == [st |-> "none", owner |-> NoOne, scopes |-> {}]

\* @UseGuards: which routes pass AuthGuard, and which ScopesGuard after it.
OpenRoutes     == {"register", "login"}
KeyRoutes      == {"createApiKey", "listApiKeys", "revokeApiKey"}
FunctionRoutes == {"create", "list", "get", "remove", "invoke"}
Routes         == OpenRoutes \cup KeyRoutes \cup FunctionRoutes

\* @RequireScopes of the route's handler.
Required(route) ==
    CASE route \in {"create", "remove"} -> {"functions:write"}
      [] route \in {"get", "list"}      -> {"functions:read"}
      [] route = "invoke"               -> {"functions:invoke"}
      [] OTHER                          -> {}

\* The Authorization header: none that could be valid, a session, an API key.
Credentials == [kind : {"none"}, id : {NoOne}] \cup [kind : {"jwt"}, id : Users]
                 \cup [kind : {"key"}, id : Keys]
NoCredential == [kind |-> "none", id |-> NoOne]

\* What a request is about: an account, a key or a name.
Arguments(route) ==
    CASE route \in OpenRoutes                -> Users
      [] route = "revokeApiKey"              -> Keys
      [] route \in FunctionRoutes \ {"list"} -> Names
      [] OTHER                               -> {NoOne}

\* HTTP statuses.
Statuses == {"200", "201", "204", "401", "403", "404", "409", "500", "503"}

\* `user` is request.user, `ans` the answer.  `late` is history: the request
\* arrived with a key that was revoked already.
Requests == [pc     : {"idle", "guard", "handler", "revoke"},
             route  : Routes \cup {"none"},
             arg    : (UNION {Arguments(rt) : rt \in Routes}) \cup {NoOne},
             cred   : Credentials,
             user   : [id : Users \cup {NoOne}, scopes : SUBSET Scopes],
             late   : BOOLEAN,
             ans    : Statuses \cup {"none"}]

Nobody == [id |-> NoOne, scopes |-> {}]
Idle   == [pc |-> "idle", route |-> "none", arg |-> NoOne, cred |-> NoCredential,
           user |-> Nobody, late |-> FALSE, ans |-> "none"]

Init ==
    /\ users = {}
    /\ sessions = {}
    /\ keys = [k \in Keys |-> NoKey]
    /\ touched = {}
    /\ fns = {}
    /\ req = [c \in Conns |-> Idle]

-----------------------------------------------------------------------------
(* Requests.                                                               *)

\* The connection is free.  Bound: a key is only asked for while an id is left.
CanArrive(c, route) ==
    /\ req[c].pc = "idle"
    /\ route = "createApiKey" =>
         Cardinality({d \in Conns : req[d].route = "createApiKey"})
           < Cardinality({k \in Keys : keys[k].st = "none"})

\* The request is answered; only the last answer on any connection is kept.
Answer(c, status) ==
    req' = [d \in Conns |-> IF d = c THEN [Idle EXCEPT !.ans = status]
                            ELSE [req[d] EXCEPT !.ans = "none"]]

\* The answer to a write: a lost reply of the database is a 500.
Reply(c, status) == Answer(c, status) \/ (DbFaults /\ Answer(c, "500"))

\* A query fails: no handler and no guard catches it.
DbFails(c) ==
    /\ DbFaults
    /\ req[c].pc # "idle"
    /\ Answer(c, "500")
    /\ UNCHANGED <<tables, sessions, touched>>

-----------------------------------------------------------------------------
(* AuthGuard.canActivate, and ScopesGuard.canActivate right after it: both  *)
(* guard FunctionsController, only the first the key routes, which require  *)
(* no scope.                                                               *)

AdmitBeforeUser(c, r, user) ==  \* faulty variant: ScopesGuard runs before AuthGuard
    IF Required(r.route) \subseteq r.user.scopes
    THEN req' = [req EXCEPT ![c] = [r EXCEPT !.pc = "handler", !.user = user]]
    ELSE Answer(c, "403")

Admit(c, r, user) ==
    IF Required(r.route) \subseteq user.scopes
    THEN req' = [req EXCEPT ![c] = [r EXCEPT !.pc = "handler", !.user = user]]
    ELSE Answer(c, "403")

\* A request as it arrives.
Fresh(route, arg, kind, id) ==
    [Idle EXCEPT !.route = route, !.arg = arg, !.cred = [kind |-> kind, id |-> id]]

\* A request to a guarded route arrives with an API key, which takes a query ...
ArriveWithKey(c, route, arg, k) ==
    /\ CanArrive(c, route)
    /\ req' = [req EXCEPT ![c] = [Fresh(route, arg, "key", k) EXCEPT
                                    !.pc = "guard", !.late = keys[k].st = "revoked"]]
    /\ UNCHANGED <<tables, sessions, touched>>

\* ... or with a JWT or nothing usable, which tryVerifyJwt decides at once.
ArriveWithJwt(c, route, arg, u) ==
    /\ CanArrive(c, route)
    /\ IF u \in sessions
       THEN Admit(c, Fresh(route, arg, "jwt", u), [id |-> u, scopes |-> Scopes])
       ELSE Answer(c, "401")
    /\ UNCHANGED <<tables, sessions, touched>>

\* validateApiKey: the lookup by hash; the update of lastUsedAt is not awaited.
ValidateApiKeyAwaiting(c) ==    \* faulty variant: a request waits for the key's updates
    LET k == req[c].cred.id IN
    /\ req[c].pc = "guard"
    /\ \/ /\ keys[k].st # "live"
          /\ Answer(c, "401")
          /\ UNCHANGED touched
       \/ /\ keys[k].st = "live" /\ k \notin touched
          /\ touched' = touched \cup {k}
          /\ Admit(c, req[c], [id |-> keys[k].owner, scopes |-> keys[k].scopes])
    /\ UNCHANGED <<tables, sessions>>

ValidateApiKey(c) ==
    LET k == req[c].cred.id IN
    /\ req[c].pc = "guard"
    /\ \/ /\ keys[k].st # "live"
          /\ Answer(c, "401")
          /\ UNCHANGED touched
       \/ /\ keys[k].st = "live"
          /\ touched' = touched \cup {k}
          /\ Admit(c, req[c], [id |-> keys[k].owner, scopes |-> keys[k].scopes])
    /\ UNCHANGED <<tables, sessions>>

\* The update of lastUsedAt, which writes no other column, or its failure, which
\* nobody sees.  Nothing but a listing reads the column.
TouchKeySaved(k) ==             \* faulty variant: the row as it was read is saved back
    /\ k \in touched
    /\ touched' = touched \ {k}
    /\ keys' = [keys EXCEPT ![k].st = "live"]
    /\ UNCHANGED <<users, fns, sessions, req>>

TouchKey(k) ==
    /\ k \in touched
    /\ touched' = touched \ {k}
    /\ UNCHANGED <<tables, sessions, req>>

-----------------------------------------------------------------------------
(* AuthController.                                                         *)

Handling(c, route) == req[c].pc = "handler" /\ req[c].route = route

\* The routes without a guard.
ArriveOpenly(c, route, u) ==
    /\ CanArrive(c, route)
    /\ req' = [req EXCEPT ![c] = [Fresh(route, u, "none", NoOne) EXCEPT !.pc = "handler"]]
    /\ UNCHANGED <<tables, sessions, touched>>

\* register: the unique index on the e-mail decides.
RegisterUser(c) ==
    /\ Handling(c, "register")
    /\ \/ req[c].arg \in users /\ Answer(c, "409") /\ UNCHANGED users
       \/ req[c].arg \notin users /\ users' = users \cup {req[c].arg} /\ Reply(c, "201")
    /\ UNCHANGED <<keys, fns, sessions, touched>>

LoginUnknown(c) ==              \* faulty variant: a missing account is not noticed
    /\ Handling(c, "login")
    /\ sessions' = sessions \cup {req[c].arg}
    /\ Answer(c, "200")
    /\ UNCHANGED <<tables, touched>>

\* login: an unknown account and a wrong password look the same.
Login(c) ==
    /\ Handling(c, "login")
    /\ \/ Answer(c, "401") /\ UNCHANGED sessions
       \/ req[c].arg \in users /\ sessions' = sessions \cup {req[c].arg} /\ Answer(c, "200")
    /\ UNCHANGED <<tables, touched>>

\* A JWT reaches its expiresIn.
Expire(u) ==
    /\ u \in sessions
    /\ sessions' = sessions \ {u}
    /\ UNCHANGED <<tables, touched, req>>

\* createApiKey: one insert.
CreateApiKey(c) ==
    /\ Handling(c, "createApiKey")
    /\ \E k \in Keys, s \in Grants :
         /\ keys[k].st = "none"
         /\ keys' = [keys EXCEPT ![k] = [st |-> "live", owner |-> req[c].user.id, scopes |-> s]]
    /\ Reply(c, "201")
    /\ UNCHANGED <<users, fns, sessions, touched>>

\* revokeApiKey: the lookup, then the update by id.
FindKeyToRevoke(c) ==
    /\ Handling(c, "revokeApiKey")
    /\ IF keys[req[c].arg].owner = req[c].user.id
       THEN req' = [req EXCEPT ![c].pc = "revoke"]
       ELSE Answer(c, "404")
    /\ UNCHANGED <<tables, sessions, touched>>

RevokeKey(c) ==
    /\ req[c].pc = "revoke"
    /\ keys' = [keys EXCEPT ![req[c].arg].st = "revoked"]
    /\ Reply(c, "204")
    /\ UNCHANGED <<users, fns, sessions, touched>>

-----------------------------------------------------------------------------
(* FunctionsController with FunctionsService.register, get and remove, all  *)
(* by (userId, name).                                                      *)

Row(c) == <<req[c].user.id, req[c].arg>>

CreateFunction(c) ==
    /\ Handling(c, "create")
    /\ \/ Row(c) \in fns /\ Answer(c, "409") /\ UNCHANGED fns
       \/ Row(c) \notin fns /\ fns' = fns \cup {Row(c)} /\ Reply(c, "201")
    /\ UNCHANGED <<users, keys, sessions, touched>>

RemoveFunctionByName(c) ==      \* faulty variant: looked up by the name alone
    /\ Handling(c, "remove")
    /\ fns' = {f \in fns : f[2] # req[c].arg}
    /\ Reply(c, "204")
    /\ UNCHANGED <<users, keys, sessions, touched>>

RemoveFunction(c) ==
    /\ Handling(c, "remove")
    /\ \/ Row(c) \notin fns /\ Answer(c, "404") /\ UNCHANGED fns
       \/ Row(c) \in fns /\ fns' = fns \ {Row(c)} /\ Reply(c, "204")
    /\ UNCHANGED <<users, keys, sessions, touched>>

\* listApiKeys, and list of the functions: one query by the account.
List(c) ==
    /\ Handling(c, "listApiKeys") \/ Handling(c, "list")
    /\ Answer(c, "200")
    /\ UNCHANGED <<tables, sessions, touched>>

\* get, listInvocations and getMetrics read one function of the account; invoke
\* goes on as InvocationPipeline shows, once the function is found.
UseFunction(c) ==
    /\ \/ /\ Handling(c, "get")
          /\ Answer(c, IF Row(c) \in fns THEN "200" ELSE "404")
       \/ /\ Handling(c, "invoke")
          /\ \/ Row(c) \notin fns /\ Answer(c, "404")
             \/ Row(c) \in fns /\ \E status \in {"200", "409", "503"} : Answer(c, status)
    /\ UNCHANGED <<tables, sessions, touched>>

-----------------------------------------------------------------------------
Step(c) ==
    \/ ValidateApiKey(c)
    \/ RegisterUser(c) \/ Login(c) \/ CreateApiKey(c) \/ FindKeyToRevoke(c) \/ RevokeKey(c)
    \/ CreateFunction(c) \/ RemoveFunction(c) \/ UseFunction(c) \/ List(c)

Arrive(c) ==
    \/ \E route \in OpenRoutes, u \in Users : ArriveOpenly(c, route, u)
    \/ \E route \in KeyRoutes \cup FunctionRoutes :
         \E arg \in Arguments(route) :
            \/ \E k \in Keys : ArriveWithKey(c, route, arg, k)
            \/ \E u \in Users : ArriveWithJwt(c, route, arg, u)

Next ==
    \/ \E c \in Conns : Arrive(c) \/ Step(c) \/ DbFails(c)
    \/ \E k \in Keys : TouchKey(k)
    \/ \E u \in Users : Expire(u)

Spec == Init /\ [][Next]_vars

\* Queries return.  Nothing is assumed of clients, of a token's expiry, or of the
\* updates nobody awaits.
FairSpec == Spec /\ \A c \in Conns : WF_vars(Step(c))

-----------------------------------------------------------------------------
(* Properties.                                                             *)

TypeOK ==
    /\ users \subseteq Users
    /\ sessions \subseteq users
    /\ keys \in [Keys -> KeyRow]
    /\ touched \subseteq Keys
    /\ fns \subseteq users \X Names
    /\ req \in [Conns -> Requests]

\* A revoked key is of no use: a request that arrives with one never gets past the
\* guards, whatever updates of the key are still on their way.
RevokedNeverServed ==
    \A c \in Conns : req[c].late => req[c].pc = "guard"

\* The account that a credential stands for, and the scopes it carries.
Owner(cred)  == IF cred.kind = "key" THEN keys[cred.id].owner ELSE cred.id
Granted(cred) == IF cred.kind = "key" THEN keys[cred.id].scopes ELSE Scopes

\* ScopesGuard decides by the key's row, on the routes it guards and nowhere else: a
\* function route is served only to a credential with its scope, and a 403 is only
\* the answer to an API key without it ("A JWT-authenticated session is always
\* granted every scope").
ScopesDecide ==
    [][\A c \in Conns :
          /\ req[c].pc = "handler" /\ req[c].route \in FunctionRoutes
               => Required(req[c].route) \subseteq Granted(req[c].cred)
          /\ req'[c].ans = "403" /\ req'[c] # req[c]
               => /\ req[c].pc = "guard" /\ req[c].route \in FunctionRoutes
                  /\ ~(Required(req[c].route) \subseteq Granted(req[c].cred))]_vars

\* "JWT only": a row of api_keys appears or changes only by a request that came with
\* a session.  AuthGuard does not see to it: an API key passes it as well, so a key
\* can mint a key with more scopes than its own, or revoke another one.
KeysManagedBySession ==
    [][\A k \in Keys : keys'[k] # keys[k] =>
          \E c \in Conns : req[c].pc \in {"handler", "revoke"} /\ req'[c].pc = "idle"
                            /\ req[c].cred.kind = "jwt"]_vars

\* A function row appears or goes only by a request whose credential is the
\* account's own and carries functions:write: accounts that use the same names do
\* not meet, also when keys are created and revoked meanwhile.
FunctionsChangeByOwner ==
    [][\A u \in Users, n \in Names :
          (<<u, n>> \in fns) # (<<u, n>> \in fns')
            => \E c \in Conns : /\ req[c].pc = "handler" /\ req'[c].pc = "idle"
                                /\ req[c].arg = n
                                /\ Owner(req[c].cred) = u
                                /\ "functions:write" \in Granted(req[c].cred)]_vars

\* "a slow or failed lastUsedAt update should never block or fail the actual
\* request": every request is answered, though such an update may never return.
EveryRequestAnswered ==
    \A c \in Conns : req[c].pc # "idle" ~> req[c].pc = "idle"
=============================================================================
