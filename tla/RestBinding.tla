---------------------------- MODULE RestBinding -----------------------------
(***************************************************************************)
(* The REST interface (interfaces/rest.py, auth/core.py): a middleware that *)
(* authenticates each request and binds the user id in its path or its body *)
(* to the caller's subject, in front of ADK's API server and its sessions.  *)
(* It keeps no state of its own.  Without authentication a subject is a     *)
(* random token, and the client's only proof of it is a cookie that comes   *)
(* with the first response; a client may have several requests under way.   *)
(***************************************************************************)
EXTENDS Configuration

CONSTANTS Clients,
          Requests,       \* pairs of a client and a number: what it may have under way
          Subjects,       \* of bearer tokens
          Tokens,         \* token t stands for the user id "anonymous:t" (a bound)
          Shared,         \* the user id "anonymous"
          Servers,        \* what the process may be started with
          NoCookie, Malformed, \* a cookie outside _ANONYMOUS_TOKEN's pattern
          NoToken, BadToken, Blank, NoObject, NoOne, Free

Users == Subjects \union Tokens \union {Shared}
Claims == [sub : Subjects, role : BOOLEAN]

(* A request that was admitted, as the API server gets it.                 *)
Flights ==
  [at : {"admitted", "served"}, kind : {"open", "other", "users", "run"},
   user : Users \union {NoOne, Blank}, cred : Claims \union {NoToken, BadToken},
   cookie : Tokens \union {NoCookie}]

ASSUME RestAssumption ==
  /\ Requests \subseteq Clients \X Nat
  /\ Clients \intersect Claims = {}
  /\ Tokens \intersect (Subjects \union {Shared, NoCookie, Malformed}) = {}
  /\ {NoOne, Blank, Absent, NoObject} \intersect Users = {}
  /\ Free \notin Flights

VARIABLES
  server,  \* deployment, issuer, auth_disabled, ... (fixed)
  jar,     \* the cookie a client has
  flight,  \* a request that was admitted: its user, and the cookie to come
  issued,  \* tokens handed out or on their way
  store,   \* users with a session in ADK's store
  acted,   \* who has used the sessions of a user (history)
  strayed  \* clients that lost a cookie, or asked again before they had one (history)

restvars == <<server, jar, flight, issued, store, acted, strayed>>

(* load_settings and create_app raise, and nothing is served.              *)
RestStarts(s) == Imports(s) /\ (IsProduction(s.deployment) => s.database)

RestInit ==
  /\ server \in Servers /\ RestStarts(server)
  /\ jar \in [Clients -> IF server.auth_disabled THEN {NoCookie, Malformed} ELSE {NoCookie}]
  /\ flight = [p \in Requests |-> Free]
  /\ issued = {}
  /\ store = {}
  /\ acted = [u \in Users |-> {}]
  /\ strayed = {}
-----------------------------------------------------------------------------
(* What clients send: a path of the server (open, of a user, a run, other), *)
(* the user the path or the body names, and a bearer token.  They name any *)
(* user they may know of: a token cannot be guessed.                       *)
Known == Subjects \union issued \union {Shared}
Credentials == IF server.auth_disabled THEN {NoToken} ELSE Claims \union {NoToken, BadToken}
Sendable ==
  LET Of(kind, names) == [kind : {kind}, names : names, cred : Credentials]
  IN  Of("open", {Absent}) \union Of("other", {Absent}) \union Of("users", Known)
      \union Of("run", Known \union {Absent, Blank, NoObject})

(* authenticate_request, with no service key: REST does not read one.      *)
Authenticated(r) ==
  \/ server.auth_disabled
  \/ server.issuer /\ server.jwks /\ r.cred \in Claims /\ (server.roles => r.cred.role)

(* Without a usable cookie a fresh token is made.                          *)
First(c) == server.auth_disabled /\ jar[c] \notin Tokens
Fresh(c) == IF First(c) THEN Tokens \ issued ELSE {NoCookie}

(* Variant: all who have no cookie are the subject "anonymous".            *)
SubjectShared(c, r, fresh) ==
  IF ~server.auth_disabled THEN r.cred.sub ELSE IF First(c) THEN Shared ELSE jar[c]
Subject(c, r, fresh) ==
  IF ~server.auth_disabled THEN r.cred.sub ELSE IF First(c) THEN fresh ELSE jar[c]

(* A path must name the caller, and so must a body, which is rewritten     *)
(* when there is no authentication.                                        *)
Mismatch(r, subject) ==
  /\ r.names \in Users \ {subject}
  /\ r.kind = "users" \/ ~server.auth_disabled

(* The user the API server then sees.  Variant: a body keeps whom it names. *)
BoundAsNamed(r, subject) ==
  CASE r.kind = "other" \/ r.names = NoObject -> NoOne
    [] r.names = Absent -> subject
    [] OTHER -> r.names
Bound(r, subject) ==
  CASE r.kind = "other" \/ r.names = NoObject -> NoOne
    [] r.names = Absent \/ (server.auth_disabled /\ r.names # Blank) -> subject
    [] OTHER -> r.names

(* The middleware decides on the request alone, with the cookie it came    *)
(* with: sending it and admitting it are one step.                         *)
Bypass(p, r) ==
  /\ flight[p] = Free /\ r.kind = "open"
  /\ flight' = [flight EXCEPT ![p] = [at |-> "admitted", kind |-> "open", user |-> NoOne,
                                      cred |-> NoToken, cookie |-> NoCookie]]
  /\ UNCHANGED <<server, jar, issued, store, acted, strayed>>

Awaits(c) == {p \in Requests : p[1] = c /\ flight[p] # Free /\ flight[p].cookie # NoCookie}
Admit(p, r, fresh) ==
  LET c    == p[1]
      user == Bound(r, Subject(c, r, fresh))
  IN
  /\ flight[p] = Free /\ r.kind # "open" /\ Authenticated(r)
  /\ ~Mismatch(r, Subject(c, r, fresh))
  /\ flight' = [flight EXCEPT ![p] = [at |-> "admitted", user |-> user, cred |-> r.cred,
                                      kind |-> IF user = NoOne THEN "other" ELSE r.kind,
                                      cookie |-> fresh]]
  /\ issued' = issued \union ({fresh} \ {NoCookie})
  /\ strayed' = IF First(c) /\ Awaits(c) # {} THEN strayed \union {c} ELSE strayed
  /\ UNCHANGED <<server, jar, store, acted>>

(* 401, 403 or 503, without a cookie.                                      *)
Refuse(p, r, fresh) ==
  /\ flight[p] = Free /\ r.kind # "open"
  /\ Authenticated(r) => Mismatch(r, Subject(p[1], r, fresh))
  /\ UNCHANGED restvars
-----------------------------------------------------------------------------
(* The API server: a path creates or uses the user's sessions, a run needs *)
(* one (auto_create_session is off), and other paths use none.             *)
Caller(c, r) == IF server.auth_disabled THEN c ELSE r.cred
Uses(r) == r.kind = "users" \/ (r.kind = "run" /\ r.user \in store)
Serve(p) ==
  LET r == flight[p] IN
  /\ r # Free /\ r.at = "admitted"
  /\ flight' = [flight EXCEPT ![p].at = "served"]
  /\ store' = IF r.kind = "users" THEN store \union {r.user} ELSE store
  /\ acted' = IF Uses(r)
              THEN [acted EXCEPT ![r.user] = @ \union {Caller(p[1], r)}]
              ELSE acted
  /\ UNCHANGED <<server, jar, issued, strayed>>

(* The cookie, if the request came without a usable one.  Variant: a       *)
(* cookie is renewed with every response.                                  *)
CookieRenewed(r, c) ==
  IF server.auth_disabled /\ r.kind # "open" /\ Tokens \ issued # {}
  THEN CHOOSE t \in Tokens \ issued : TRUE ELSE jar[c]
Cookie(r, c) == IF r.cookie # NoCookie THEN r.cookie ELSE jar[c]
Respond(p) ==
  /\ flight[p] # Free /\ flight[p].at = "served"
  /\ jar' = [jar EXCEPT ![p[1]] = Cookie(flight[p], p[1])]
  /\ flight' = [flight EXCEPT ![p] = Free]
  /\ UNCHANGED <<server, issued, store, acted, strayed>>

(* The client has gone, or the API server raises: no response, no cookie.  *)
Lose(p) ==
  /\ flight[p] # Free
  /\ flight' = [flight EXCEPT ![p] = Free]
  /\ UNCHANGED <<server, jar, issued, store, acted, strayed>>

(* max_age, or the client forgets it.                                      *)
Expire(c) ==
  /\ jar[c] \in Tokens
  /\ jar' = [jar EXCEPT ![c] = NoCookie]
  /\ strayed' = strayed \union {c}
  /\ UNCHANGED <<server, flight, issued, store, acted>>

Arrives(p) ==
  \E r \in Sendable :
    Bypass(p, r) \/ (\E fresh \in Fresh(p[1]) : Admit(p, r, fresh) \/ Refuse(p, r, fresh))

RestNext ==
  \/ \E p \in Requests : Arrives(p) \/ Serve(p) \/ Respond(p) \/ Lose(p)
  \/ \E c \in Clients : Expire(c)

RestSpec == RestInit /\ [][RestNext]_restvars
-----------------------------------------------------------------------------
(* Types, and that nobody is admitted or stored as the literal "anonymous" *)
(* or under a token that was not issued, in a jar or on its way (rest.py,  *)
(* _subject).                                                              *)
RestTypeOK ==
  /\ issued \subseteq Tokens /\ strayed \subseteq Clients
  /\ jar \in [Clients -> issued \union {NoCookie, Malformed}]
  /\ flight \in [Requests -> Flights \union {Free}]
  /\ store \subseteq Subjects \union issued
  /\ acted \in [Users -> SUBSET (Clients \union Claims)]
  /\ \A p \in Requests : flight[p] # Free =>
       /\ flight[p].cookie \in issued \union {NoCookie}
       /\ flight[p].user \in {NoOne, Blank} \union IF server.auth_disabled THEN issued ELSE Subjects

(* "A shared literal anonymous subject would let every unauthenticated     *)
(* client read or mutate the same ADK sessions": the sessions of a user    *)
(* are used by that user alone, and without authentication by one client   *)
(* alone, however requests overlap, cookies are lost and whatever users    *)
(* paths and bodies name (rest.py, dispatch).                              *)
SessionsStayApart ==
  \A u \in Users :
    IF server.auth_disabled THEN \A a, b \in acted[u] : a = b
    ELSE \A a \in acted[u] : a.sub = u

(* An anonymous client keeps its sessions: unless it lost its cookie, or   *)
(* asked again before its first cookie came (the last response then wins), *)
(* all sessions it has used are those of the cookie it has now.            *)
SessionsStayReachable ==
  \A c \in Clients \ strayed : \A u \in Tokens :
    c \in acted[u] => u = jar[c]

(* In production, and where the deployment is not named, sessions are used *)
(* only with a valid token and the required role (settings.py, fail closed; *)
(* auth/core.py, authenticate_request).                                    *)
ProductionAuthenticates ==
  IsProduction(server.deployment) =>
    \A u \in Users : \A a \in acted[u] : a \in Claims /\ (server.roles => a.role)
=============================================================================
