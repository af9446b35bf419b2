----------------------------- MODULE RestProofs -----------------------------
(***************************************************************************)
(* What RestBinding promises for any number of clients, requests under     *)
(* way, tokens and subjects, and for every server that starts.             *)
(***************************************************************************)
EXTENDS RestBinding, TLAPS

Busy(p) == flight[p] # Free

(* The ways in which a client has to do with an anonymous user.            *)
Holds(c, t) ==
  \/ jar[c] = t
  \/ \E p \in Requests : p[1] = c /\ Busy(p) /\ t \in {flight[p].cookie, flight[p].user}
  \/ c \in acted[t]

(* Without authentication: a token has one holder, and is issued when it   *)
(* has one.                                                                *)
OneHolder ==
  server.auth_disabled =>
    /\ \A t \in Tokens : \A c, d \in Clients : Holds(c, t) /\ Holds(d, t) => c = d
    /\ \A u \in Users : acted[u] \subseteq Clients /\ (acted[u] # {} => u \in issued)

(* With authentication: a user that is bound, or has been served, is the   *)
(* subject of a valid token with the role.                                 *)
Proves(a, u) == a \in Claims /\ a.sub = u /\ (server.roles => a.role)
ClaimsBound ==
  ~server.auth_disabled =>
    /\ \A p \in Requests : Busy(p) /\ flight[p].user \in Users => Proves(flight[p].cred, flight[p].user)
    /\ \A u \in Users : \A a \in acted[u] : Proves(a, u)

(* A cookie that is still to come is unknown to all but its request, which *)
(* names no user in its path; so there is no session of it yet.            *)
CookieUnused ==
  \A p \in Requests : Busy(p) /\ flight[p].cookie \in Tokens =>
    LET t == flight[p].cookie
    IN  /\ server.auth_disabled
        /\ flight[p].kind # "users"
        /\ t \notin store /\ acted[t] = {}
        /\ \A c \in Clients : jar[c] # t
        /\ \A q \in Requests \ {p} : Busy(q) => t \notin {flight[q].cookie, flight[q].user}

(* A client that has not strayed acts for the user of its cookie, and      *)
(* awaits a cookie only while it has none, and then one.                   *)
CookieKept ==
  server.auth_disabled => \A c \in Clients \ strayed :
    /\ \A u \in Tokens : c \in acted[u] => u = jar[c]
    /\ \A p \in Requests : p[1] = c /\ Busy(p) =>
         /\ flight[p].user \in Tokens => flight[p].user \in {jar[c], flight[p].cookie}
         /\ flight[p].cookie \in Tokens =>
              /\ jar[c] \notin Tokens
              /\ \A q \in Requests :
                   q[1] = c /\ Busy(q) /\ flight[q].cookie \in Tokens => q = p

UserInPath == \A p \in Requests : Busy(p) /\ flight[p].kind = "users" => flight[p].user \in Users

Started == server \in Servers /\ RestStarts(server)

RestInv ==
  /\ RestTypeOK /\ Started /\ UserInPath
  /\ OneHolder /\ ClaimsBound /\ CookieUnused /\ CookieKept

-----------------------------------------------------------------------------
(* Before the first request nothing is held. *)
LEMMA Initially == RestInit => RestInv
<1>. SUFFICES ASSUME RestInit PROVE RestInv
  OBVIOUS
<1>1. \A p \in Requests : ~Busy(p)
  BY DEF RestInit, Busy
<1>2. RestTypeOK /\ Started
  BY <1>1 DEF RestInit, RestTypeOK, Started, Busy
<1>3. \A c \in Clients : jar[c] \notin Tokens
  BY RestAssumption DEF RestInit
<1>4. \A u \in Users : acted[u] = {}
  BY DEF RestInit
<1>5. Tokens \subseteq Users
  BY DEF Users
<1>6. OneHolder /\ ClaimsBound /\ CookieUnused /\ CookieKept /\ UserInPath
  BY <1>1, <1>3, <1>4, <1>5 DEF OneHolder, Holds, ClaimsBound, CookieUnused, CookieKept, UserInPath
<1>. QED
  BY <1>2, <1>6 DEF RestInv

(* What a request that is admitted is bound to: without authentication the *)
(* user of the cookie, or of the one to come, which no path can name; with *)
(* authentication the subject of its token.                                *)
LEMMA AdmitBinds ==
  ASSUME RestInv, NEW p \in Requests, NEW r \in Sendable, NEW fresh \in Fresh(p[1]),
         Admit(p, r, fresh)
  PROVE  LET f == flight'[p] IN
         /\ flight' = [flight EXCEPT ![p] = f]
         /\ f \in Flights /\ f.cookie = fresh /\ f.cred = r.cred
         /\ f.kind = "users" => f.user \in Users
         /\ server.auth_disabled =>
              IF First(p[1])
              THEN /\ fresh \in Tokens \ issued /\ jar[p[1]] \notin Tokens
                   /\ f.user \in {fresh, NoOne, Blank} /\ f.kind # "users"
              ELSE /\ fresh = NoCookie /\ jar[p[1]] \in Tokens
                   /\ f.user \in {jar[p[1]], NoOne, Blank}
         /\ ~server.auth_disabled =>
              /\ fresh = NoCookie
              /\ f.user \in Subjects \union {NoOne, Blank}
              /\ f.user \in Users => Proves(f.cred, f.user)
<1>. DEFINE c == p[1]
            subject == Subject(c, r, fresh)
            user == Bound(r, subject)
            f == [at |-> "admitted", user |-> user, cred |-> r.cred,
                  kind |-> IF user = NoOne THEN "other" ELSE r.kind, cookie |-> fresh]
<1>1. c \in Clients /\ NoCookie \notin Tokens
  BY RestAssumption
<1>2. /\ r.kind \in {"other", "users", "run"}
      /\ r.cred \in Claims \union {NoToken, BadToken}
      /\ r.kind = "users" => r.names \in Known
      /\ r.kind = "run" => r.names \in Known \union {Absent, Blank, NoObject}
  BY DEF Admit, Sendable, Credentials
<1>3. flight \in [Requests -> Flights \union {Free}] /\ flight' = [flight EXCEPT ![p] = f]
  BY DEF Admit, RestInv, RestTypeOK
<1>4. flight'[p] = f
  BY <1>3
<1>5. Known \subseteq Users /\ issued \subseteq Tokens
  BY DEF Known, Users, RestInv, RestTypeOK
<1>6. ~Mismatch(r, subject)
  BY DEF Admit
<1>7. CASE server.auth_disabled
  <2>1. subject \in Tokens /\ subject = (IF First(c) THEN fresh ELSE jar[c])
        /\ (IF First(c) THEN fresh \in Tokens \ issued /\ jar[c] \notin Tokens
            ELSE fresh = NoCookie /\ jar[c] \in Tokens)
    BY <1>7 DEF Subject, First, Fresh
  <2>2. user \in {subject, NoOne, Blank}
    BY <1>2, <1>7, <1>5, <1>6 DEF Bound
  <2>3. r.kind = "users" => r.names = subject
    BY <1>2, <1>5, <1>6 DEF Mismatch
  <2>4. r.kind = "users" => ~First(c) /\ user = subject
    <3>1. ASSUME r.kind = "users", First(c) PROVE FALSE
      <4>1. fresh \in Known /\ fresh \in Tokens \ issued
        BY <1>2, <2>1, <2>3, <3>1
      <4>. QED
        BY <4>1, RestAssumption DEF Known
    <3>. QED
      BY <1>2, <1>5, <1>7, <2>3, <3>1, RestAssumption DEF Bound
  <2>. QED
    BY <1>1, <1>2, <1>3, <1>4, <1>5, <1>7, <2>1, <2>2, <2>4, RestAssumption DEF Flights, Users
<1>8. CASE ~server.auth_disabled
  <2>1. r.cred \in Claims /\ (server.roles => r.cred.role) /\ fresh = NoCookie
    BY <1>8 DEF Admit, Authenticated, Fresh, First
  <2>2. subject = r.cred.sub /\ subject \in Subjects
    BY <1>8, <2>1 DEF Subject, Claims
  <2>3. user \in {subject, NoOne, Blank}
    BY <1>2, <1>5, <1>6, <1>8, <2>2 DEF Bound, Mismatch
  <2>4. r.kind = "users" => user \in Users
    BY <1>2, <1>5, <1>8, RestAssumption DEF Bound
  <2>. QED
    BY <1>1, <1>2, <1>3, <1>4, <1>8, <2>1, <2>2, <2>3, <2>4, RestAssumption
       DEF Flights, Users, Proves
<1>. QED
  BY <1>7, <1>8

(* A request to an open path keeps the invariant. *)
LEMMA BypassStep ==
  ASSUME RestInv, NEW p \in Requests, NEW r \in Sendable, Bypass(p, r)
  PROVE  RestInv'
<1>. DEFINE f == [at |-> "admitted", kind |-> "open", user |-> NoOne,
                  cred |-> NoToken, cookie |-> NoCookie]
<1>1. /\ flight' \in [Requests -> Flights \union {Free}]
      /\ flight'[p] = f
      /\ \A q \in Requests \ {p} : flight'[q] = flight[q]
  BY DEF Bypass, RestInv, RestTypeOK, Flights
<1>2. NoOne \notin Users /\ NoCookie \notin Tokens /\ Tokens \subseteq Users
  BY RestAssumption DEF Users
<1>3. UNCHANGED <<server, jar, issued, store, acted, strayed>>
  BY DEF Bypass
<1>4. RestTypeOK' /\ Started' /\ UserInPath'
  BY <1>1, <1>3 DEF RestInv, RestTypeOK, Started, UserInPath, Busy
<1>5. OneHolder'
  <2>1. \A c \in Clients, t \in Tokens : Holds(c, t)' => Holds(c, t)
    BY <1>1, <1>2, <1>3 DEF Holds, Busy
  <2>. QED
    BY <1>3, <2>1 DEF RestInv, OneHolder
<1>6. ClaimsBound' /\ CookieUnused' /\ CookieKept'
  BY <1>1, <1>2, <1>3 DEF RestInv, ClaimsBound, Proves, CookieUnused, CookieKept, Busy
<1>. QED
  BY <1>4, <1>5, <1>6 DEF RestInv

(* Only a token that was issued has a holder. *)
LEMMA HeldIsIssued ==
  ASSUME RestInv, server.auth_disabled, NEW d \in Clients, NEW t \in Tokens, Holds(d, t)
  PROVE  t \in issued
<1>1. t \in Users /\ t \notin {NoOne, Blank, NoCookie, Malformed}
  BY RestAssumption DEF Users
<1>2. CASE jar[d] = t
  BY <1>1, <1>2 DEF RestInv, RestTypeOK
<1>3. ASSUME NEW p \in Requests, Busy(p), t \in {flight[p].cookie, flight[p].user}
      PROVE  t \in issued
  BY <1>1, <1>3 DEF RestInv, RestTypeOK, Busy
<1>4. CASE d \in acted[t]
  BY <1>1, <1>4 DEF RestInv, OneHolder
<1>. QED
  BY <1>2, <1>3, <1>4 DEF Holds

(* So does one that is admitted, with the token it is given if it has none. *)
LEMMA AdmitStep ==
  ASSUME RestInv, NEW p \in Requests, NEW r \in Sendable, NEW fresh \in Fresh(p[1]),
         Admit(p, r, fresh)
  PROVE  RestInv'
<1>. DEFINE c == p[1]
            f == flight'[p]
<1>1. c \in Clients /\ NoCookie \notin Tokens /\ Tokens \subseteq Users
      /\ NoOne \notin Users /\ Blank \notin Users
  BY RestAssumption DEF Users
<1>2. /\ flight' = [flight EXCEPT ![p] = f]
      /\ f \in Flights /\ f.cookie = fresh
      /\ f.kind = "users" => f.user \in Users
  BY AdmitBinds
<1>3. server.auth_disabled =>
        IF First(c)
        THEN /\ fresh \in Tokens \ issued /\ jar[c] \notin Tokens
             /\ f.user \in {fresh, NoOne, Blank} /\ f.kind # "users"
        ELSE /\ fresh = NoCookie /\ jar[c] \in Tokens
             /\ f.user \in {jar[c], NoOne, Blank}
  BY AdmitBinds
<1>4. ~server.auth_disabled =>
        /\ fresh = NoCookie
        /\ f.user \in Subjects \union {NoOne, Blank}
        /\ f.user \in Users => Proves(f.cred, f.user)
  BY AdmitBinds
<1>5. /\ flight' \in [Requests -> Flights \union {Free}]
      /\ \A q \in Requests \ {p} : flight'[q] = flight[q]
      /\ ~Busy(p) /\ f # Free
  BY <1>2, RestAssumption DEF Admit, RestInv, RestTypeOK, Busy
<1>6. /\ UNCHANGED <<server, jar, store, acted>>
      /\ issued' = issued \union ({fresh} \ {NoCookie})
      /\ strayed' = IF First(c) /\ Awaits(c) # {} THEN strayed \union {c} ELSE strayed
  BY DEF Admit
<1>7. RestTypeOK'
  <2>1. issued' \subseteq Tokens /\ strayed' \subseteq Clients
    <3>1. fresh \in Tokens \union {NoCookie}
      BY <1>3, <1>4
    <3>. QED
      BY <1>1, <1>6, <3>1 DEF RestInv, RestTypeOK
  <2>2. f.cookie \in issued' \union {NoCookie}
    BY <1>2, <1>6
  <2>3. f.user \in {NoOne, Blank} \union IF server.auth_disabled THEN issued' ELSE Subjects
    <3>1. server.auth_disabled /\ ~First(c) => jar[c] \in issued
      BY <1>1, <1>3, RestAssumption DEF RestInv, RestTypeOK
    <3>2. server.auth_disabled /\ First(c) => fresh \in issued'
      BY <1>1, <1>3, <1>6
    <3>. QED
      BY <1>3, <1>4, <1>6, <3>1, <3>2
  <2>. QED
    BY <1>5, <1>6, <2>1, <2>2, <2>3 DEF RestInv, RestTypeOK
<1>8. Started' /\ UserInPath'
  BY <1>2, <1>5, <1>6 DEF RestInv, Started, UserInPath, Busy
<1>9. OneHolder'
  <2>. SUFFICES ASSUME server.auth_disabled PROVE OneHolder'
    BY <1>6 DEF OneHolder
  <2>1. ASSUME NEW d \in Clients, NEW t \in Tokens, Holds(d, t)'
        PROVE  Holds(d, t) \/ (d = c /\ t = fresh /\ t \notin issued)
    BY <1>1, <1>2, <1>3, <1>5, <1>6, <2>1 DEF Holds, Busy
  <2>2. \A d \in Clients, t \in Tokens : Holds(d, t) => t \in issued
    BY HeldIsIssued
  <2>. QED
    BY <1>6, <2>1, <2>2 DEF RestInv, OneHolder
<1>10. ClaimsBound'
  BY <1>4, <1>5, <1>6 DEF RestInv, ClaimsBound, Proves, Busy
<1>11. CookieUnused'
  <2>1. ASSUME NEW q \in Requests, Busy(q)', flight'[q].cookie \in Tokens, q # p
        PROVE  flight[q].cookie \notin {f.cookie, f.user}
    <3>1. Busy(q) /\ flight[q].cookie \in Tokens /\ flight'[q] = flight[q]
      BY <1>5, <2>1 DEF Busy
    <3>2. server.auth_disabled /\ flight[q].cookie \in issued /\ jar[c] # flight[q].cookie
      BY <1>1, <3>1 DEF RestInv, RestTypeOK, CookieUnused, Busy
    <3>. QED
      BY <1>1, <1>2, <1>3, <3>1, <3>2
  <2>2. ASSUME f.cookie \in Tokens
        PROVE  /\ server.auth_disabled /\ f.kind # "users"
               /\ f.cookie \notin store /\ acted[f.cookie] = {}
               /\ \A d \in Clients : jar[d] # f.cookie
               /\ \A q \in Requests \ {p} : Busy(q) => f.cookie \notin {flight[q].cookie, flight[q].user}
    <3>1. server.auth_disabled /\ f.kind # "users" /\ f.cookie \in Tokens \ issued
      BY <1>1, <1>2, <1>3, <1>4, <2>2
    <3>2. f.cookie \notin Subjects /\ NoCookie # f.cookie /\ Malformed # f.cookie
          /\ f.cookie \notin {NoOne, Blank}
      BY <1>1, <2>2, RestAssumption
    <3>. QED
      BY <1>1, <3>1, <3>2 DEF RestInv, RestTypeOK, OneHolder, Busy
  <2>. QED
    BY <1>5, <1>6, <2>1, <2>2 DEF RestInv, CookieUnused, Busy
<1>12. CookieKept'
  <2>. SUFFICES ASSUME server.auth_disabled PROVE CookieKept'
    BY <1>6 DEF CookieKept
  <2>1. \A d \in Clients \ strayed' : d \in Clients \ strayed
    BY <1>6
  <2>2. ASSUME c \notin strayed', fresh \in Tokens
        PROVE  \A q \in Requests : q[1] = c /\ Busy(q) => flight[q].cookie \notin Tokens
    BY <1>1, <1>3, <1>6, <2>2 DEF Awaits, Busy
  <2>3. ASSUME NEW d \in Clients \ strayed', NEW q \in Requests, q[1] = d, Busy(q)'
        PROVE  /\ flight'[q].user \in Tokens => flight'[q].user \in {jar[d], flight'[q].cookie}
               /\ flight'[q].cookie \in Tokens =>
                    /\ jar[d] \notin Tokens
                    /\ \A s \in Requests :
                         s[1] = d /\ Busy(s)' /\ flight'[s].cookie \in Tokens => s = q
    <3>1. CASE q = p
      <4>1. flight'[q].user \in Tokens => flight'[q].user \in {jar[d], flight'[q].cookie}
        BY <1>1, <1>2, <1>3, <2>3, <3>1
      <4>2. ASSUME f.cookie \in Tokens
            PROVE  /\ jar[d] \notin Tokens
                   /\ \A s \in Requests :
                        s[1] = d /\ Busy(s)' /\ flight'[s].cookie \in Tokens => s = q
        BY <1>1, <1>2, <1>3, <1>5, <2>2, <2>3, <3>1, <4>2 DEF Busy
      <4>. QED
        BY <3>1, <4>1, <4>2
    <3>2. CASE q # p
      <4>1. Busy(q) /\ flight'[q] = flight[q]
        BY <1>5, <2>3, <3>2 DEF Busy
      <4>2. flight[q].user \in Tokens => flight[q].user \in {jar[d], flight[q].cookie}
        BY <2>1, <2>3, <4>1 DEF RestInv, CookieKept
      <4>3. ASSUME flight[q].cookie \in Tokens
            PROVE  /\ jar[d] \notin Tokens
                   /\ \A s \in Requests :
                        s[1] = d /\ Busy(s)' /\ flight'[s].cookie \in Tokens => s = q
        <5>1. jar[d] \notin Tokens
              /\ \A s \in Requests : s[1] = d /\ Busy(s) /\ flight[s].cookie \in Tokens => s = q
          BY <2>1, <2>3, <4>1, <4>3 DEF RestInv, CookieKept
        <5>2. d = c => f.cookie \notin Tokens
          BY <1>1, <1>2, <2>2, <2>3, <4>1, <4>3
        <5>. QED
          BY <1>5, <2>3, <5>1, <5>2 DEF Busy
      <4>. QED
        BY <4>1, <4>2, <4>3
    <3>. QED
      BY <3>1, <3>2
  <2>. QED
    BY <1>6, <2>1, <2>3 DEF RestInv, CookieKept
<1>. QED
  BY <1>7, <1>8, <1>9, <1>10, <1>11, <1>12 DEF RestInv

(* Serving a request adds its client to those who have used the user's     *)
(* sessions: it was a holder before.  A session that is created is not of  *)
(* a token that is still to come.                                          *)
LEMMA ServeStep ==
  ASSUME RestInv, NEW p \in Requests, Serve(p)
  PROVE  RestInv'
<1>. DEFINE c == p[1]
            f == flight[p]
<1>1. c \in Clients /\ Tokens \subseteq Users /\ NoCookie \notin Tokens
      /\ NoOne \notin Users /\ Blank \notin Users /\ Subjects \subseteq Users
  BY RestAssumption DEF Users
<1>2. /\ f \in Flights /\ Busy(p)
      /\ f.user \in {NoOne, Blank} \union IF server.auth_disabled THEN issued ELSE Subjects
  BY DEF Serve, RestInv, RestTypeOK, Busy
<1>3. Uses(f) => f.user \in Users
  BY <1>1, <1>2 DEF Uses, RestInv, RestTypeOK, UserInPath
<1>4. /\ flight' \in [Requests -> Flights \union {Free}]
      /\ flight'[p] = [f EXCEPT !.at = "served"]
      /\ \A q \in Requests \ {p} : flight'[q] = flight[q]
  BY <1>2 DEF Serve, RestInv, RestTypeOK, Flights
<1>5. \A q \in Requests :
        /\ Busy(q)' <=> Busy(q)
        /\ Busy(q) => /\ flight'[q].user = flight[q].user /\ flight'[q].kind = flight[q].kind
                      /\ flight'[q].cred = flight[q].cred /\ flight'[q].cookie = flight[q].cookie
  <2>1. flight'[p] \in Flights
    BY <1>2, <1>4 DEF Flights
  <2>. QED
    BY <1>2, <1>4, <2>1, RestAssumption DEF Busy, Flights
<1>6. /\ UNCHANGED <<server, jar, issued, strayed>>
      /\ store' = IF f.kind = "users" THEN store \union {f.user} ELSE store
  BY DEF Serve
<1>7. Uses(f) => /\ server.auth_disabled => Caller(c, f) = c
                 /\ ~server.auth_disabled => Caller(c, f) = f.cred /\ Proves(f.cred, f.user)
  BY <1>2, <1>3 DEF Caller, RestInv, ClaimsBound
<1>8. /\ acted' \in [Users -> SUBSET (Clients \union Claims)]
      /\ \A u \in Users : acted'[u] = IF Uses(f) /\ u = f.user
                                    THEN acted[u] \union {Caller(c, f)} ELSE acted[u]
  <2>1. Uses(f) => Caller(c, f) \in Clients \union Claims
    BY <1>1, <1>7 DEF Proves
  <2>. QED
    BY <1>3, <2>1 DEF Serve, RestInv, RestTypeOK
<1>9. Uses(f) => f.user \in IF server.auth_disabled THEN issued ELSE Subjects
  BY <1>1, <1>2, <1>3
<1>10. f.kind = "users" => Uses(f)
  BY DEF Uses
<1>11. RestTypeOK' /\ Started' /\ UserInPath'
  <2>1. store' \subseteq Subjects \union issued
    BY <1>6, <1>9, <1>10 DEF RestInv, RestTypeOK
  <2>. QED
    BY <1>4, <1>5, <1>6, <1>8, <2>1 DEF RestInv, RestTypeOK, Started, UserInPath, Busy
<1>12. OneHolder'
  <2>. SUFFICES ASSUME server.auth_disabled PROVE OneHolder'
    BY <1>6 DEF OneHolder
  <2>1. ASSUME NEW d \in Clients, NEW t \in Tokens, Holds(d, t)'
        PROVE  Holds(d, t)
    <3>1. d \in acted'[t] => d \in acted[t] \/ (d = c /\ t = f.user)
      BY <1>1, <1>7, <1>8
    <3>. QED
      BY <1>2, <1>5, <1>6, <2>1, <3>1 DEF Holds
  <2>2. ASSUME NEW u \in Users
        PROVE  acted'[u] \subseteq Clients /\ (acted'[u] # {} => u \in issued)
    BY <1>1, <1>7, <1>8, <1>9 DEF RestInv, OneHolder
  <2>. QED
    BY <1>6, <2>1, <2>2 DEF RestInv, OneHolder
<1>13. ClaimsBound'
  <2>. SUFFICES ASSUME ~server.auth_disabled PROVE ClaimsBound'
    BY <1>6 DEF ClaimsBound
  <2>1. \A a, u : Proves(a, u)' <=> Proves(a, u)
    BY <1>6 DEF Proves
  <2>2. ASSUME NEW u \in Users, NEW a \in acted'[u] PROVE Proves(a, u)
    BY <1>7, <1>8, <2>2 DEF RestInv, ClaimsBound
  <2>3. ASSUME NEW q \in Requests, Busy(q), flight[q].user \in Users
        PROVE  Proves(flight'[q].cred, flight'[q].user)
    BY <1>5, <2>3 DEF RestInv, ClaimsBound
  <2>. QED
    BY <1>5, <1>6, <2>1, <2>2, <2>3 DEF ClaimsBound
<1>14. \A q \in Requests : Busy(q) /\ flight[q].cookie \in Tokens /\ Uses(f) => f.user # flight[q].cookie
  BY <1>2 DEF RestInv, CookieUnused, Uses
<1>15. CookieUnused'
  BY <1>1, <1>5, <1>6, <1>8, <1>10, <1>14 DEF RestInv, CookieUnused
<1>16. CookieKept'
  <2>. SUFFICES ASSUME server.auth_disabled PROVE CookieKept'
    BY <1>6 DEF CookieKept
  <2>1. ASSUME NEW d \in Clients \ strayed, NEW u \in Tokens, d \in acted'[u]
        PROVE  u = jar[d]
    <3>1. d \in acted[u] \/ (Uses(f) /\ d = c /\ u = f.user)
      BY <1>1, <1>7, <1>8, <2>1
    <3>2. Uses(f) /\ d = c /\ u = f.user => f.user # f.cookie
      BY <1>2, <1>14
    <3>. QED
      BY <1>2, <2>1, <3>1, <3>2 DEF RestInv, CookieKept
  <2>. QED
    BY <1>5, <1>6, <2>1 DEF RestInv, CookieKept
<1>. QED
  BY <1>11, <1>12, <1>13, <1>15, <1>16 DEF RestInv

(* A request that ends has no part in anything any more. *)
LEMMA Freed ==
  ASSUME RestInv, NEW p \in Requests, flight' = [flight EXCEPT ![p] = Free]
  PROVE  /\ flight' \in [Requests -> Flights \union {Free}]
         /\ ~Busy(p)'
         /\ \A q \in Requests \ {p} : flight'[q] = flight[q]
         /\ \A q \in Requests : Busy(q)' => Busy(q) /\ q # p /\ flight'[q] = flight[q]
BY DEF RestInv, RestTypeOK, Busy

(* The response leaves its cookie in the jar of the client that held it;   *)
(* a client that has not strayed has used no session before.               *)
LEMMA RespondStep ==
  ASSUME RestInv, NEW p \in Requests, Respond(p)
  PROVE  RestInv'
<1>. DEFINE c == p[1]
            t == flight[p].cookie
<1>1. c \in Clients /\ Tokens \subseteq Users /\ NoCookie \notin Tokens
  BY RestAssumption DEF Users
<1>2. flight[p] \in Flights /\ Busy(p) /\ t \in issued \union {NoCookie} /\ issued \subseteq Tokens
  BY DEF Respond, RestInv, RestTypeOK, Busy
<1>3. /\ flight' \in [Requests -> Flights \union {Free}]
      /\ \A q \in Requests : Busy(q)' => Busy(q) /\ q # p /\ flight'[q] = flight[q]
  BY Freed DEF Respond
<1>4. /\ jar' \in [Clients -> issued \union {NoCookie, Malformed}]
      /\ \A d \in Clients : jar'[d] = IF d = c /\ t # NoCookie THEN t ELSE jar[d]
  BY <1>1, <1>2 DEF Respond, Cookie, RestInv, RestTypeOK
<1>5. UNCHANGED <<server, issued, store, acted, strayed>>
  BY DEF Respond
<1>6. RestTypeOK' /\ Started' /\ UserInPath'
  BY <1>3, <1>4, <1>5 DEF RestInv, RestTypeOK, Started, UserInPath, Busy
<1>7. OneHolder'
  <2>1. ASSUME NEW d \in Clients, NEW s \in Tokens, Holds(d, s)'
        PROVE  Holds(d, s)
    BY <1>2, <1>3, <1>4, <1>5, <2>1 DEF Holds
  <2>. QED
    BY <1>5, <2>1 DEF RestInv, OneHolder
<1>8. ClaimsBound'
  BY <1>3, <1>5 DEF RestInv, ClaimsBound, Proves
<1>9. CookieUnused'
  <2>1. ASSUME NEW q \in Requests, Busy(q)', flight'[q].cookie \in Tokens, NEW d \in Clients
        PROVE  jar'[d] # flight'[q].cookie
    BY <1>2, <1>3, <1>4, <2>1 DEF RestInv, CookieUnused
  <2>. QED
    BY <1>3, <1>5, <2>1 DEF RestInv, CookieUnused
<1>10. CookieKept'
  <2>. SUFFICES ASSUME server.auth_disabled, NEW d \in Clients \ strayed
                PROVE  /\ \A u \in Tokens : d \in acted[u] => u = jar'[d]
                       /\ \A q \in Requests : q[1] = d /\ Busy(q)' =>
                            /\ flight'[q].user \in Tokens => flight'[q].user \in {jar'[d], flight'[q].cookie}
                            /\ flight'[q].cookie \in Tokens =>
                                 /\ jar'[d] \notin Tokens
                                 /\ \A s \in Requests :
                                      s[1] = d /\ Busy(s)' /\ flight'[s].cookie \in Tokens => s = q
    BY <1>5 DEF CookieKept
  <2>1. CASE d = c /\ t # NoCookie
    <3>1. t \in Tokens /\ jar[d] \notin Tokens
          /\ \A q \in Requests : q[1] = d /\ Busy(q) /\ flight[q].cookie \in Tokens => q = p
      BY <1>2, <2>1 DEF RestInv, CookieKept
    <3>2. \A u \in Tokens : d \notin acted[u]
      BY <3>1 DEF RestInv, CookieKept
    <3>3. ASSUME NEW q \in Requests, q[1] = d, Busy(q)'
          PROVE  flight'[q].cookie \notin Tokens /\ flight'[q].user \notin Tokens
      BY <1>3, <3>1, <3>3 DEF RestInv, CookieKept
    <3>. QED
      BY <3>2, <3>3
  <2>2. CASE ~(d = c /\ t # NoCookie)
    BY <1>3, <1>4, <2>2 DEF RestInv, CookieKept
  <2>. QED
    BY <2>1, <2>2
<1>. QED
  BY <1>6, <1>7, <1>8, <1>9, <1>10 DEF RestInv

(* So does a response that is lost. *)
LEMMA LoseStep ==
  ASSUME RestInv, NEW p \in Requests, Lose(p)
  PROVE  RestInv'
<1>1. /\ flight' \in [Requests -> Flights \union {Free}]
      /\ \A q \in Requests : Busy(q)' => Busy(q) /\ q # p /\ flight'[q] = flight[q]
  BY Freed DEF Lose
<1>2. UNCHANGED <<server, jar, issued, store, acted, strayed>>
  BY DEF Lose
<1>3. RestTypeOK' /\ Started' /\ UserInPath'
  BY <1>1, <1>2 DEF RestInv, RestTypeOK, Started, UserInPath, Busy
<1>4. OneHolder'
  <2>1. \A d \in Clients, s \in Tokens : Holds(d, s)' => Holds(d, s)
    BY <1>1, <1>2 DEF Holds
  <2>. QED
    BY <1>2, <2>1 DEF RestInv, OneHolder
<1>5. ClaimsBound' /\ CookieUnused' /\ CookieKept'
  BY <1>1, <1>2 DEF RestInv, ClaimsBound, Proves, CookieUnused, CookieKept
<1>. QED
  BY <1>3, <1>4, <1>5 DEF RestInv

(* So does a cookie that expires. *)
LEMMA ExpireStep ==
  ASSUME RestInv, NEW c \in Clients, Expire(c)
  PROVE  RestInv'
<1>1. NoCookie \notin Tokens
  BY RestAssumption
<1>2. /\ jar' \in [Clients -> issued \union {NoCookie, Malformed}]
      /\ jar'[c] = NoCookie
      /\ \A d \in Clients \ {c} : jar'[d] = jar[d]
  BY DEF Expire, RestInv, RestTypeOK
<1>3. UNCHANGED <<server, flight, issued, store, acted>> /\ strayed' = strayed \union {c}
  BY DEF Expire
<1>4. RestTypeOK' /\ Started' /\ UserInPath'
  BY <1>2, <1>3 DEF RestInv, RestTypeOK, Started, UserInPath, Busy
<1>5. OneHolder'
  <2>1. \A d \in Clients, s \in Tokens : Holds(d, s)' => Holds(d, s)
    BY <1>1, <1>2, <1>3 DEF Holds, Busy
  <2>. QED
    BY <1>3, <2>1 DEF RestInv, OneHolder
<1>6. ClaimsBound' /\ CookieUnused' /\ CookieKept'
  BY <1>1, <1>2, <1>3 DEF RestInv, ClaimsBound, Proves, CookieUnused, CookieKept, Busy
<1>. QED
  BY <1>4, <1>5, <1>6 DEF RestInv

(* So does doing nothing. *)
LEMMA StutterStep ==
  ASSUME RestInv, UNCHANGED restvars
  PROVE  RestInv'
<1>1. RestTypeOK' /\ Started' /\ UserInPath'
  BY DEF restvars, RestInv, RestTypeOK, Started, UserInPath, Busy
<1>2. OneHolder' /\ ClaimsBound'
  BY DEF restvars, RestInv, OneHolder, Holds, ClaimsBound, Proves, Busy
<1>3. CookieUnused' /\ CookieKept'
  BY DEF restvars, RestInv, CookieUnused, CookieKept, Busy
<1>. QED
  BY <1>1, <1>2, <1>3 DEF RestInv

(* Every step keeps the invariant. *)
LEMMA InvStep == RestInv /\ [RestNext]_restvars => RestInv'
<1>. SUFFICES ASSUME RestInv, [RestNext]_restvars PROVE RestInv'
  OBVIOUS
<1>1. ASSUME NEW p \in Requests, Arrives(p) PROVE RestInv'
  <2>1. PICK r \in Sendable :
          Bypass(p, r) \/ (\E fresh \in Fresh(p[1]) : Admit(p, r, fresh) \/ Refuse(p, r, fresh))
    BY <1>1 DEF Arrives
  <2>2. CASE Bypass(p, r)
    BY <2>2, BypassStep
  <2>3. ASSUME NEW fresh \in Fresh(p[1]), Admit(p, r, fresh) PROVE RestInv'
    BY <2>3, AdmitStep
  <2>4. ASSUME NEW fresh \in Fresh(p[1]), Refuse(p, r, fresh) PROVE RestInv'
    BY <2>4, StutterStep DEF Refuse
  <2>. QED
    BY <2>1, <2>2, <2>3, <2>4
<1>2. ASSUME NEW p \in Requests, Serve(p) PROVE RestInv'
  BY <1>2, ServeStep
<1>3. ASSUME NEW p \in Requests, Respond(p) PROVE RestInv'
  BY <1>3, RespondStep
<1>4. ASSUME NEW p \in Requests, Lose(p) PROVE RestInv'
  BY <1>4, LoseStep
<1>5. ASSUME NEW c \in Clients, Expire(c) PROVE RestInv'
  BY <1>5, ExpireStep
<1>. QED
  BY <1>1, <1>2, <1>3, <1>4, <1>5, StutterStep DEF RestNext

-----------------------------------------------------------------------------
(* The strengthened invariant of the REST interface: who holds a token, to *)
(* what a request is bound, which cookies are still to come.               *)
THEOREM Invariance == RestSpec => []RestInv
BY Initially, InvStep, PTL DEF RestSpec

(* The types hold for every instance; nobody is bound to a token that was  *)
(* not issued, or to the literal "anonymous".                              *)
THEOREM TypeCorrect == RestSpec => []RestTypeOK
<1>1. RestInv => RestTypeOK
  BY DEF RestInv
<1>. QED
  BY <1>1, Invariance, PTL

(* The sessions of a user are used by that user alone, and without         *)
(* authentication by one client alone, for any number of clients, however  *)
(* their requests overlap and whatever users they name.                    *)
THEOREM Apart == RestSpec => []SessionsStayApart
<1>1. RestInv => SessionsStayApart
  <2>. SUFFICES ASSUME RestInv, NEW u \in Users
                PROVE  IF server.auth_disabled THEN \A a, b \in acted[u] : a = b
                       ELSE \A a \in acted[u] : a.sub = u
    BY DEF SessionsStayApart
  <2>1. CASE server.auth_disabled
    <3>1. ASSUME NEW a \in acted[u], NEW b \in acted[u] PROVE a = b
      <4>1. a \in Clients /\ b \in Clients /\ u \in Tokens
        BY <2>1, <3>1 DEF RestInv, OneHolder, RestTypeOK
      <4>2. Holds(a, u) /\ Holds(b, u)
        BY <3>1 DEF Holds
      <4>. QED
        BY <2>1, <4>1, <4>2 DEF RestInv, OneHolder
    <3>. QED
      BY <2>1, <3>1
  <2>2. CASE ~server.auth_disabled
    BY <2>2 DEF RestInv, ClaimsBound, Proves
  <2>. QED
    BY <2>1, <2>2
<1>. QED
  BY <1>1, Invariance, PTL

(* An anonymous client that has not strayed reaches all sessions it has    *)
(* used with the cookie it has.                                            *)
THEOREM Reachable == RestSpec => []SessionsStayReachable
<1>1. RestInv => SessionsStayReachable
  <2>. SUFFICES ASSUME RestInv, NEW c \in Clients \ strayed, NEW u \in Tokens, c \in acted[u]
                PROVE  u = jar[c]
    BY DEF SessionsStayReachable
  <2>1. CASE server.auth_disabled
    BY <2>1 DEF RestInv, CookieKept
  <2>2. CASE ~server.auth_disabled
    BY <2>2, RestAssumption DEF RestInv, ClaimsBound, Proves, Users
  <2>. QED
    BY <2>1, <2>2
<1>. QED
  BY <1>1, Invariance, PTL

(* Production, named or not, serves sessions only to valid tokens with the *)
(* required role: no server starts there that would not ask for them.      *)
THEOREM Authenticates == RestSpec => []ProductionAuthenticates
<1>1. RestInv => ProductionAuthenticates
  BY DEF RestInv, Started, RestStarts, Imports, ClaimsBound, Proves, ProductionAuthenticates
<1>. QED
  BY <1>1, Invariance, PTL
=============================================================================
