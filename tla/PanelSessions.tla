---------------------------- MODULE PanelSessions ----------------------------
(***************************************************************************)
(* Logins, sessions and passwords of the two panels                        *)
(* (subscription_service.py, http_utils.py).                               *)
(*                                                                         *)
(* Requests run in worker threads: a login reserves a verification slot,   *)
(* reads the stored hash, verifies, gives the slot back and mints a        *)
(* session, each under a lock of its own; a password change commits under  *)
(* one lock and replaces the sessions under another.  A secret is the      *)
(* number of its version, a stored hash and its generation the version     *)
(* they were made from: hash_secret salts, so no two are alike.            *)
(***************************************************************************)
EXTENDS Naturals, FiniteSets, Sequences

CONSTANTS Admin, Users,         \* the administrator and the accounts
          Clients,              \* addresses visitors really have
          Loopback,             \* ... and the address of nginx
          Workers,              \* threads of the pool, SERVER_MAX_WORKERS of them
          LoginMax,             \* _LOGIN_MAX
          LoginWindow,          \* _LOGIN_WINDOW
          MaxIps,               \* _LOGIN_FAILURES_MAX_IPS
          SessionTtl, SessionMaxPerIdentity, SessionMaxGlobal,
          MaxTime, MaxVersion,  \* bounds of the instance: clock, versions of a
          MaxRequests, MaxFaults \* secret, requests, failures and restarts

ASSUME PanelAssumption ==
  /\ Admin \notin Users /\ Loopback \notin Clients
  /\ IsFiniteSet(Users) /\ IsFiniteSet(Workers)
  /\ {LoginMax, LoginWindow, MaxIps, SessionTtl} \subseteq Nat \ {0}
  /\ {SessionMaxPerIdentity, SessionMaxGlobal} \subseteq Nat \ {0}
  /\ {MaxTime, MaxVersion, MaxRequests, MaxFaults} \subseteq Nat

Accounts == Users \cup {Admin}
Realms == {"admin", "user"}
Realm(a) == IF a = Admin THEN "admin" ELSE "user"
NoGeneration == MaxVersion + 1          \* a session of an older release
Password == "panel_password"
Token == "subscription_token"
Versions == 0..MaxVersion
Wrong == MaxVersion + 1                 \* a password nobody ever had

VARIABLES now,
          secret,               \* version of panel_pass_hash / admin_pass_hash
          token,                \* version of sub_token
          mustChange, disabled, \* the accounts' flags
          sessions,             \* the two session files, oldest entry first
          failures,             \* the limiter: addresses in order of insertion
          inflight,             \* ... and the slots in use
          req,                  \* what a worker is doing
          requests, faults,     \* counted against MaxRequests, MaxFaults
          wrong,                \* history: times of a client's wrong verifications
          leaked,               \* history: slots a failed request never gave back
          purged                \* history: accounts whose sessions were revoked

limiter == <<failures, inflight, wrong, leaked>>
accounts == <<secret, token, mustChange, disabled>>
vars == <<now, accounts, sessions, limiter, req, requests, faults, purged>>

Idle == [pc |-> "idle"]
Done(w) == req' = [req EXCEPT ![w] = Idle]

(* A request the worker w is free to take; the others get a 503.           *)
Take(w, r) == /\ req[w] = Idle /\ requests < MaxRequests
              /\ requests' = requests + 1
              /\ req' = [req EXCEPT ![w] = r]

Legacy(u) == [user |-> u, kind |-> Password, gen |-> NoGeneration,
              exp |-> SessionTtl, proof |-> 0]

Init == /\ now = 0
        /\ secret = [a \in Accounts |-> 0] /\ token = [u \in Users |-> 0]
        /\ mustChange = [u \in Users |-> FALSE] /\ disabled = [u \in Users |-> FALSE]
        /\ sessions \in [Realms -> {<<>>} \cup {<<Legacy(u)>> : u \in Accounts}]
        /\ \A r \in Realms : \A i \in 1..Len(sessions[r]) : Realm(sessions[r][i].user) = r
        /\ failures = [r \in Realms |-> <<>>]
        /\ inflight = [r \in Realms |-> [c \in Clients |-> 0]]
        /\ req = [w \in Workers |-> Idle]
        /\ requests = 0 /\ faults = 0
        /\ wrong = [r \in Realms |-> [c \in Clients |-> <<>>]]
        /\ leaked = [r \in Realms |-> [c \in Clients |-> 0]]
        /\ purged = {}

-----------------------------------------------------------------------------
(* The entries of a list whose index is in kept, in the order of the list. *)
Only(list, kept) ==
  LET at(k) == CHOOSE i \in kept : Cardinality({j \in kept : j < i}) = k - 1
  IN [k \in 1..Cardinality(kept) |-> list[at(k)]]

-----------------------------------------------------------------------------
(* The login limiter                                                       *)

request_client_ip(peer, header) == IF peer = Loopback THEN header ELSE peer

Fresh(times) == Only(times, {i \in DOMAIN times : now - times[i] < LoginWindow})

Places(dict, ip) == {i \in DOMAIN dict : dict[i].ip = ip}

Times(dict, ip) ==
  IF Places(dict, ip) = {} THEN <<>> ELSE dict[CHOOSE i \in Places(dict, ip) : TRUE].times

Without(dict, ip) == Only(dict, DOMAIN dict \ Places(dict, ip))

(* d[ip] = times keeps the place of an entry that is there.                *)
Put(dict, ip, times) ==
  IF Places(dict, ip) # {}
  THEN [i \in DOMAIN dict |-> IF dict[i].ip = ip THEN [ip |-> ip, times |-> times] ELSE dict[i]]
  ELSE Append(dict, [ip |-> ip, times |-> times])

Prune(dict, ip) ==
  LET times == Fresh(Times(dict, ip)) IN
  IF times = <<>> THEN Without(dict, ip) ELSE Put(dict, ip, times)

(* At the limit the address tracked longest makes room.                    *)
Evicted(dict, ip) ==
  IF Times(dict, ip) = <<>> /\ Len(dict) >= MaxIps THEN {Head(dict).ip} ELSE {}

RecordFailure(dict, ip) ==
  LET room == IF Evicted(dict, ip) = {} THEN dict ELSE Tail(dict) IN
  Put(room, ip, Append(Times(room, ip), now))

\* Mutant: only failures that are already recorded count.
BeginIgnoringInflight(w) ==
  LET r == Realm(req[w].user)  ip == req[w].ip  dict == Prune(failures[r], ip) IN
  /\ req[w].pc = "arrived"
  /\ failures' = [failures EXCEPT ![r] = dict]
  /\ IF Len(Times(dict, ip)) >= LoginMax
     THEN Done(w) /\ UNCHANGED inflight
     ELSE /\ inflight' = [inflight EXCEPT ![r][ip] = @ + 1]
          /\ req' = [req EXCEPT ![w].pc = "begun"]
  /\ UNCHANGED <<now, accounts, sessions, wrong, leaked, requests, faults, purged>>

(* _begin_login_attempt: one slot is reserved before the hash is computed, *)
(* or the visitor is told to come back in an hour.                         *)
BeginLoginAttempt(w) ==
  LET r == Realm(req[w].user)  ip == req[w].ip  dict == Prune(failures[r], ip) IN
  /\ req[w].pc = "arrived"
  /\ failures' = [failures EXCEPT ![r] = dict]
  /\ IF Len(Times(dict, ip)) + inflight[r][ip] >= LoginMax
     THEN Done(w) /\ UNCHANGED inflight
     ELSE /\ inflight' = [inflight EXCEPT ![r][ip] = @ + 1]
          /\ req' = [req EXCEPT ![w].pc = "begun"]
  /\ UNCHANGED <<now, accounts, sessions, wrong, leaked, requests, faults, purged>>

Minting(r) == [pc |-> "minting", user |-> r.user, kind |-> r.kind,
               guess |-> r.guess, hash |-> r.hash]

\* Mutant: a login of a disabled account returns without giving the slot back.
FinishForgetsBlocked(w) ==
  LET r == Realm(req[w].user)  ip == req[w].ip  evicted == Evicted(failures[r], ip) IN
  /\ req[w].pc = "verified"
  /\ inflight' = IF req[w].ok = "blocked" THEN inflight
                 ELSE [inflight EXCEPT ![r][ip] = IF @ = 0 THEN 0 ELSE @ - 1]
  /\ CASE req[w].ok = "yes" -> /\ failures' = [failures EXCEPT ![r] = Without(@, ip)]
                               /\ wrong' = [wrong EXCEPT ![r][ip] = <<>>]
                               /\ req' = [req EXCEPT ![w] = Minting(@)]
       [] req[w].ok = "blocked" -> Done(w) /\ UNCHANGED <<failures, wrong>>
       [] req[w].ok = "no" -> /\ failures' = [failures EXCEPT ![r] = RecordFailure(@, ip)]
                              /\ wrong' = [wrong EXCEPT ![r] = [c \in Clients |->
                                             IF c \in evicted THEN <<>> ELSE @[c]]]
                              /\ Done(w)
  /\ UNCHANGED <<now, accounts, sessions, leaked, requests, faults, purged>>

(* _finish_login_attempt: a success forgives the address, a failure is     *)
(* dated, and a right password of a disabled account is neither.           *)
FinishLoginAttempt(w) ==
  LET r == Realm(req[w].user)  ip == req[w].ip  evicted == Evicted(failures[r], ip) IN
  /\ req[w].pc = "verified"
  /\ inflight' = [inflight EXCEPT ![r][ip] = IF @ = 0 THEN 0 ELSE @ - 1]
  /\ CASE req[w].ok = "yes" -> /\ failures' = [failures EXCEPT ![r] = Without(@, ip)]
                               /\ wrong' = [wrong EXCEPT ![r][ip] = <<>>]
                               /\ req' = [req EXCEPT ![w] = Minting(@)]
       [] req[w].ok = "blocked" -> Done(w) /\ UNCHANGED <<failures, wrong>>
       [] req[w].ok = "no" -> /\ failures' = [failures EXCEPT ![r] = RecordFailure(@, ip)]
                              /\ wrong' = [wrong EXCEPT ![r] = [c \in Clients |->
                                             IF c \in evicted THEN <<>> ELSE @[c]]]
                              /\ Done(w)
  /\ UNCHANGED <<now, accounts, sessions, leaked, requests, faults, purged>>

-----------------------------------------------------------------------------
(* Sessions                                                                *)

Alive(file) == {i \in DOMAIN file : file[i].exp > now}

AliveSessions(file) == Only(file, Alive(file))

Own(file, user) == {i \in DOMAIN file : file[i].user = user}

Session(r) == [user |-> r.user, kind |-> r.kind, gen |-> r.hash,
               exp |-> now + SessionTtl, proof |-> r.guess]

(* How many of the entries own come before entry i when they are sorted by *)
(* expiry, last first; among equals the order of the file.                 *)
Rank(file, own, i) == Cardinality({j \in own : \/ file[j].exp > file[i].exp
                                               \/ file[j].exp = file[i].exp /\ j < i})

Newest(file, own, n) == {i \in own : Rank(file, own, i) < n}

\* Mutant: the session to be made is not counted.
CapOffByOne(file, user) ==
  LET own == Own(file, user)
  IN Only(file, (DOMAIN file \ own) \cup Newest(file, own, SessionMaxPerIdentity))

(* The sessions of user past its cap go, the oldest first.                 *)
CapIdentity(file, user) ==
  LET own == Own(file, user)
  IN Only(file, (DOMAIN file \ own) \cup Newest(file, own, SessionMaxPerIdentity - 1))

(* A full file gives up what expires first, whoever it belongs to, and is  *)
(* left in the sorted order.                                               *)
Sorted(file, n) ==
  LET at(k) == CHOOSE i \in DOMAIN file : Rank(file, DOMAIN file, i) = k - 1
  IN [k \in 1..n |-> file[at(k)]]

CapGlobal(file) ==
  IF Len(file) >= SessionMaxGlobal THEN Sorted(file, SessionMaxGlobal - 1) ELSE file

\* Mutant: the generation is read again when the session is made.
CreateRereads(w) ==
  LET r == req[w]  f == Realm(r.user)
      made == [Session(r) EXCEPT !.gen = IF r.kind = Token THEN token[r.user] ELSE secret[r.user]] IN
  /\ r.pc = "minting"
  /\ sessions' = [sessions EXCEPT ![f] =
                    Append(CapGlobal(CapIdentity(AliveSessions(@), r.user)), made)]
  /\ Done(w)
  /\ UNCHANGED <<now, accounts, limiter, requests, faults, purged>>

(* _create_session, bound to the hash the visitor was verified against.    *)
CreateSession(w) ==
  LET r == req[w]  f == Realm(r.user) IN
  /\ r.pc = "minting"
  /\ sessions' = [sessions EXCEPT ![f] =
                    Append(CapGlobal(CapIdentity(AliveSessions(@), r.user)), Session(r))]
  /\ Done(w)
  /\ UNCHANGED <<now, accounts, limiter, requests, faults, purged>>

(* _replace_sessions_with_new: the administrator's file is emptied.        *)
ReplaceSessionsWithNew(w) ==
  LET r == req[w]  f == Realm(r.user)
      others == Only(sessions[f], Alive(sessions[f]) \ Own(sessions[f], r.user))
  IN /\ r.pc = "replacing"
     /\ sessions' = [sessions EXCEPT ![f] =
                       Append(IF r.user = Admin THEN <<>> ELSE others, Session(r))]
     /\ purged' = purged \cup {r.user}
     /\ Done(w)
     /\ UNCHANGED <<now, accounts, limiter, requests, faults>>

(* delete_user_sessions_for, after a reset or a disable is committed.      *)
DeleteSessionsFor(w) ==
  /\ req[w].pc = "purging"
  /\ sessions' = [sessions EXCEPT !["user"] =
                    Only(@, Alive(@) \ Own(@, req[w].user))]
  /\ purged' = purged \cup {req[w].user}
  /\ Done(w)
  /\ UNCHANGED <<now, accounts, limiter, requests, faults>>

(* A session counts if it was made from the credential that is stored now; *)
(* one without a generation counts until it expires.                       *)
Usable(s) ==
  /\ s.exp > now
  /\ \/ s.gen = NoGeneration
     \/ s.gen = IF s.kind = Token THEN token[s.user] ELSE secret[s.user]

RemoveSession(f, i) ==
  sessions' = [sessions EXCEPT ![f] = Only(@, Alive(@) \ {i})]

(* A page asked for with a cookie: a session that no longer counts is      *)
(* deleted (is_logged_in, get_logged_in_user_context).                     *)
VisitStale(f, i) ==
  /\ ~ Usable(sessions[f][i])
  /\ RemoveSession(f, i)
  /\ UNCHANGED <<now, accounts, limiter, req, requests, faults, purged>>

Logout(f, i) ==
  /\ RemoveSession(f, i)
  /\ UNCHANGED <<now, accounts, limiter, req, requests, faults, purged>>

-----------------------------------------------------------------------------
(* Logins                                                                  *)

verify_secret(plain, hash) == plain = hash

(* The account may not be used: disabled or past its expiry date, which    *)
(* are one flag here.                                                      *)
Blocked(a) == a \in Users /\ disabled[a]

(* What a visitor may give as the password of a: the one stored, an        *)
(* earlier one, or none of them.                                           *)
Guesses(a) == 0..secret[a] \cup {Wrong}

(* POST /login and /user/login: a visitor, directly or through nginx,      *)
(* tries the version g of a password.  /login has loaded the               *)
(* administrator's hash before it asks for a slot.                         *)
Login(w, a, peer, header, g) ==
  /\ Take(w, [pc |-> "arrived", user |-> a, kind |-> Password, guess |-> g,
              ip |-> request_client_ip(peer, header),
              client |-> IF peer = Loopback THEN header ELSE peer,
              hash |-> IF a = Admin THEN secret[a] ELSE NoGeneration, ok |-> "no"])
  /\ UNCHANGED <<now, accounts, sessions, limiter, faults, purged>>

VerifyLogin(w) ==
  LET r == req[w]
      hash == IF r.user = Admin THEN r.hash ELSE secret[r.user]
      ok == CASE ~ verify_secret(r.guess, hash) -> "no"
              [] Blocked(r.user) -> "blocked"
              [] OTHER -> "yes"
  IN /\ r.pc = "begun"
     /\ req' = [req EXCEPT ![w].pc = "verified", ![w].hash = hash, ![w].ok = ok]
     /\ wrong' = IF ok = "no" THEN [wrong EXCEPT ![Realm(r.user)][r.client] = Append(Fresh(@), now)]
                 ELSE wrong
     /\ UNCHANGED <<now, accounts, sessions, failures, inflight, leaked, requests, faults, purged>>

(* users.json cannot be read: the request ends in a 503 with its slot      *)
(* still reserved.                                                         *)
UserReadFails(w) ==
  /\ faults < MaxFaults
  /\ req[w].pc = "begun" /\ req[w].user # Admin
  /\ faults' = faults + 1
  /\ leaked' = [leaked EXCEPT !["user"][req[w].ip] = @ + 1]
  /\ Done(w)
  /\ UNCHANGED <<now, accounts, sessions, failures, inflight, wrong, requests, purged>>

(* A session file cannot be locked or saved: the request ends in a 503,    *)
(* with its password already committed or its attempt already counted.     *)
SessionStoreFails(w) ==
  /\ faults < MaxFaults
  /\ req[w].pc \in {"minting", "replacing", "purging"}
  /\ faults' = faults + 1
  /\ Done(w)
  /\ UNCHANGED <<now, accounts, sessions, limiter, requests, purged>>

(* GET /panel/<user>?token=...: the right token becomes a session.         *)
UserLink(w, u) ==
  /\ Take(w, [pc |-> "minting", user |-> u, kind |-> Token,
              guess |-> token[u], hash |-> token[u]])
  /\ UNCHANGED <<now, accounts, sessions, limiter, faults, purged>>

(* GET /admin?token=...: the administrator's token becomes a session bound *)
(* to the password stored with it.                                         *)
AdminLink(w) ==
  /\ Take(w, [pc |-> "minting", user |-> Admin, kind |-> Password,
              guess |-> secret[Admin], hash |-> secret[Admin]])
  /\ UNCHANGED <<now, accounts, sessions, limiter, faults, purged>>

-----------------------------------------------------------------------------
(* Passwords and accounts                                                  *)

(* POST /user/change-password and /admin/change-password up to the lock:   *)
(* the session counts, was made from a password, and its account is not    *)
(* disabled.  The visitor gives the version g as the current password.     *)
ChangeRequest(w, f, i, g) ==
  LET s == sessions[f][i] IN
  /\ Usable(s) /\ s.kind = Password
  /\ ~ Blocked(s.user)
  /\ Take(w, [pc |-> "changing", user |-> s.user, kind |-> Password, guess |-> g,
              hash |-> secret[s.user]])
  /\ UNCHANGED <<now, accounts, sessions, limiter, faults, purged>>

NewSecret(a) == /\ secret[a] < MaxVersion
                /\ secret' = [secret EXCEPT ![a] = @ + 1]

PasswordGiven(r) == verify_secret(r.guess, secret[r.user])

(* Under the lock: the account and its current password are checked again. *)
ChangePassword(w) ==
  LET r == req[w]  u == r.user IN
  /\ r.pc = "changing"
  /\ IF PasswordGiven(r) /\ ~ Blocked(u)
     THEN /\ NewSecret(u)
          /\ mustChange' = [x \in Users |-> x # u /\ mustChange[x]]
          /\ req' = [req EXCEPT ![w].pc = "replacing", ![w].hash = secret[u] + 1,
                                ![w].guess = secret[u] + 1]
     ELSE Done(w) /\ UNCHANGED <<secret, mustChange>>
  /\ UNCHANGED <<now, token, disabled, sessions, limiter, requests, faults, purged>>

Revision(u) == <<secret[u], token[u], mustChange[u], disabled[u]>>

(* A form of the administrator, sent from a page that shows u as it is.    *)
AdminForm(w, u, op) ==
  /\ Take(w, [pc |-> op, user |-> u, seen |-> Revision(u)])
  /\ UNCHANGED <<now, accounts, sessions, limiter, faults, purged>>

(* A form from a page that shows an older state of the account.            *)
Conflict(w) ==
  /\ req[w].pc \in {"reset", "disable", "enable", "rotate"}
  /\ req[w].seen # Revision(req[w].user)
  /\ Done(w)
  /\ UNCHANGED <<now, accounts, sessions, limiter, requests, faults, purged>>

Matches(w, op) == req[w].pc = op /\ req[w].seen = Revision(req[w].user)

(* POST /admin/update with a new panel password.                           *)
ResetPassword(w) ==
  LET u == req[w].user IN
  /\ Matches(w, "reset")
  /\ NewSecret(u)
  /\ mustChange' = [mustChange EXCEPT ![u] = TRUE]
  /\ req' = [req EXCEPT ![w].pc = "purging"]
  /\ UNCHANGED <<now, token, disabled, sessions, limiter, requests, faults, purged>>

(* POST /admin/toggle-user                                                 *)
DisableUser(w) ==
  /\ Matches(w, "disable")
  /\ disabled' = [disabled EXCEPT ![req[w].user] = TRUE]
  /\ req' = [req EXCEPT ![w].pc = "purging"]
  /\ UNCHANGED <<now, secret, token, mustChange, sessions, limiter, requests, faults, purged>>

EnableUser(w) ==
  /\ Matches(w, "enable")
  /\ disabled' = [disabled EXCEPT ![req[w].user] = FALSE]
  /\ Done(w)
  /\ UNCHANGED <<now, secret, token, mustChange, sessions, limiter, requests, faults, purged>>

(* POST /admin/rotate-token; what follows the commit is Revocation's.      *)
RotateToken(w) ==
  LET u == req[w].user IN
  /\ Matches(w, "rotate") /\ token[u] < MaxVersion
  /\ token' = [token EXCEPT ![u] = @ + 1]
  /\ Done(w)
  /\ UNCHANGED <<now, secret, mustChange, disabled, sessions, limiter, requests, faults, purged>>

-----------------------------------------------------------------------------
(* The rest of the world                                                   *)

Tick == /\ now < MaxTime
        /\ now' = now + 1
        /\ UNCHANGED <<accounts, sessions, limiter, req, requests, faults, purged>>

(* The panel is restarted: requests end where they are, the limiter        *)
(* forgets, the files stay.                                                *)
Restart ==
  /\ faults < MaxFaults
  /\ faults' = faults + 1
  /\ req' = [w \in Workers |-> Idle]
  /\ failures' = [r \in Realms |-> <<>>]
  /\ inflight' = [r \in Realms |-> [c \in Clients |-> 0]]
  /\ wrong' = [r \in Realms |-> [c \in Clients |-> <<>>]]
  /\ leaked' = [r \in Realms |-> [c \in Clients |-> 0]]
  /\ UNCHANGED <<now, accounts, sessions, requests, purged>>

Request(w) ==
  \/ \E a \in Accounts, peer \in Clients \cup {Loopback}, header \in Clients :
       \E g \in Guesses(a) : Login(w, a, peer, header, g)
  \/ \E u \in Users : UserLink(w, u)
  \/ AdminLink(w)
  \/ \E f \in Realms : \E i \in 1..Len(sessions[f]) :
       \E g \in Guesses(sessions[f][i].user) : ChangeRequest(w, f, i, g)
  \/ \E u \in Users, op \in {"reset", "disable", "enable", "rotate"} : AdminForm(w, u, op)

Continue(w) ==
  \/ BeginLoginAttempt(w) \/ VerifyLogin(w) \/ FinishLoginAttempt(w) \/ CreateSession(w)
  \/ UserReadFails(w) \/ SessionStoreFails(w)
  \/ ChangePassword(w) \/ ReplaceSessionsWithNew(w)
  \/ ResetPassword(w) \/ DisableUser(w) \/ EnableUser(w) \/ RotateToken(w) \/ Conflict(w)
  \/ DeleteSessionsFor(w)

Next == \/ \E w \in Workers : Request(w) \/ Continue(w)
        \/ \E f \in Realms : \E i \in 1..Len(sessions[f]) : VisitStale(f, i) \/ Logout(f, i)
        \/ Tick \/ Restart

Spec == Init /\ [][Next]_vars

-----------------------------------------------------------------------------
(* Properties                                                              *)

Attempt == [pc : {"arrived", "begun", "verified"}, user : Accounts,
            kind : {Password}, guess : 0..Wrong, ip : Clients, client : Clients,
            hash : 0..NoGeneration, ok : {"yes", "no", "blocked"}]
Task == [pc : {"minting", "changing", "replacing"}, user : Accounts,
         kind : {Password, Token}, guess : 0..Wrong, hash : Versions]
Entry == [user : Accounts, kind : {Password, Token}, gen : 0..NoGeneration,
          exp : 1..(MaxTime + SessionTtl), proof : Versions]
Form == [pc : {"reset", "disable", "enable", "rotate", "purging"}, user : Users,
         seen : Versions \X Versions \X BOOLEAN \X BOOLEAN]
Tracked == [ip : Clients, times : Seq(0..now)]

\* The state is well formed: limiter and session entries hold addresses,
\* accounts, times and generations that exist, and no address is tracked twice.
TypeOK ==
  /\ now \in 0..MaxTime
  /\ secret \in [Accounts -> Versions] /\ token \in [Users -> Versions]
  /\ mustChange \in [Users -> BOOLEAN] /\ disabled \in [Users -> BOOLEAN]
  /\ sessions \in [Realms -> Seq(Entry)] /\ failures \in [Realms -> Seq(Tracked)]
  /\ \A r \in Realms :
       /\ \A i \in 1..Len(sessions[r]) : Realm(sessions[r][i].user) = r
       /\ Len(failures[r]) <= MaxIps
       /\ \A i, j \in 1..Len(failures[r]) :
            /\ failures[r][i].times # <<>>
            /\ failures[r][i].ip = failures[r][j].ip => i = j
  /\ wrong \in [Realms -> [Clients -> Seq(0..now)]]
  /\ inflight \in [Realms -> [Clients -> Nat]] /\ leaked \in [Realms -> [Clients -> Nat]]
  /\ req \in [Workers -> {Idle} \cup Attempt \cup Task \cup Form]
  /\ requests \in 0..MaxRequests /\ faults \in 0..MaxFaults /\ purged \subseteq Accounts

\* However many requests a visitor sends at once, whatever header it sends, and
\* however they interleave, no more than _LOGIN_MAX wrong passwords of one client
\* are verified within _LOGIN_WINDOW, counted since its last success and since
\* the limiter last dropped it or was restarted (_begin_login_attempt).
LoginBudget ==
  \A r \in Realms, c \in Clients : Len(Fresh(wrong[r][c])) <= LoginMax

\* A verification slot is held exactly as long as its request is between
\* _begin_login_attempt and _finish_login_attempt; the only slots held longer
\* are those of /user/login requests that could not read users.json.
SlotsReturned == TypeOK /\
  \A r \in Realms, c \in Clients :
    inflight[r][c] = leaked[r][c] +
      Cardinality({w \in Workers : /\ req[w].pc \in {"begun", "verified"}
                                   /\ Realm(req[w].user) = r /\ req[w].ip = c})

\* Whoever is let in by a session proved the credential that is stored now: a
\* login that was verified against a password changed, reset or rotated since,
\* however late it gets its session, is not let in.  A session of an older
\* release, which has no generation, counts until the sessions of its account
\* are next revoked.
UsableSessionsCurrent ==
  \A r \in Realms : \A i \in 1..Len(sessions[r]) :
    LET s == sessions[r][i] IN
    Usable(s) => \/ s.proof = IF s.kind = Token THEN token[s.user] ELSE secret[s.user]
                 \/ s.gen = NoGeneration /\ s.user \notin purged

\* No sequence of logins, links and password changes makes a session file grow
\* past its bounds (_create_session).  SESSION_MAX_GLOBAL is passed only by the
\* users' file and by one entry per other account at most: a password change
\* whose own sessions were deleted meanwhile adds its new one to a full file.
SessionFilesBounded ==
  /\ Len(sessions["admin"]) <= SessionMaxGlobal
  /\ Len(sessions["user"]) < SessionMaxGlobal + Cardinality(Users)
  /\ \A r \in Realms, a \in Accounts :
       Cardinality(Own(sessions[r], a)) <= SessionMaxPerIdentity
=============================================================================
