----------------------------- MODULE AdminPanel -----------------------------
(***************************************************************************)
(* The web panel of app/admin and the switches of the bot: sign-in behind  *)
(* a limiter kept in memory, sessions kept in the database, and commands   *)
(* that a handler carries out in the transactions and calls of a service   *)
(* and records in one more transaction, if it gets there.                  *)
(*                                                                         *)
(* Every request is a coroutine of the panel's event loop that gives way   *)
(* at each await; commands of the bot run in another process.              *)
(***************************************************************************)
EXTENDS Naturals, Sequences, Functions

CONSTANTS
  Requests,      \* the requests of the instance; bounds the model
  Clients,       \* the addresses requests come from
  Admins,
  Role,          \* AdminUser.role of each of them
  Nobody,
  Limit,         \* admin_login_attempts
  Window,        \* admin_login_window_seconds
  SessionLife,   \* admin_session_hours
  MaxTime        \* bounds the clock

AdminRole == {"owner", "admin", "support"}

ASSUME RoleAssumption == Role \in [Admins -> AdminRole]
ASSUME LimiterAssumption ==
  Limit \in Nat \ {0} /\ Window \in Nat /\ SessionLife \in Nat /\ MaxTime \in Nat
ASSUME ClientAssumption == Clients # {}
ASSUME NobodyAssumption == Nobody \notin Admins \union Requests

VARIABLES
  now,        \* time.monotonic and the wall clock
  attempts,   \* AdminAuth._attempts: the times of the sign-ins of a client and a name
  sessions,   \* admin_sessions, each named after the request that signed in
  blocked,    \* blocked_ips
  purchases,  \* runtime_settings: purchases_enabled
  audited,    \* the web requests audit_events names with their address
  noted,      \* the requests whose actor the service's own audit events name
  request,    \* the local state of each request
  guesses,    \* history: the attempts let through since the last sign-in or start
  ended,      \* history: the sessions whose sign-out was answered
  carried     \* history: the commands that have begun to take effect, in order

vars ==
  <<now, attempts, sessions, blocked, purchases, audited, noted, request, guesses, ended,
    carried>>

-----------------------------------------------------------------------------
(* Types *)

Keys == Clients \X Admins
Switch == {"unset", "on", "off"}
Session == [token: Requests, admin: Admins, client: Clients, until: Nat]
\* answered: told that it is done; failed: turned away, or told of an error.
Place ==
  {"new", "blocklist", "principal", "attempt", "password", "act", "write", "service",
   "audit", "answered", "failed", "lost"}
\* The actions on an order of which the service first stores who asked for them, and the
\* two that first call YooKassa: refund_yookassa and sync_payment.
OrderKinds == {"order", "payment"}
Kinds == {"login", "logout", "control", "block", "command"} \union OrderKinds

\* cookie: the session of the browser's cookie, page: the one of the page the form
\* was on; admin: the name at sign-in, the principal later; want: the switch asked
\* for; seen: the setting as loaded; late: the session had ended on arrival;
\* before: the commands carried out by then.
Request ==
  [pc: Place, kind: Kinds, client: Clients,
   cookie: Requests \union {Nobody}, page: Requests \union {Nobody},
   admin: Admins \union {Nobody}, right: BOOLEAN, want: {"on", "off"}, seen: Switch, late: BOOLEAN, before: SUBSET Requests]

TypeOK ==
  /\ now \in 0..MaxTime
  /\ attempts \in [Keys -> Seq(0..MaxTime)] /\ guesses \in [Keys -> Seq(0..MaxTime)]
  /\ sessions \subseteq Session
  /\ blocked \subseteq Clients
  /\ purchases \in Switch
  /\ audited \subseteq Requests /\ noted \subseteq Requests /\ ended \subseteq Requests
  /\ request \in [Requests -> Request]
  /\ carried \in Seq(Requests)

Local ==
  <<now, attempts, sessions, blocked, purchases, audited, noted, guesses, ended, carried>>
\* What no command but a switch changes, and no sign-in does.
Database == <<sessions, blocked, purchases, audited, noted>>

At(r, place) == request[r].pc = place
Move(r, place) == request' = [request EXCEPT ![r].pc = place]

-----------------------------------------------------------------------------
(* security_middleware *)

Live(token) == \E session \in sessions : session.token = token /\ session.until > now

\* A browser sends a request; only one that has a cookie names a session.
Arrive(r, kind, client, cookie, page) ==
  /\ At(r, "new")
  /\ {cookie, page} \subseteq {session.token : session \in sessions} \union ended \union {Nobody}
  /\ \E admin \in (IF kind = "login" THEN Admins ELSE {Nobody}), right \in BOOLEAN,
        want \in {"on", "off"} :
       /\ kind # "login" => right
       /\ kind # "control" => want = "on"
       /\ request' = [request EXCEPT
            ![r] = [pc |-> "blocklist", kind |-> kind, client |-> client,
                    cookie |-> cookie, page |-> page, admin |-> admin, right |-> right,
                    want |-> want, seen |-> "unset",
                    late |-> cookie \in ended \/ ~Live(cookie), before |-> {}]]
  /\ UNCHANGED Local

\* _blocked_ip
PassBlocklist(r) ==
  /\ At(r, "blocklist")
  /\ Move(r, IF request[r].client \in blocked THEN "failed" ELSE "principal")
  /\ UNCHANGED Local

\* Not the code: the expiry is left to the browser's cookie.
MutantPrincipalOf(cookie, client) ==
  {session \in sessions : session.token = cookie /\ session.client = client}

\* AdminAuth.principal: the session of the cookie, of this address and not expired.
PrincipalOf(cookie, client) ==
  {session \in sessions :
     session.token = cookie /\ session.until > now /\ session.client = client}

\* The role each handler asks for: can_manage and is_owner.
Permitted(kind, admin) ==
  CASE kind = "logout" -> TRUE
    [] kind = "control" -> Role[admin] = "owner"
    [] OTHER -> Role[admin] \in {"owner", "admin"}

\* The page of another session has another CSRF token.
FindPrincipal(r) ==
  LET found == PrincipalOf(request[r].cookie, request[r].client) IN
  /\ At(r, "principal")
  /\ IF request[r].kind = "login" THEN Move(r, "attempt")
     ELSE IF found = {} \/ request[r].page # request[r].cookie THEN Move(r, "failed")
     ELSE \E session \in found :
            request' = [request EXCEPT ![r].admin = session.admin,
              ![r].pc = IF Permitted(request[r].kind, session.admin) THEN "act" ELSE "failed"]
  /\ UNCHANGED Local

-----------------------------------------------------------------------------
(* AdminAuth.login *)

\* Not the code: the bound of AbuseGuard.allow, which forgets an attempt of that age.
MutantDropsOld(times, n) ==
  /\ \A i \in 1..n : times[i] + Window <= now
  /\ n < Len(times) => ~(times[n + 1] + Window <= now)

\* The first n attempts are dropped: those before the first that is in the window.
DropsOld(times, n) ==
  /\ \A i \in 1..n : times[i] + Window < now
  /\ n < Len(times) => ~(times[n + 1] + Window < now)

\* _allow_attempt runs between two awaits.
Attempt(r) ==
  LET key == <<request[r].client, request[r].admin>>
      old == attempts[key]
  IN
  /\ At(r, "attempt")
  /\ \E n \in 0..Len(old) : LET recent == SubSeq(old, n + 1, Len(old)) IN
       /\ DropsOld(old, n)
       /\ IF Len(recent) >= Limit
          THEN /\ attempts' = [attempts EXCEPT ![key] = recent]
               /\ Move(r, "failed") /\ UNCHANGED guesses
          ELSE /\ attempts' = [attempts EXCEPT ![key] = Append(recent, now)]
               /\ guesses' = [guesses EXCEPT ![key] = Append(@, now)]
               /\ Move(r, "password")
  /\ UNCHANGED <<now, ended, carried, Database>>

\* The password and the code are checked and a session is stored, or the failure is. The
\* limiter forgets the attempts before the transaction of the session commits.
CheckPassword(r) ==
  LET client == request[r].client
      admin == request[r].admin
      key == <<client, admin>>
  IN
  /\ At(r, "password")
  /\ IF request[r].right
     THEN /\ attempts' = [attempts EXCEPT ![key] = <<>>]
          /\ guesses' = [guesses EXCEPT ![key] = <<>>]
          /\ \/ /\ sessions' = sessions \union
                     {[token |-> r, admin |-> admin, client |-> client,
                       until |-> now + SessionLife]}
                /\ Move(r, "answered")
             \/ Move(r, "failed") /\ UNCHANGED sessions
     ELSE /\ Move(r, "failed")
          /\ UNCHANGED <<sessions, attempts, guesses>>
  /\ UNCHANGED <<now, blocked, purchases, audited, noted, ended, carried>>

\* AdminAuth.logout
Logout(r) ==
  /\ At(r, "act") /\ request[r].kind = "logout"
  /\ sessions' = {session \in sessions : session.token # request[r].cookie}
  /\ ended' = ended \union {request[r].cookie}
  /\ Move(r, "answered")
  /\ UNCHANGED <<now, attempts, blocked, purchases, audited, noted, guesses, carried>>

-----------------------------------------------------------------------------
(* Commands *)

CarryOut(r) == carried' = Append(carried, r)

\* Not the code: the request is recorded before the service answers.
MutantActOnOrder(r) ==
  /\ At(r, "act") /\ request[r].kind \in OrderKinds
  /\ audited' = audited \union {r}
  /\ \/ /\ CarryOut(r) /\ Move(r, "service")
        /\ noted' = IF request[r].kind = "order" THEN noted \union {r} ELSE noted
     \/ Move(r, "failed") /\ UNCHANGED <<noted, carried>>
  /\ UNCHANGED <<now, attempts, sessions, blocked, purchases, guesses, ended>>

\* Not the code: who asked is left to web_audit.
MutantUnnamed(r) ==
  /\ At(r, "act") /\ request[r].kind \in OrderKinds
  /\ \/ CarryOut(r) /\ Move(r, "service")
     \/ Move(r, "failed") /\ UNCHANGED carried
  /\ UNCHANGED <<now, attempts, guesses, ended, Database>>

\* order_action: the service refuses the action with nothing done, or begins to carry it
\* out. retry, reconcile, cancel, manual_review and resend_notification store who asked
\* in the transaction they begin with; a refund and a sync call YooKassa.
ActOnOrder(r) ==
  /\ At(r, "act") /\ request[r].kind \in OrderKinds
  /\ \/ /\ CarryOut(r) /\ Move(r, "service")
        /\ noted' = IF request[r].kind = "order" THEN noted \union {r} ELSE noted
     \/ Move(r, "failed") /\ UNCHANGED <<noted, carried>>
  /\ UNCHANGED <<now, attempts, sessions, blocked, purchases, audited, guesses, ended>>

\* The service returns: the rest of the delivery or the reconciliation is stored. With the
\* answer of YooKassa a refund stores who asked for it, a sync names nobody.
ServiceReturns(r) ==
  /\ At(r, "service")
  /\ \/ request[r].kind = "payment" /\ noted' = noted \union {r}
     \/ UNCHANGED noted
  /\ Move(r, "audit")
  /\ UNCHANGED <<now, attempts, sessions, blocked, purchases, audited, guesses, ended, carried>>

\* ip_action and update_ip_block: the block and its audit event in one transaction, or
\* none of them without a reason or a known action.
ChangeBlocklist(r, clients) ==
  /\ At(r, "act") /\ request[r].kind = "block"
  /\ \/ /\ blocked' = clients
        /\ audited' = audited \union {r}
        /\ CarryOut(r) /\ Move(r, "answered")
     \/ Move(r, "failed") /\ UNCHANGED <<blocked, audited, carried>>
  /\ UNCHANGED <<now, attempts, sessions, purchases, noted, guesses, ended>>

\* A /purchases or /maintenance command of the bot, for an id of ADMIN_IDS.
BotCommand(r, want) ==
  /\ At(r, "new")
  /\ request' = [request EXCEPT
       ![r] = [@ EXCEPT !.pc = "act", !.kind = "command", !.want = want]]
  /\ UNCHANGED Local

\* set_runtime_bool loads the setting without a lock.
ReadSwitch(r) ==
  /\ At(r, "act") /\ request[r].kind \in {"control", "command"}
  /\ request' = [request EXCEPT ![r].pc = "write", ![r].seen = purchases,
                   ![r].before = Range(carried)]
  /\ UNCHANGED Local

\* Not the code: a switch that the settings have on already is not stored.
MutantStored(seen, want) ==
  IF seen = want \/ (seen = "unset" /\ want = "on") THEN purchases ELSE want

\* An attribute set to the value it was loaded with is not written.
Stored(seen, want) == IF seen = want THEN purchases ELSE want

\* The setting and the events that name the actor are stored in one transaction. Of two
\* inserts of the same key the second fails.
WriteSwitch(r) ==
  LET seen == request[r].seen IN
  /\ At(r, "write")
  /\ IF seen = "unset" /\ purchases # "unset"
     THEN Move(r, "failed") /\ UNCHANGED <<purchases, noted, carried>>
     ELSE /\ purchases' = Stored(seen, request[r].want)
          /\ noted' = noted \union {r}
          /\ CarryOut(r)
          /\ Move(r, IF request[r].kind = "control" THEN "audit" ELSE "answered")
  /\ UNCHANGED <<now, attempts, sessions, blocked, audited, guesses, ended>>

\* web_audit, after the service has returned, in a transaction of its own.
WebAudit(r) ==
  /\ At(r, "audit")
  /\ audited' = audited \union {r}
  /\ Move(r, "answered")
  /\ UNCHANGED <<now, attempts, sessions, blocked, purchases, noted, guesses, ended, carried>>

\* A handler ends with an exception, answered with a 409 or a 500: a transaction fails and
\* is rolled back, or the service raises after it has stored or sent something, as a refund
\* does whose answer from YooKassa is lost or does not match.
Fails(r) ==
  /\ request[r].pc \in {"blocklist", "principal", "password", "act", "write", "service", "audit"}
  /\ Move(r, "failed")
  /\ UNCHANGED Local

-----------------------------------------------------------------------------
(* Environment *)

Tick ==
  /\ now < MaxTime
  /\ now' = now + 1
  /\ UNCHANGED <<attempts, request, guesses, ended, carried, Database>>

\* The panel is started anew: its requests and the limiter are lost.
Restart ==
  /\ attempts' = [key \in Keys |-> <<>>]
  /\ guesses' = [key \in Keys |-> <<>>]
  /\ request' = [r \in Requests |->
       IF request[r].kind = "command" \/ request[r].pc \in {"new", "answered", "failed"}
       THEN request[r] ELSE [request[r] EXCEPT !.pc = "lost"]]
  /\ UNCHANGED <<now, ended, carried, Database>>

Init ==
  /\ now = 0
  /\ attempts = [key \in Keys |-> <<>>] /\ guesses = [key \in Keys |-> <<>>]
  /\ sessions = {} /\ blocked = {}
  /\ purchases = "unset"
  /\ audited = {} /\ noted = {} /\ ended = {}
  /\ request = [r \in Requests |->
       [pc |-> "new", kind |-> "login", client |-> CHOOSE client \in Clients : TRUE, cookie |-> Nobody,
        page |-> Nobody, admin |-> Nobody, right |-> TRUE, want |-> "on",
        seen |-> "unset", late |-> FALSE, before |-> {}]]
  /\ carried = <<>>

Serve(r) ==
  \/ \E kind \in Kinds \ {"command"}, client \in Clients,
        cookie, page \in Requests \union {Nobody} : Arrive(r, kind, client, cookie, page)
  \/ PassBlocklist(r) \/ FindPrincipal(r)
  \/ Attempt(r) \/ CheckPassword(r) \/ Logout(r)
  \/ ActOnOrder(r) \/ ServiceReturns(r)
  \/ \E clients \in SUBSET Clients : ChangeBlocklist(r, clients)
  \/ \E want \in {"on", "off"} : BotCommand(r, want)
  \/ ReadSwitch(r) \/ WriteSwitch(r) \/ WebAudit(r) \/ Fails(r)

Next == Tick \/ Restart \/ \E r \in Requests : Serve(r)

Spec == Init /\ [][Next]_vars

-----------------------------------------------------------------------------
(* Safety *)

Carried == Range(carried)
Switches == {r \in Carried : request[r].kind \in {"control", "command"}}

\* More than a window lies between a time and the one that is Limit places later.
Bounded(times) == \A i \in 1..(Len(times) - Limit) : times[i + Limit] - times[i] > Window

\* However many requests are in flight, a client lets no more than admin_login_attempts
\* passwords of one name be checked within admin_login_window_seconds, the start of the
\* panel and a sign-in apart (_allow_attempt counts before it awaits).
GuessesAreBounded == \A key \in Keys : Bounded(guesses[key])

\* Nothing is done for a request that came with the cookie of a session that had been
\* signed out or had expired (AdminAuth.principal and logout); a request that
\* was past the middleware when its session ended is completed.
EndedSessionsDoNotAct == \A r \in Carried : ~request[r].late

\* audit_events names only requests that took effect, and with its address every command
\* of the panel whose administrator was told that it is done (order_action, system_control,
\* ip_action).
AuditIsTrue ==
  /\ audited \union noted \subseteq Carried
  /\ \A r \in Carried : At(r, "answered") /\ request[r].kind # "command" => r \in audited

\* A command that has taken effect is in the audit log under the name of who gave it, even
\* if the service or web_audit fails afterwards or the panel stops; only a refund or a sync
\* that never returned from YooKassa to its web_audit may be missing (order_action,
\* OrderRepository.audit).
EffectsAreNamed ==
  \A r \in Carried \ (audited \union noted) :
    request[r].kind = "payment" /\ ~At(r, "answered")

\* The switch stands as some command left it that no later command followed, although
\* commands of the bot and of the panel overlap (set_runtime_bool).
SwitchIsSerial ==
  IF Switches = {} THEN purchases = "unset"
  ELSE \E r \in Switches :
         purchases = request[r].want /\ \A q \in Switches : r \notin request[q].before

-----------------------------------------------------------------------------
(* The inductive invariant *)

\* Of all attempts, the limiter has forgotten only the first ones, and only when they
\* were older than its window.
Remembers(recent, all, time) ==
  LET old == Len(all) - Len(recent) IN
  /\ Len(recent) <= Len(all)
  /\ \A i \in 1..Len(recent) : recent[i] = all[old + i]
  /\ \A i \in 1..old : all[i] + Window < time

LimiterInv == \A key \in Keys : Remembers(attempts[key], guesses[key], now)

\* A session is named after a request that was answered, so neither one that was signed
\* out nor one that had expired when a request named it comes back.
SessionInv ==
  /\ \A session \in sessions : At(session.token, "answered") /\ session.token \notin ended
  /\ \A token \in ended : At(token, "answered")
  /\ \A r \in Requests : request[r].cookie = Nobody \/ At(request[r].cookie, "answered")
  /\ \A r \in Requests, session \in sessions :
       request[r].late /\ session.token = request[r].cookie => session.until <= now

\* Where a request can be, and what it has done there.
PlaceFits(r) ==
  /\ request[r].pc \in {"new", "act", "write", "service", "audit"} => ~request[r].late
  /\ request[r].kind = "login" /\ ~At(r, "new") => request[r].admin \in Admins
  /\ request[r].pc \in {"attempt", "password"} => request[r].kind = "login"
  /\ At(r, "act") => request[r].kind = "command" \/ request[r].cookie \in Requests
  /\ At(r, "write") => request[r].kind \in {"control", "command"}
  /\ At(r, "service") => request[r].kind \in OrderKinds /\ r \in Carried
  /\ At(r, "audit") => request[r].kind \in OrderKinds \union {"control"} /\ r \in Carried
  /\ r \in Carried =>
       request[r].pc \in {"service", "audit", "answered", "failed", "lost"} /\ ~request[r].late
  /\ request[r].before \subseteq Carried

\* What the audit log knows of a request.
LogFits(r) ==
  /\ r \in audited \union noted => r \in Carried
  /\ r \in Carried /\ At(r, "answered") => request[r].kind = "command" \/ r \in audited
  /\ r \in Carried => r \in audited \union noted \/ request[r].kind = "payment"

\* The command that left the switch as it stands was seen by no command after it, and one
\* that is about to write has seen its setting or does not know of it.
SwitchInv ==
  LET pending == {r \in Requests : At(r, "write")} IN
  IF Switches = {}
  THEN purchases = "unset" /\ \A r \in pending : request[r].seen = "unset"
  ELSE \E x \in Switches :
         /\ purchases = request[x].want
         /\ \A r \in Switches : x \notin request[r].before
         /\ \A r \in pending : x \in request[r].before => request[r].seen = purchases

Inv ==
  /\ LimiterInv /\ SessionInv /\ SwitchInv
  /\ \A r \in Requests : PlaceFits(r) /\ LogFits(r)
=============================================================================
