-------------------------- MODULE AdminPanelProofs --------------------------
(***************************************************************************)
(* Proofs that the safety properties of AdminPanel hold for every set of   *)
(* requests, clients and administrators, and for every limit and window.   *)
(***************************************************************************)
EXTENDS AdminPanel, SequenceTheorems, TLAPS

-----------------------------------------------------------------------------
(* Requests *)

\* Everything but the place of a request.
SameContents(new, old) ==
  /\ new.kind = old.kind /\ new.client = old.client /\ new.cookie = old.cookie
  /\ new.page = old.page /\ new.admin = old.admin /\ new.right = old.right
  /\ new.want = old.want /\ new.seen = old.seen /\ new.late = old.late
  /\ new.before = old.before

LEMMA MovedType ==
  ASSUME NEW q \in Request, NEW place \in Place
  PROVE  LET new == [q EXCEPT !.pc = place]
         IN new \in Request /\ new.pc = place /\ SameContents(new, q)
  BY DEF Request, SameContents

\* A step of one request.
StepOf(r) ==
  /\ request' \in [Requests -> Request]
  /\ \A q \in Requests \ {r} : request'[q] = request[q]

LEMMA Moves ==
  ASSUME TypeOK, NEW r \in Requests, NEW place \in Place, Move(r, place)
  PROVE  /\ StepOf(r)
         /\ request'[r].pc = place /\ SameContents(request'[r], request[r])
<1> DEFINE new == [request[r] EXCEPT !.pc = place]
<1>1. request[r] \in Request
  BY DEF TypeOK
<1>2. new \in Request /\ new.pc = place /\ SameContents(new, request[r])
  BY <1>1, MovedType
<1>3. request' = [request EXCEPT ![r] = new]
  BY DEF Move
<1> HIDE DEF new
<1>4. request'[r] = new /\ request' \in [Requests -> Request]
       /\ \A q \in Requests \ {r} : request'[q] = request[q]
  BY <1>2, <1>3 DEF TypeOK
<1> QED
  BY <1>2, <1>4 DEF StepOf

LEMMA Arrives ==
  ASSUME TypeOK, NEW r \in Requests, NEW kind \in Kinds, NEW client \in Clients,
         NEW cookie \in Requests \union {Nobody}, NEW page \in Requests \union {Nobody},
         Arrive(r, kind, client, cookie, page)
  PROVE  /\ StepOf(r)
         /\ request'[r].pc = "blocklist" /\ request'[r].kind = kind
         /\ request'[r].cookie = cookie /\ request'[r].before = {}
         /\ request'[r].late = (cookie \in ended \/ ~Live(cookie))
         /\ kind = "login" => request'[r].admin \in Admins
<1>1. PICK admin \in (IF kind = "login" THEN Admins ELSE {Nobody}), right \in BOOLEAN,
           want \in {"on", "off"} :
        request' = [request EXCEPT
          ![r] = [pc |-> "blocklist", kind |-> kind, client |-> client,
                  cookie |-> cookie, page |-> page, admin |-> admin, right |-> right,
                  want |-> want, seen |-> "unset",
                  late |-> cookie \in ended \/ ~Live(cookie), before |-> {}]]
  BY ZenonT(60) DEF Arrive
<1> PICK late \in BOOLEAN : late = (cookie \in ended \/ ~Live(cookie))
  OBVIOUS
<1> DEFINE new == [pc |-> "blocklist", kind |-> kind, client |-> client,
                   cookie |-> cookie, page |-> page, admin |-> admin, right |-> right,
                   want |-> want, seen |-> "unset", late |-> late, before |-> {}]
<1>2. admin \in Admins \union {Nobody} /\ "blocklist" \in Place /\ "unset" \in Switch
  BY DEF Place, Switch
<1>3. new \in Request
  BY <1>2 DEF Request
<1>4. /\ new.pc = "blocklist" /\ new.kind = kind /\ new.cookie = cookie /\ new.late = late
      /\ new.admin = admin /\ new.before = {}
  OBVIOUS
<1>5. request' = [request EXCEPT ![r] = new]
  BY <1>1
<1> HIDE DEF new
<1>6. request'[r] = new /\ request' \in [Requests -> Request]
       /\ \A q \in Requests \ {r} : request'[q] = request[q]
  BY <1>3, <1>5 DEF TypeOK
<1> QED
  BY <1>4, <1>6 DEF StepOf

\* security_middleware lets a request on only with a live session of its cookie.
LEMMA FindsPrincipal ==
  ASSUME TypeOK, NEW r \in Requests, FindPrincipal(r)
  PROVE  /\ StepOf(r) /\ At(r, "principal")
         /\ request'[r].kind = request[r].kind /\ request'[r].cookie = request[r].cookie
         /\ request'[r].late = request[r].late /\ request'[r].before = request[r].before
         /\ \/ /\ request[r].kind = "login" /\ request'[r].pc = "attempt"
               /\ request'[r].admin = request[r].admin
            \/ request'[r].pc = "failed" /\ request'[r].admin = request[r].admin
            \/ /\ request[r].kind # "login" /\ request'[r].pc \in {"act", "failed"}
               /\ \E session \in sessions :
                    session.token = request[r].cookie /\ session.until > now
<1>1. {"attempt", "act", "failed"} \subseteq Place
  BY DEF Place
<1>2. CASE Move(r, "attempt") /\ request[r].kind = "login"
  <2>1. StepOf(r) /\ request'[r].pc = "attempt" /\ SameContents(request'[r], request[r])
    BY <1>1, <1>2, Moves
  <2> QED
    BY <1>2, <2>1 DEF SameContents, FindPrincipal
<1>3. CASE Move(r, "failed")
  <2>1. StepOf(r) /\ request'[r].pc = "failed" /\ SameContents(request'[r], request[r])
    BY <1>1, <1>3, Moves
  <2> QED
    BY <2>1 DEF SameContents, FindPrincipal
<1>4. CASE /\ request[r].kind # "login"
           /\ \E session \in PrincipalOf(request[r].cookie, request[r].client) :
                request' = [request EXCEPT ![r].admin = session.admin,
                  ![r].pc = IF Permitted(request[r].kind, session.admin)
                            THEN "act" ELSE "failed"]
  <2>1. PICK session \in sessions :
          /\ session.token = request[r].cookie /\ session.until > now
          /\ request' = [request EXCEPT ![r].admin = session.admin,
               ![r].pc = IF Permitted(request[r].kind, session.admin)
                         THEN "act" ELSE "failed"]
    BY <1>4 DEF PrincipalOf
  <2> PICK place \in {"act", "failed"} :
        place = IF Permitted(request[r].kind, session.admin) THEN "act" ELSE "failed"
    OBVIOUS
  <2> DEFINE new == [request[r] EXCEPT !.admin = session.admin, !.pc = place]
  <2>2. request[r] \in Request /\ session.admin \in Admins
    BY DEF TypeOK, Session
  <2>3. new \in Request /\ new.pc = place /\ new.kind = request[r].kind
         /\ new.cookie = request[r].cookie /\ new.late = request[r].late
         /\ new.before = request[r].before
    BY <1>1, <2>2 DEF Request
  <2>4. request' = [request EXCEPT ![r] = new]
    BY <2>1, <2>2 DEF TypeOK
  <2> HIDE DEF new
  <2>5. request'[r] = new /\ request' \in [Requests -> Request]
         /\ \A q \in Requests \ {r} : request'[q] = request[q]
    BY <2>3, <2>4 DEF TypeOK
  <2> QED
    BY <1>4, <2>1, <2>3, <2>5 DEF StepOf, FindPrincipal
<1> QED
  BY <1>2, <1>3, <1>4 DEF FindPrincipal

LEMMA Commands ==
  ASSUME TypeOK, NEW r \in Requests, NEW want \in {"on", "off"}, BotCommand(r, want)
  PROVE  /\ StepOf(r) /\ request'[r].pc = "act" /\ request'[r].kind = "command"
         /\ request'[r].cookie = request[r].cookie
         /\ request'[r].late = request[r].late /\ request'[r].before = request[r].before
<1> DEFINE new == [request[r] EXCEPT !.pc = "act", !.kind = "command", !.want = want]
<1>1. request[r] \in Request /\ "act" \in Place /\ "command" \in Kinds
  BY DEF TypeOK, Place, Kinds
<1>2. new \in Request /\ new.pc = "act" /\ new.kind = "command"
       /\ new.cookie = request[r].cookie /\ new.late = request[r].late /\ new.before = request[r].before
  BY <1>1 DEF Request
<1>3. request' = [request EXCEPT ![r] = new]
  BY DEF BotCommand
<1> HIDE DEF new
<1>4. request'[r] = new /\ request' \in [Requests -> Request]
       /\ \A q \in Requests \ {r} : request'[q] = request[q]
  BY <1>2, <1>3 DEF TypeOK
<1> QED
  BY <1>2, <1>4 DEF StepOf

LEMMA CarriedType ==
  ASSUME TypeOK
  PROVE  Carried \subseteq Requests
  BY DEF TypeOK, Carried, Range

LEMMA Reads ==
  ASSUME TypeOK, NEW r \in Requests, ReadSwitch(r)
  PROVE  /\ StepOf(r) /\ request'[r].pc = "write" /\ request'[r].kind = request[r].kind
         /\ request'[r].cookie = request[r].cookie /\ request'[r].admin = request[r].admin
         /\ request'[r].late = request[r].late /\ request'[r].want = request[r].want
         /\ request'[r].seen = purchases /\ request'[r].before = Carried
<1> PICK before \in SUBSET Requests : before = Range(carried)
  BY CarriedType DEF Carried
<1> DEFINE new == [request[r] EXCEPT !.pc = "write", !.seen = purchases, !.before = before]
<1>1. request[r] \in Request /\ "write" \in Place /\ purchases \in Switch
  BY DEF TypeOK, Place
<1>2. new \in Request /\ new.pc = "write" /\ new.kind = request[r].kind
       /\ new.cookie = request[r].cookie /\ new.admin = request[r].admin
       /\ new.late = request[r].late /\ new.want = request[r].want
       /\ new.seen = purchases /\ new.before = before
  BY <1>1 DEF Request
<1>3. request' = [request EXCEPT ![r] = new]
  BY <1>1 DEF ReadSwitch, TypeOK
<1> HIDE DEF new
<1>4. request'[r] = new /\ request' \in [Requests -> Request]
       /\ \A q \in Requests \ {r} : request'[q] = request[q]
  BY <1>2, <1>3 DEF TypeOK
<1> QED
  BY <1>2, <1>4 DEF StepOf, Carried

\* The requests the panel loses when it stops.
LEMMA Restarts ==
  ASSUME TypeOK, Restart
  PROVE  /\ request' \in [Requests -> Request]
         /\ \A r \in Requests :
              /\ request'[r] = request[r]
                   \/ (request'[r].pc = "lost" /\ SameContents(request'[r], request[r]))
              /\ request[r].kind = "command" \/ request[r].pc \in {"new", "answered", "failed"}
                   => request'[r] = request[r]
<1>1. "lost" \in Place
  BY DEF Place
<1>2. \A r \in Requests : request[r] \in Request
  BY DEF TypeOK
<1>3. \A r \in Requests :
        request'[r] =
          IF request[r].kind = "command" \/ request[r].pc \in {"new", "answered", "failed"}
          THEN request[r] ELSE [request[r] EXCEPT !.pc = "lost"]
  BY DEF Restart
<1>4. \A r \in Requests :
        /\ [request[r] EXCEPT !.pc = "lost"] \in Request
        /\ [request[r] EXCEPT !.pc = "lost"].pc = "lost"
        /\ SameContents([request[r] EXCEPT !.pc = "lost"], request[r])
  BY <1>1, <1>2, MovedType
<1>5. request' \in [Requests -> Request]
  BY <1>2, <1>3, <1>4 DEF Restart
<1> QED
  BY <1>3, <1>4, <1>5

LEMMA CarriesOut ==
  ASSUME TypeOK, NEW r \in Requests, CarryOut(r)
  PROVE  carried' \in Seq(Requests) /\ Carried' = Carried \union {r}
<1>1. /\ carried' \in Seq(Requests) /\ Len(carried') = Len(carried) + 1
      /\ carried'[Len(carried) + 1] = r
      /\ \A i \in 1..Len(carried) : carried'[i] = carried[i]
      /\ Len(carried) \in Nat
  BY DEF TypeOK, CarryOut
<1>2. DOMAIN carried = 1..Len(carried) /\ DOMAIN carried' = 1..Len(carried) + 1
  BY <1>1 DEF TypeOK
<1> QED
  BY <1>1, <1>2 DEF Carried, Range

-----------------------------------------------------------------------------
(* Type correctness *)

LEMMA Times ==
  ASSUME TypeOK, NEW key \in Keys
  PROVE  /\ attempts[key] \in Seq(0..MaxTime) /\ Len(attempts[key]) \in Nat
         /\ \A i \in 1..Len(attempts[key]) : attempts[key][i] \in 0..MaxTime
         /\ guesses[key] \in Seq(0..MaxTime) /\ Len(guesses[key]) \in Nat
         /\ \A i \in 1..Len(guesses[key]) : guesses[key][i] \in 0..MaxTime
<1>1. attempts[key] \in Seq(0..MaxTime) /\ guesses[key] \in Seq(0..MaxTime)
  BY DEF TypeOK
<1> QED
  BY <1>1, LenProperties, ElementOfSeq

\* What is left of a list without its first n times.
LEMMA Dropped ==
  ASSUME NEW times \in Seq(0..MaxTime), NEW n \in 0..Len(times)
  PROVE  LET recent == SubSeq(times, n + 1, Len(times)) IN
         /\ recent \in Seq(0..MaxTime) /\ Len(recent) \in Nat
         /\ Len(recent) = Len(times) - n
         /\ \A i \in 1..Len(recent) : recent[i] = times[n + i]
<1> DEFINE recent == SubSeq(times, n + 1, Len(times))
<1>1. Len(times) \in Nat /\ n \in Nat /\ n <= Len(times)
  BY LenProperties
<1>2. ASSUME NEW i \in n + 1 .. Len(times) PROVE times[i] \in 0..MaxTime
  <2>1. i \in 1..Len(times)
    BY <1>1
  <2> QED
    BY <2>1, ElementOfSeq
<1>3. n + 1 \in Int /\ Len(times) \in Int
  BY <1>1
<1>4. /\ recent \in Seq(0..MaxTime)
      /\ Len(recent) = IF n + 1 <= Len(times) THEN Len(times) - (n + 1) + 1 ELSE 0
      /\ \A i \in 1..Len(times) - (n + 1) + 1 : recent[i] = times[n + 1 + i - 1]
  BY <1>2, <1>3, SubSeqProperties
<1> HIDE DEF recent
<1>5. Len(recent) = Len(times) - n
  BY <1>1, <1>4
<1>6. ASSUME NEW i \in 1..Len(recent) PROVE recent[i] = times[n + i]
  <2>1. i \in 1..Len(times) - (n + 1) + 1 /\ n + 1 + i - 1 = n + i
    BY <1>1, <1>5
  <2> QED
    BY <1>4, <2>1
<1>7. recent \in Seq(0..MaxTime) /\ Len(recent) \in Nat
       /\ Len(recent) = Len(times) - n
       /\ \A i \in 1..Len(recent) : recent[i] = times[n + i]
  BY <1>1, <1>4, <1>5, <1>6
<1> QED
  BY <1>7 DEF recent

LEMMA Tries ==
  ASSUME TypeOK, NEW r \in Requests, PlaceFits(r), Attempt(r)
  PROVE  \E key \in Keys : \E n \in 0..Len(attempts[key]), recent \in Seq(0..MaxTime) :
           /\ Len(recent) = Len(attempts[key]) - n
           /\ \A i \in 1..Len(recent) : recent[i] = attempts[key][n + i]
           /\ \A i \in 1..n : attempts[key][i] + Window < now
           /\ \/ /\ attempts' = [attempts EXCEPT ![key] = recent]
                 /\ guesses' = guesses /\ Move(r, "failed")
              \/ /\ Len(recent) < Limit
                 /\ attempts' = [attempts EXCEPT ![key] = Append(recent, now)]
                 /\ guesses' = [guesses EXCEPT ![key] = Append(guesses[key], now)]
                 /\ Move(r, "password")
<1> PICK key : key = <<request[r].client, request[r].admin>>
  OBVIOUS
<1>1. key \in Keys
  <2>1. request[r] \in Request /\ request[r].admin \in Admins
    BY DEF TypeOK, PlaceFits, Attempt, At
  <2> QED
    BY <2>1 DEF Request, Keys
<1>2. PICK n \in 0..Len(attempts[key]) :
        LET recent == SubSeq(attempts[key], n + 1, Len(attempts[key])) IN
          /\ DropsOld(attempts[key], n)
          /\ IF Len(recent) >= Limit
             THEN /\ attempts' = [attempts EXCEPT ![key] = recent]
                  /\ Move(r, "failed") /\ UNCHANGED guesses
             ELSE /\ attempts' = [attempts EXCEPT ![key] = Append(recent, now)]
                  /\ guesses' = [guesses EXCEPT ![key] = Append(@, now)]
                  /\ Move(r, "password")
  BY DEF Attempt
<1>3. PICK recent : recent = SubSeq(attempts[key], n + 1, Len(attempts[key]))
  OBVIOUS
<1>4. attempts[key] \in Seq(0..MaxTime)
  BY <1>1, Times
<1>5. /\ recent \in Seq(0..MaxTime) /\ Len(recent) \in Nat
      /\ Len(recent) = Len(attempts[key]) - n
      /\ \A i \in 1..Len(recent) : recent[i] = attempts[key][n + i]
  BY <1>4, <1>3, Dropped
<1>6. \A i \in 1..n : attempts[key][i] + Window < now
  BY <1>2 DEF DropsOld
<1>7. \/ /\ attempts' = [attempts EXCEPT ![key] = recent]
         /\ guesses' = guesses /\ Move(r, "failed")
      \/ /\ ~(Len(recent) >= Limit)
         /\ attempts' = [attempts EXCEPT ![key] = Append(recent, now)]
         /\ guesses' = [guesses EXCEPT ![key] = Append(guesses[key], now)]
         /\ Move(r, "password")
  BY <1>1, <1>2, <1>3 DEF TypeOK
<1>8. ~(Len(recent) >= Limit) => Len(recent) < Limit
  BY <1>5, LimiterAssumption
<1> QED
  BY <1>1, <1>5, <1>6, <1>7, <1>8

LEMMA TypeInit == Init => TypeOK
<1> SUFFICES ASSUME Init PROVE TypeOK
  OBVIOUS
<1> PICK c \in Clients : c = CHOOSE client \in Clients : TRUE
  BY ClientAssumption
<1> DEFINE q == [pc |-> "new", kind |-> "login", client |-> c, cookie |-> Nobody,
                 page |-> Nobody, admin |-> Nobody, right |-> TRUE, want |-> "on",
                 seen |-> "unset", late |-> FALSE, before |-> {}]
<1>1. q \in Request
  BY DEF Request, Place, Kinds, Switch
<1>2. request = [r \in Requests |-> q]
  BY DEF Init
<1> HIDE DEF q
<1>3. request \in [Requests -> Request]
  BY <1>1, <1>2
<1> QED
  BY <1>3, LimiterAssumption DEF Init, TypeOK, Switch

\* Only a sign-in that passed the limiter, and has a name, checks a password.
LEMMA Signs ==
  ASSUME TypeOK, NEW r \in Requests, PlaceFits(r), CheckPassword(r)
  PROVE  \/ /\ Move(r, "failed") /\ UNCHANGED <<sessions, attempts, guesses>>
         \/ \E key \in Keys, session \in Session :
              /\ session.token = r
              /\ sessions' = sessions \union {session}
              /\ attempts' = [attempts EXCEPT ![key] = <<>>]
              /\ guesses' = [guesses EXCEPT ![key] = <<>>]
              /\ Move(r, "answered")
         \/ \E key \in Keys :
              /\ UNCHANGED sessions
              /\ attempts' = [attempts EXCEPT ![key] = <<>>]
              /\ guesses' = [guesses EXCEPT ![key] = <<>>]
              /\ Move(r, "failed")
<1>1. request[r] \in Request /\ request[r].admin \in Admins
  BY DEF TypeOK, PlaceFits, CheckPassword, At
<1>2. <<request[r].client, request[r].admin>> \in Keys
  BY <1>1 DEF Request, Keys
<1>3. [token |-> r, admin |-> request[r].admin, client |-> request[r].client,
       until |-> now + SessionLife] \in Session
  BY <1>1, LimiterAssumption DEF Request, Session, TypeOK
<1> QED
  BY <1>2, <1>3 DEF CheckPassword

LEMMA PlaceType ==
  {"new", "blocklist", "principal", "attempt", "password", "act", "write", "service",
   "audit", "answered", "failed", "lost"} \subseteq Place
  BY DEF Place

LEMMA ServeType ==
  ASSUME TypeOK, NEW r \in Requests, PlaceFits(r), Serve(r)
  PROVE  TypeOK'
<1> USE PlaceType
<1>1. ASSUME NEW kind \in Kinds, NEW client \in Clients,
             NEW cookie \in Requests \union {Nobody}, NEW page \in Requests \union {Nobody},
             Arrive(r, kind, client, cookie, page)
      PROVE  TypeOK'
  <2>1. StepOf(r)
    BY <1>1, Arrives
  <2> QED
    BY <1>1, <2>1 DEF Arrive, Local, TypeOK, StepOf
<1>2. CASE PassBlocklist(r)
  BY <1>2, Moves DEF PassBlocklist, Local, TypeOK, StepOf
<1>3. CASE FindPrincipal(r)
  BY <1>3, FindsPrincipal DEF FindPrincipal, Local, TypeOK, StepOf
<1>4. CASE Attempt(r)
  <2>1. PICK key \in Keys : \E recent \in Seq(0..MaxTime) :
           \/ /\ attempts' = [attempts EXCEPT ![key] = recent]
              /\ guesses' = guesses /\ Move(r, "failed")
           \/ /\ attempts' = [attempts EXCEPT ![key] = Append(recent, now)]
              /\ guesses' = [guesses EXCEPT ![key] = Append(guesses[key], now)]
              /\ Move(r, "password")
    BY <1>4, Tries
  <2>2. \A times \in Seq(0..MaxTime) : Append(times, now) \in Seq(0..MaxTime)
    BY DEF TypeOK
  <2>3. attempts' \in [Keys -> Seq(0..MaxTime)] /\ guesses' \in [Keys -> Seq(0..MaxTime)]
    BY ZenonT(60), <2>1, <2>2 DEF TypeOK
  <2>4. request' \in [Requests -> Request]
    BY <2>1, Moves DEF StepOf
  <2> QED
    BY <1>4, <2>3, <2>4 DEF Attempt, Database, TypeOK
<1>5. CASE CheckPassword(r)
  <2>1. request' \in [Requests -> Request]
    BY <1>5, Signs, Moves DEF StepOf
  <2>2. sessions' \subseteq Session /\ attempts' \in [Keys -> Seq(0..MaxTime)]
         /\ guesses' \in [Keys -> Seq(0..MaxTime)]
    <3>1. <<>> \in Seq(0..MaxTime)
      OBVIOUS
    <3>2. \/ UNCHANGED <<sessions, attempts, guesses>>
          \/ \E key \in Keys, session \in Session :
               /\ sessions' = sessions \union {session}
               /\ attempts' = [attempts EXCEPT ![key] = <<>>]
               /\ guesses' = [guesses EXCEPT ![key] = <<>>]
          \/ \E key \in Keys :
               /\ UNCHANGED sessions
               /\ attempts' = [attempts EXCEPT ![key] = <<>>]
               /\ guesses' = [guesses EXCEPT ![key] = <<>>]
      BY <1>5, Signs
    <3> QED
      BY <3>1, <3>2 DEF TypeOK
  <2> QED
    BY <1>5, <2>1, <2>2 DEF CheckPassword, TypeOK
<1>6. CASE Logout(r)
  <2>1. request[r].cookie \in Requests
    BY <1>6 DEF Logout, PlaceFits, At
  <2>2. request' \in [Requests -> Request]
    BY <1>6, Moves DEF Logout, StepOf
  <2> QED
    BY <1>6, <2>1, <2>2 DEF Logout, TypeOK
<1>7. CASE ActOnOrder(r)
  BY <1>7, Moves, CarriesOut DEF ActOnOrder, Database, TypeOK, StepOf
<1>8. ASSUME NEW clients \in SUBSET Clients, ChangeBlocklist(r, clients)
      PROVE  TypeOK'
  BY <1>8, Moves, CarriesOut DEF ChangeBlocklist, TypeOK, StepOf
<1>9. ASSUME NEW want \in {"on", "off"}, BotCommand(r, want)
      PROVE  TypeOK'
  BY <1>9, Commands DEF BotCommand, Local, TypeOK, StepOf
<1>10. CASE ReadSwitch(r)
  BY <1>10, Reads DEF ReadSwitch, Local, TypeOK, StepOf
<1>11. CASE WriteSwitch(r)
  <2>1. request[r].want \in Switch
    BY DEF TypeOK, Request, Switch
  <2>2. purchases' \in Switch
    BY <1>11, <2>1 DEF WriteSwitch, Stored, TypeOK
  <2>3. request' \in [Requests -> Request]
    BY <1>11, Moves DEF WriteSwitch, StepOf
  <2>4. carried' \in Seq(Requests)
    BY <1>11, CarriesOut DEF WriteSwitch, TypeOK
  <2> QED
    BY <1>11, <2>2, <2>3, <2>4 DEF WriteSwitch, TypeOK
<1>12. CASE WebAudit(r)
  BY <1>12, Moves DEF WebAudit, TypeOK, StepOf
<1>13. CASE ServiceReturns(r)
  BY <1>13, Moves DEF ServiceReturns, TypeOK, StepOf
<1>14. CASE Fails(r)
  BY <1>14, Moves DEF Fails, Local, TypeOK, StepOf
<1> QED
  BY <1>1, <1>2, <1>3, <1>4, <1>5, <1>6, <1>7, <1>8, <1>9, <1>10, <1>11, <1>12, <1>13, <1>14
  DEF Serve

LEMMA TypeStep ==
  ASSUME TypeOK, Inv, [Next]_vars
  PROVE  TypeOK'
<1>1. CASE Tick
  BY <1>1, LimiterAssumption DEF Tick, Database, TypeOK
<1>2. CASE Restart
  <2>1. request' \in [Requests -> Request]
    BY <1>2, Restarts
  <2>2. attempts' \in [Keys -> Seq(0..MaxTime)] /\ guesses' \in [Keys -> Seq(0..MaxTime)]
    BY <1>2 DEF Restart
  <2> QED
    BY <1>2, <2>1, <2>2 DEF Restart, Database, TypeOK
<1>3. CASE \E r \in Requests : Serve(r)
  BY <1>3, ServeType DEF Inv
<1>4. CASE UNCHANGED vars
  BY <1>4 DEF vars, TypeOK
<1> QED
  BY <1>1, <1>2, <1>3, <1>4 DEF Next

-----------------------------------------------------------------------------
(* The limiter *)

LEMMA RemembersReset ==
  ASSUME NEW t
  PROVE  Remembers(<<>>, <<>>, t) /\ Bounded(<<>>)
  BY LimiterAssumption DEF Remembers, Bounded

LEMMA RemembersLater ==
  ASSUME NEW a \in Seq(0..MaxTime), NEW g \in Seq(0..MaxTime), NEW t \in Nat,
         NEW u \in Nat, t <= u, Remembers(a, g, t)
  PROVE  Remembers(a, g, u)
<1>1. Len(a) \in Nat /\ Len(g) \in Nat /\ Len(a) <= Len(g)
  BY LenProperties DEF Remembers
<1>2. ASSUME NEW i \in 1..(Len(g) - Len(a)) PROVE g[i] + Window < u
  <2>0. i \in 1..Len(g)
    BY <1>1
  <2>1. g[i] \in 0..MaxTime /\ g[i] + Window < t
    BY <2>0, ElementOfSeq DEF Remembers
  <2> QED
    BY SMTT(30), <2>1, LimiterAssumption
<1> QED
  BY <1>2 DEF Remembers

\* Dropping the first n, all too old.
LEMMA RemembersDropped ==
  ASSUME NEW a \in Seq(0..MaxTime), NEW g \in Seq(0..MaxTime), NEW t \in Nat,
         Remembers(a, g, t),
         NEW n \in 0..Len(a), NEW recent \in Seq(0..MaxTime),
         Len(recent) = Len(a) - n,
         \A i \in 1..Len(recent) : recent[i] = a[n + i],
         \A i \in 1..n : a[i] + Window < t
  PROVE  Remembers(recent, g, t)
<1> DEFINE old == Len(g) - Len(a)
<1>1. Len(a) \in Nat /\ Len(g) \in Nat /\ Len(recent) \in Nat /\ n \in Nat
  BY LenProperties
<1>2. Len(a) <= Len(g) /\ old \in Nat /\ Len(g) - Len(recent) = old + n
  BY <1>1 DEF Remembers
<1>3. /\ \A i \in 1..Len(a) : a[i] = g[old + i]
      /\ \A i \in 1..old : g[i] + Window < t
  BY DEF Remembers
<1> HIDE DEF old
<1>4. ASSUME NEW i \in 1..Len(recent) PROVE recent[i] = g[old + n + i]
  <2>1. n + i \in 1..Len(a) /\ old + (n + i) = old + n + i
    BY <1>1, <1>2
  <2>2. recent[i] = a[n + i] /\ a[n + i] = g[old + (n + i)]
    BY <1>3, <2>1
  <2> QED
    BY <2>1, <2>2
<1>5. ASSUME NEW i \in 1..old + n PROVE g[i] + Window < t
  <2>1. CASE i <= old
    BY <1>2, <1>3, <2>1
  <2>2. CASE ~(i <= old)
    <3>1. i - old \in 1..n /\ i - old \in 1..Len(a) /\ old + (i - old) = i
      BY <1>1, <1>2, <2>2
    <3>2. a[i - old] = g[i] /\ a[i - old] + Window < t
      BY <1>3, <3>1
    <3> QED
      BY <3>2
  <2> QED
    BY <2>1, <2>2
<1>6. Len(recent) <= Len(g)
  BY <1>1, <1>2
<1> QED
  BY <1>2, <1>4, <1>5, <1>6 DEF Remembers

\* A new attempt, when fewer than Limit are remembered.
LEMMA RemembersAppended ==
  ASSUME NEW a \in Seq(0..MaxTime), NEW g \in Seq(0..MaxTime), NEW t \in 0..MaxTime,
         Remembers(a, g, t), Len(a) < Limit, Bounded(g)
  PROVE  Remembers(Append(a, t), Append(g, t), t) /\ Bounded(Append(g, t))
<1> DEFINE old == Len(g) - Len(a)
<1>1. Len(a) \in Nat /\ Len(g) \in Nat /\ Limit \in Nat /\ Limit > 0 /\ Window \in Nat
       /\ MaxTime \in Nat /\ t \in Nat
  BY LenProperties, LimiterAssumption
<1>2. Len(a) <= Len(g) /\ old \in Nat
  BY <1>1 DEF Remembers
<1>3. /\ \A i \in 1..Len(a) : a[i] = g[old + i]
      /\ \A i \in 1..old : g[i] + Window < t
  BY DEF Remembers
<1>4. \A i \in 1..Len(g) : g[i] \in 0..MaxTime
  BY ElementOfSeq
<1> DEFINE b == Append(a, t)
           h == Append(g, t)
<1>5. /\ Len(b) = Len(a) + 1 /\ \A i \in 1..Len(a) : b[i] = a[i]
      /\ b[Len(a) + 1] = t
      /\ Len(h) = Len(g) + 1 /\ \A i \in 1..Len(g) : h[i] = g[i]
      /\ h[Len(g) + 1] = t
  OBVIOUS
<1>6. Len(b) = Len(a) + 1 /\ Len(h) = Len(g) + 1 /\ Len(h) - Len(b) = old
  BY <1>1, <1>5
<1> HIDE DEF b, h
<1>7. ASSUME NEW i \in 1..Len(b) PROVE b[i] = h[old + i]
  <2>1. CASE i <= Len(a)
    <3>1. i \in 1..Len(a) /\ old + i \in 1..Len(g)
      BY <1>1, <1>2, <2>1
    <3> QED
      BY <1>3, <1>5, <3>1
  <2>2. CASE ~(i <= Len(a))
    <3>1. i = Len(a) + 1 /\ old + i = Len(g) + 1
      BY SMTT(30), <1>1, <1>6, <2>2
    <3> QED
      BY <1>5, <3>1
  <2> QED
    BY <2>1, <2>2
<1>8. ASSUME NEW i \in 1..old PROVE h[i] + Window < t
  <2>1. i \in 1..Len(g)
    BY <1>1, <1>2
  <2> QED
    BY <1>3, <1>5, <2>1
<1>9. Remembers(b, h, t)
  <2>1. Len(b) <= Len(h)
    BY <1>1, <1>2, <1>5
  <2> QED
    BY <1>6, <1>7, <1>8, <2>1 DEF Remembers
<1>10. ASSUME NEW i \in 1..(Len(h) - Limit) PROVE h[i + Limit] - h[i] > Window
  <2>1. CASE i + Limit <= Len(g)
    <3>1. i \in 1..(Len(g) - Limit) /\ i \in 1..Len(g) /\ i + Limit \in 1..Len(g)
      BY <1>1, <2>1
    <3>2. g[i + Limit] - g[i] > Window
      BY <3>1 DEF Bounded
    <3> QED
      BY <1>5, <3>1, <3>2
  <2>2. CASE ~(i + Limit <= Len(g))
    <3>1. i + Limit = Len(g) + 1 /\ i \in 1..old /\ i \in 1..Len(g)
      BY <1>1, <1>2, <1>6, <2>2
    <3>2. h[i + Limit] = t /\ h[i] = g[i] /\ g[i] + Window < t /\ g[i] \in Nat
      BY <1>1, <1>3, <1>4, <1>5, <3>1
    <3> QED
      BY SMTT(30), <1>1, <3>2
  <2> QED
    BY <2>1, <2>2
<1> QED
  BY <1>9, <1>10 DEF Bounded, b, h

LEMMA LimiterStep ==
  ASSUME TypeOK, LimiterInv, GuessesAreBounded, \A r \in Requests : PlaceFits(r),
         [Next]_vars
  PROVE  LimiterInv' /\ GuessesAreBounded'
<1>1. ASSUME UNCHANGED <<attempts, guesses>>, now' \in Nat, now <= now'
      PROVE  LimiterInv' /\ GuessesAreBounded'
  <2>1. ASSUME NEW key \in Keys PROVE Remembers(attempts[key], guesses[key], now')
    BY <1>1, Times, RemembersLater DEF TypeOK, LimiterInv
  <2>2. LimiterInv'
    BY <1>1, <2>1 DEF LimiterInv
  <2> QED
    BY <1>1, <2>2 DEF GuessesAreBounded
<1>2. now \in Nat /\ now \in 0..MaxTime
  BY LimiterAssumption DEF TypeOK
<1>3. ASSUME NEW r \in Requests, Attempt(r)
      PROVE  LimiterInv' /\ GuessesAreBounded'
  <2>1. now' = now
    BY <1>3 DEF Attempt
  <2>20. PICK key \in Keys : \E n \in 0..Len(attempts[key]), recent \in Seq(0..MaxTime) :
          /\ Len(recent) = Len(attempts[key]) - n
          /\ \A i \in 1..Len(recent) : recent[i] = attempts[key][n + i]
          /\ \A i \in 1..n : attempts[key][i] + Window < now
          /\ \/ /\ attempts' = [attempts EXCEPT ![key] = recent]
                /\ guesses' = guesses
             \/ /\ Len(recent) < Limit
                /\ attempts' = [attempts EXCEPT ![key] = Append(recent, now)]
                /\ guesses' = [guesses EXCEPT ![key] = Append(guesses[key], now)]
    BY <1>3, Tries
  <2>2. PICK n \in 0..Len(attempts[key]), recent \in Seq(0..MaxTime) :
          /\ Len(recent) = Len(attempts[key]) - n
          /\ \A i \in 1..Len(recent) : recent[i] = attempts[key][n + i]
          /\ \A i \in 1..n : attempts[key][i] + Window < now
          /\ \/ /\ attempts' = [attempts EXCEPT ![key] = recent]
                /\ guesses' = guesses
             \/ /\ Len(recent) < Limit
                /\ attempts' = [attempts EXCEPT ![key] = Append(recent, now)]
                /\ guesses' = [guesses EXCEPT ![key] = Append(guesses[key], now)]
    BY <2>20
  <2>3. /\ attempts[key] \in Seq(0..MaxTime) /\ guesses[key] \in Seq(0..MaxTime)
        /\ Remembers(attempts[key], guesses[key], now) /\ Bounded(guesses[key])
    BY Times DEF LimiterInv, GuessesAreBounded
  <2>4. Remembers(recent, guesses[key], now)
    BY <1>2, <2>2, <2>3, RemembersDropped
  <2>5. Remembers(attempts'[key], guesses'[key], now) /\ Bounded(guesses'[key])
    <3>1. CASE attempts' = [attempts EXCEPT ![key] = recent] /\ guesses' = guesses
      BY <2>3, <2>4, <3>1 DEF TypeOK
    <3>2. CASE /\ Len(recent) < Limit
               /\ attempts' = [attempts EXCEPT ![key] = Append(recent, now)]
               /\ guesses' = [guesses EXCEPT ![key] = Append(guesses[key], now)]
      <4>1. attempts'[key] = Append(recent, now) /\ guesses'[key] = Append(guesses[key], now)
        BY <3>2 DEF TypeOK
      <4>2. /\ Remembers(Append(recent, now), Append(guesses[key], now), now)
            /\ Bounded(Append(guesses[key], now))
        BY <1>2, <2>3, <2>4, <3>2, RemembersAppended
      <4> QED
        BY <4>1, <4>2
    <3> QED
      BY <2>2, <3>1, <3>2
  <2>6. \A other \in Keys \ {key} :
          attempts'[other] = attempts[other] /\ guesses'[other] = guesses[other]
    BY <2>2 DEF TypeOK
  <2>7. \A other \in Keys : Remembers(attempts'[other], guesses'[other], now)
                              /\ Bounded(guesses'[other])
    BY <2>5, <2>6 DEF LimiterInv, GuessesAreBounded
  <2> QED
    BY <2>1, <2>7 DEF LimiterInv, GuessesAreBounded
<1>4. ASSUME NEW r \in Requests, CheckPassword(r)
      PROVE  LimiterInv' /\ GuessesAreBounded'
  <2>1. now' = now
    BY <1>4 DEF CheckPassword
  <2>2. CASE UNCHANGED <<attempts, guesses>>
    BY <1>1, <1>2, <2>1, <2>2
  <2>3. CASE \E key \in Keys : /\ attempts' = [attempts EXCEPT ![key] = <<>>]
                               /\ guesses' = [guesses EXCEPT ![key] = <<>>]
    <3>1. ASSUME NEW other \in Keys
          PROVE  \/ attempts'[other] = <<>> /\ guesses'[other] = <<>>
                 \/ attempts'[other] = attempts[other] /\ guesses'[other] = guesses[other]
      BY <2>3 DEF TypeOK
    <3>2. \A other \in Keys : Remembers(attempts'[other], guesses'[other], now)
                                /\ Bounded(guesses'[other])
      BY <3>1, RemembersReset DEF LimiterInv, GuessesAreBounded
    <3> QED
      BY <2>1, <3>2 DEF LimiterInv, GuessesAreBounded
  <2> QED
    BY <1>4, <2>2, <2>3, Signs
<1>5. CASE Restart
  <2>1. \A key \in Keys : attempts'[key] = <<>> /\ guesses'[key] = <<>>
    BY <1>5 DEF Restart
  <2> QED
    BY <2>1, RemembersReset DEF LimiterInv, GuessesAreBounded
<1>6. CASE Tick
  BY <1>1, <1>2, <1>6 DEF Tick
<1>7. ASSUME UNCHANGED <<now, attempts, guesses>>
      PROVE  LimiterInv' /\ GuessesAreBounded'
  BY <1>1, <1>2, <1>7
<1>8. ASSUME NEW r \in Requests, Serve(r)
      PROVE  Attempt(r) \/ CheckPassword(r) \/ UNCHANGED <<now, attempts, guesses>>
  BY <1>8
  DEF Serve, Arrive, PassBlocklist, FindPrincipal, Logout, ActOnOrder, ChangeBlocklist,
      BotCommand, ReadSwitch, WriteSwitch, ServiceReturns, WebAudit, Fails, Local
<1> QED
  BY <1>3, <1>4, <1>5, <1>6, <1>7, <1>8 DEF Next, vars
-----------------------------------------------------------------------------
(* Sessions *)

\* A step that opens no session, signs none out and lets no request arrive.
LEMMA SessionsKept ==
  ASSUME TypeOK, SessionInv, sessions' \subseteq sessions, ended' = ended,
         now' \in Nat, now <= now',
         \A q \in Requests : /\ At(q, "answered") => request'[q].pc = "answered"
                             /\ request'[q].cookie = request[q].cookie
                             /\ request'[q].late => request[q].late
  PROVE  SessionInv'
<1>1. /\ now \in Nat /\ ended \subseteq Requests
      /\ \A session \in sessions : session.token \in Requests /\ session.until \in Nat
      /\ \A q \in Requests : request[q].cookie \in Requests \union {Nobody}
  BY LimiterAssumption DEF TypeOK, Session, Request
<1>2. \A token \in Requests : At(token, "answered") => request'[token].pc = "answered"
  OBVIOUS
<1>3. \A q \in Requests : request'[q].cookie = request[q].cookie
  OBVIOUS
<1>4. \A q \in Requests : request'[q].late => request[q].late
  OBVIOUS
<1>5. \A session \in sessions' :
        request'[session.token].pc = "answered" /\ session.token \notin ended'
  BY <1>1, <1>2 DEF SessionInv
<1>6. \A token \in ended' : request'[token].pc = "answered"
  BY <1>1, <1>2 DEF SessionInv
<1>7. \A q \in Requests :
        request'[q].cookie = Nobody \/ request'[request'[q].cookie].pc = "answered"
  BY <1>1, <1>2, <1>3 DEF SessionInv
<1>8. ASSUME NEW q \in Requests, NEW session \in sessions',
             request'[q].late, session.token = request'[q].cookie
      PROVE  session.until <= now'
  <2>1. session \in sessions /\ request[q].late /\ session.token = request[q].cookie
    BY <1>8, <1>3, <1>4
  <2>2. session.until \in Nat /\ session.until <= now
    BY <1>1, <2>1 DEF SessionInv
  <2> QED
    BY <1>1, <2>2
<1> QED
  BY <1>5, <1>6, <1>7, <1>8 DEF SessionInv, At

LEMMA SessionsArrive ==
  ASSUME TypeOK, SessionInv, NEW r \in Requests, NEW kind \in Kinds, NEW client \in Clients,
         NEW cookie \in Requests \union {Nobody}, NEW page \in Requests \union {Nobody},
         Arrive(r, kind, client, cookie, page)
  PROVE  SessionInv'
<1>1. /\ At(r, "new") /\ UNCHANGED <<now, sessions, ended>>
      /\ cookie \in {session.token : session \in sessions} \union ended \union {Nobody}
  BY DEF Arrive, Local
<1>2. /\ \A q \in Requests \ {r} : request'[q] = request[q]
      /\ request'[r].cookie = cookie
      /\ request'[r].late = (cookie \in ended \/ ~Live(cookie))
  BY Arrives DEF StepOf
<1>3. /\ now \in Nat /\ ended \subseteq Requests
      /\ \A session \in sessions : session.token \in Requests /\ session.until \in Nat
      /\ \A q \in Requests : request[q].cookie \in Requests \union {Nobody}
  BY LimiterAssumption DEF TypeOK, Session, Request
<1>4. \A token \in Requests : At(token, "answered") => request'[token].pc = "answered"
  BY <1>1, <1>2 DEF At
<1>5. cookie = Nobody \/ At(cookie, "answered")
  BY <1>1 DEF SessionInv
<1>6. \A q \in Requests :
        request'[q].cookie = Nobody \/ request'[request'[q].cookie].pc = "answered"
  BY <1>2, <1>3, <1>4, <1>5 DEF SessionInv
<1>7. ASSUME NEW q \in Requests, NEW session \in sessions,
             request'[q].late, session.token = request'[q].cookie
      PROVE  session.until <= now
  <2>1. CASE q # r
    BY <1>2, <1>7, <2>1 DEF SessionInv
  <2>2. CASE q = r
    <3>1. session.token = cookie /\ ~(session.until > now)
      BY <1>2, <1>7, <2>2 DEF SessionInv, Live
    <3> QED
      BY <1>3, <3>1
  <2> QED
    BY <2>1, <2>2
<1>8. \A session \in sessions :
        request'[session.token].pc = "answered" /\ session.token \notin ended
  BY <1>3, <1>4 DEF SessionInv
<1>9. \A token \in ended : request'[token].pc = "answered"
  BY <1>3, <1>4 DEF SessionInv
<1> QED
  BY <1>1, <1>6, <1>7, <1>8, <1>9 DEF SessionInv, At

\* A session is new with the answer to the sign-in it is named after, so no request had
\* its cookie before.
LEMMA SessionsOpen ==
  ASSUME TypeOK, SessionInv, NEW r \in Requests, NEW session \in Session,
         At(r, "password"), session.token = r, sessions' = sessions \union {session},
         Move(r, "answered"), UNCHANGED <<now, ended>>
  PROVE  SessionInv'
<1>1. /\ \A q \in Requests \ {r} : request'[q] = request[q]
      /\ request'[r].pc = "answered" /\ SameContents(request'[r], request[r])
  BY Moves, PlaceType DEF StepOf
<1>2. /\ ended \subseteq Requests
      /\ \A other \in sessions : other.token \in Requests
      /\ \A q \in Requests : request[q].cookie \in Requests \union {Nobody}
  BY DEF TypeOK, Session, Request
<1>3. \A token \in Requests : At(token, "answered") => request'[token].pc = "answered"
  BY <1>1 DEF At
<1>4. \A q \in Requests : /\ request'[q].cookie = request[q].cookie
                          /\ request'[q].late = request[q].late
                          /\ request[q].cookie # r
  BY <1>1, NobodyAssumption DEF SameContents, SessionInv, At
<1>5. r \notin ended
  BY DEF SessionInv, At
<1>6. \A other \in sessions' :
        request'[other.token].pc = "answered" /\ other.token \notin ended
  BY <1>1, <1>2, <1>3, <1>5 DEF SessionInv
<1>7. \A token \in ended : request'[token].pc = "answered"
  BY <1>2, <1>3 DEF SessionInv
<1>8. \A q \in Requests :
        request'[q].cookie = Nobody \/ request'[request'[q].cookie].pc = "answered"
  BY <1>2, <1>3, <1>4 DEF SessionInv
<1>9. ASSUME NEW q \in Requests, NEW other \in sessions',
             request'[q].late, other.token = request'[q].cookie
      PROVE  other.until <= now
  BY <1>4, <1>9 DEF SessionInv
<1> QED
  BY <1>6, <1>7, <1>8, <1>9 DEF SessionInv, At

LEMMA SessionsClose ==
  ASSUME TypeOK, SessionInv, NEW r \in Requests, PlaceFits(r), Logout(r)
  PROVE  SessionInv'
<1>1. /\ \A q \in Requests \ {r} : request'[q] = request[q]
      /\ request'[r].pc = "answered" /\ SameContents(request'[r], request[r])
  BY Moves, PlaceType DEF StepOf, Logout
<1>2. /\ ended \subseteq Requests
      /\ \A session \in sessions : session.token \in Requests
      /\ \A q \in Requests : request[q].cookie \in Requests \union {Nobody}
  BY DEF TypeOK, Session, Request
<1>3. \A token \in Requests : At(token, "answered") => request'[token].pc = "answered"
  BY <1>1 DEF At
<1>4. \A q \in Requests : request'[q].cookie = request[q].cookie
                           /\ request'[q].late = request[q].late
  BY <1>1 DEF SameContents
<1>5. request[r].cookie \in Requests /\ At(request[r].cookie, "answered")
  BY NobodyAssumption DEF Logout, PlaceFits, At, SessionInv
<1>6. /\ now' = now /\ ended' = ended \union {request[r].cookie}
      /\ sessions' = {session \in sessions : session.token # request[r].cookie}
  BY DEF Logout
<1>7. \A session \in sessions' :
        request'[session.token].pc = "answered" /\ session.token \notin ended'
  BY <1>2, <1>3, <1>6 DEF SessionInv
<1>8. \A token \in ended' : request'[token].pc = "answered"
  BY <1>2, <1>3, <1>5, <1>6 DEF SessionInv
<1>9. \A q \in Requests :
        request'[q].cookie = Nobody \/ request'[request'[q].cookie].pc = "answered"
  BY <1>2, <1>3, <1>4 DEF SessionInv
<1>10. \A q \in Requests, session \in sessions' :
         request'[q].late /\ session.token = request'[q].cookie => session.until <= now'
  BY <1>4, <1>6 DEF SessionInv
<1> QED
  BY <1>7, <1>8, <1>9, <1>10 DEF SessionInv, At

LEMMA SessionStep ==
  ASSUME TypeOK, SessionInv, \A r \in Requests : PlaceFits(r), [Next]_vars
  PROVE  SessionInv'
<1> USE PlaceType
<1>0. now \in Nat /\ now <= now
  BY LimiterAssumption DEF TypeOK
<1>1. ASSUME NEW r \in Requests, StepOf(r), UNCHANGED <<now, sessions, ended>>,
             ~At(r, "answered"), request'[r].cookie = request[r].cookie,
             request'[r].late = request[r].late
      PROVE  SessionInv'
  <2>1. \A q \in Requests : /\ At(q, "answered") => request'[q].pc = "answered"
                            /\ request'[q].cookie = request[q].cookie
                            /\ request'[q].late => request[q].late
    BY <1>1 DEF StepOf, At
  <2> QED
    BY <1>0, <1>1, <2>1, SessionsKept
<1>2. ASSUME NEW r \in Requests, NEW place \in Place, Move(r, place),
             UNCHANGED <<now, sessions, ended>>, ~At(r, "answered")
      PROVE  SessionInv'
  <2>1. StepOf(r) /\ SameContents(request'[r], request[r])
    BY <1>2, Moves
  <2> QED
    BY <1>1, <1>2, <2>1 DEF SameContents
<1>3. ASSUME NEW r \in Requests, Serve(r) PROVE SessionInv'
  <2>1. CASE \E kind \in Kinds, client \in Clients, cookie, page \in Requests \union {Nobody} :
               Arrive(r, kind, client, cookie, page)
    BY <2>1, SessionsArrive
  <2>2. CASE PassBlocklist(r)
    BY <1>2, <2>2 DEF PassBlocklist, Local, At
  <2>3. CASE FindPrincipal(r)
    <3>1. StepOf(r) /\ At(r, "principal") /\ request'[r].cookie = request[r].cookie
           /\ request'[r].late = request[r].late
      BY <2>3, FindsPrincipal
    <3> QED
      BY <1>1, <2>3, <3>1 DEF FindPrincipal, Local, At
  <2>4. CASE Attempt(r)
    <3>1. Move(r, "failed") \/ Move(r, "password")
      BY <2>4, Tries
    <3> QED
      BY <1>2, <2>4, <3>1 DEF Attempt, Database, At
  <2>5. CASE CheckPassword(r)
    <3>1. CASE Move(r, "failed") /\ sessions' = sessions
      BY <1>2, <2>5, <3>1 DEF CheckPassword, At
    <3>2. CASE \E session \in Session : /\ session.token = r
                                        /\ sessions' = sessions \union {session}
                                        /\ Move(r, "answered")
      BY <2>5, <3>2, SessionsOpen DEF CheckPassword
    <3> QED
      BY <2>5, <3>1, <3>2, Signs
  <2>6. CASE Logout(r)
    BY <2>6, SessionsClose
  <2>7. CASE ActOnOrder(r)
    BY <1>2, <2>7 DEF ActOnOrder, At
  <2>8. CASE \E clients \in SUBSET Clients : ChangeBlocklist(r, clients)
    BY <1>2, <2>8 DEF ChangeBlocklist, At
  <2>9. ASSUME NEW want \in {"on", "off"}, BotCommand(r, want) PROVE SessionInv'
    <3>1. StepOf(r) /\ At(r, "new") /\ request'[r].cookie = request[r].cookie
           /\ request'[r].late = request[r].late
      BY <2>9, Commands DEF BotCommand
    <3> QED
      BY <1>1, <2>9, <3>1 DEF BotCommand, Local, At
  <2>10. CASE ReadSwitch(r)
    <3>1. StepOf(r) /\ At(r, "act") /\ request'[r].cookie = request[r].cookie
           /\ request'[r].late = request[r].late
      BY <2>10, Reads DEF ReadSwitch
    <3> QED
      BY <1>1, <2>10, <3>1 DEF ReadSwitch, Local, At
  <2>11. CASE WriteSwitch(r)
    BY <1>2, <2>11 DEF WriteSwitch, At
  <2>12. CASE WebAudit(r)
    BY <1>2, <2>12 DEF WebAudit, At
  <2>13. CASE ServiceReturns(r)
    BY <1>2, <2>13 DEF ServiceReturns, At
  <2>14. CASE Fails(r)
    BY <1>2, <2>14 DEF Fails, Local, At
  <2> QED
    BY <1>3, <2>1, <2>2, <2>3, <2>4, <2>5, <2>6, <2>7, <2>8, <2>9, <2>10, <2>11, <2>12, <2>13,
       <2>14
    DEF Serve
<1>4. CASE Tick
  BY <1>0, <1>4, SessionsKept DEF Tick, Database, At
<1>5. CASE Restart
  <2>1. \A q \in Requests : /\ At(q, "answered") => request'[q].pc = "answered"
                            /\ request'[q].cookie = request[q].cookie
                            /\ request'[q].late => request[q].late
    BY <1>5, Restarts DEF SameContents, At
  <2> QED
    BY <1>0, <1>5, <2>1, SessionsKept DEF Restart, Database
<1>6. CASE UNCHANGED vars
  BY <1>0, <1>6, SessionsKept DEF vars, At
<1> QED
  BY <1>3, <1>4, <1>5, <1>6 DEF Next
-----------------------------------------------------------------------------
(* Where a request can be *)

Fits(r) == PlaceFits(r) /\ LogFits(r)

\* A step of r leaves the others where they fit.
LEMMA PlacesKept ==
  ASSUME TypeOK, NEW r \in Requests, StepOf(r), \A q \in Requests : Fits(q),
         Carried \subseteq Carried', Carried' \subseteq Carried \union {r},
         audited \subseteq audited', audited' \subseteq audited \union {r},
         noted \subseteq noted', noted' \subseteq noted \union {r},
         Fits(r)'
  PROVE  \A q \in Requests : Fits(q)'
<1>1. ASSUME NEW q \in Requests, q # r PROVE Fits(q)'
  <2>1. request'[q] = request[q] /\ (q \in Carried' <=> q \in Carried)
         /\ (q \in audited' <=> q \in audited) /\ (q \in noted' <=> q \in noted)
    BY <1>1 DEF StepOf
  <2>2. PlaceFits(q)'
    BY <2>1 DEF Fits, PlaceFits, At
  <2>3. LogFits(q)'
    BY <2>1 DEF Fits, LogFits, At
  <2> QED
    BY <2>2, <2>3 DEF Fits
<1> QED
  BY <1>1

LEMMA PlaceStep ==
  ASSUME TypeOK, SessionInv, \A r \in Requests : PlaceFits(r) /\ LogFits(r), [Next]_vars
  PROVE  \A r \in Requests : PlaceFits(r)' /\ LogFits(r)'
<1> USE PlaceType
<1> DEFINE Fit == \A q \in Requests : Fits(q)'
<1>0. \A r \in Requests : Fits(r)
  BY DEF Fits
\* A step that writes nothing, of a request that has had no effect.
<1>1. ASSUME NEW r \in Requests, StepOf(r), UNCHANGED <<carried, audited, noted>>,
             r \notin Carried, PlaceFits(r)'
      PROVE  Fit
  <2>1. Carried' = Carried
    BY <1>1 DEF Carried
  <2>2. LogFits(r)'
    BY <1>1, <2>1 DEF LogFits
  <2> QED
    BY <1>0, <1>1, <2>1, <2>2, PlacesKept DEF Fits
<1>2. ASSUME NEW r \in Requests, NEW place \in {"principal", "attempt", "password", "answered"},
             Move(r, place), UNCHANGED <<carried, audited, noted>>,
             place \in {"attempt", "password"} => request[r].kind = "login",
             r \notin Carried, ~At(r, "new")
      PROVE  Fit
  <2>1. StepOf(r) /\ request'[r].pc = place /\ SameContents(request'[r], request[r])
    BY <1>2, Moves
  <2>2. PlaceFits(r) /\ Carried' = Carried
    BY <1>2 DEF Carried
  <2>3. PlaceFits(r)'
    BY <1>2, <2>1, <2>2 DEF PlaceFits, SameContents, At
  <2> QED
    BY <1>1, <1>2, <2>1, <2>3
\* A request fails, whatever it has done so far.
<1>3. ASSUME NEW r \in Requests, Move(r, "failed"), UNCHANGED <<carried, audited, noted>>,
             ~At(r, "new")
      PROVE  Fit
  <2>1. StepOf(r) /\ request'[r].pc = "failed" /\ SameContents(request'[r], request[r])
    BY <1>3, Moves
  <2>2. PlaceFits(r) /\ LogFits(r) /\ Carried' = Carried
    BY <1>3 DEF Carried
  <2>3. PlaceFits(r)'
    BY <1>3, <2>1, <2>2 DEF PlaceFits, SameContents, At
  <2>4. LogFits(r)'
    BY <1>3, <2>1, <2>2 DEF LogFits, SameContents, At
  <2> QED
    BY <1>0, <1>3, <2>1, <2>2, <2>3, <2>4, PlacesKept DEF Fits
\* A command is carried out.
<1>4. ASSUME NEW r \in Requests, CarryOut(r), NEW place \in {"service", "audit", "answered"},
             Move(r, place), At(r, "act") \/ At(r, "write"),
             audited' = audited \/ audited' = audited \union {r},
             noted' = noted \/ noted' = noted \union {r},
             place = "service" => request[r].kind \in OrderKinds,
             place = "audit" => request[r].kind = "control",
             place = "answered" => request[r].kind = "command" \/ r \in audited',
             r \in audited' \/ r \in noted' \/ request[r].kind = "payment"
      PROVE  Fit
  <2>1. StepOf(r) /\ request'[r].pc = place /\ SameContents(request'[r], request[r])
    BY <1>4, Moves
  <2>2. PlaceFits(r) /\ LogFits(r) /\ Carried' = Carried \union {r}
    BY <1>4, CarriesOut
  <2>3. PlaceFits(r)'
    BY <1>4, <2>1, <2>2 DEF PlaceFits, SameContents, At
  <2>4. LogFits(r)'
    BY <1>4, <2>1, <2>2 DEF LogFits, SameContents, At
  <2> QED
    BY <1>0, <1>4, <2>1, <2>2, <2>3, <2>4, PlacesKept DEF Fits
<1>5. ASSUME NEW r \in Requests, Serve(r) PROVE Fit
  <2>1. PlaceFits(r) /\ LogFits(r)
    OBVIOUS
  <2>2. ASSUME NEW kind \in Kinds, NEW client \in Clients,
               NEW cookie \in Requests \union {Nobody}, NEW page \in Requests \union {Nobody},
               Arrive(r, kind, client, cookie, page)
        PROVE  Fit
    <3>1. /\ StepOf(r) /\ request'[r].pc = "blocklist" /\ request'[r].kind = kind
          /\ request'[r].before = {} /\ (kind = "login" => request'[r].admin \in Admins)
      BY <2>2, Arrives
    <3>2. UNCHANGED <<carried, audited, noted>>
      BY <2>2 DEF Arrive, Local
    <3>3. r \notin Carried /\ Carried' = Carried
      BY <2>1, <2>2, <3>2 DEF Arrive, PlaceFits, At, Carried
    <3>4. PlaceFits(r)'
      BY <3>1, <3>3 DEF PlaceFits, At
    <3> QED
      BY <1>1, <3>1, <3>2, <3>3, <3>4
  <2>3. CASE PassBlocklist(r)
    <3>1. r \notin Carried /\ ~At(r, "new") /\ UNCHANGED <<carried, audited, noted>>
      BY <2>1, <2>3 DEF PassBlocklist, Local, PlaceFits, At
    <3>2. Move(r, "failed") \/ Move(r, "principal")
      BY <2>3 DEF PassBlocklist
    <3> QED
      BY <1>2, <1>3, <3>1, <3>2
  <2>4. CASE FindPrincipal(r)
    <3>1. /\ StepOf(r) /\ At(r, "principal") /\ UNCHANGED <<carried, audited, noted>>
          /\ request'[r].kind = request[r].kind /\ request'[r].cookie = request[r].cookie
          /\ request'[r].late = request[r].late /\ request'[r].before = request[r].before
      BY <2>4, FindsPrincipal DEF FindPrincipal, Local
    <3>2. r \notin Carried /\ Carried' = Carried
      BY <2>1, <3>1 DEF PlaceFits, At, Carried
    <3>3. CASE /\ request'[r].pc \in {"attempt", "failed"}
               /\ request'[r].admin = request[r].admin
               /\ request'[r].pc = "attempt" => request[r].kind = "login"
      <4>1. PlaceFits(r)'
        BY <2>1, <3>1, <3>2, <3>3 DEF PlaceFits, At
      <4> QED
        BY <1>1, <3>1, <3>2, <4>1
    <3>4. CASE /\ request[r].kind # "login" /\ request'[r].pc \in {"act", "failed"}
               /\ \E session \in sessions :
                    session.token = request[r].cookie /\ session.until > now
      <4>1. PICK session \in sessions : session.token = request[r].cookie /\ session.until > now
        BY <3>4
      <4>2. session.token \in Requests /\ session.until \in Nat /\ now \in Nat
        BY LimiterAssumption DEF TypeOK, Session
      <4>3. ~(session.until <= now)
        BY <4>1, <4>2
      <4>4. ~request[r].late
        BY <4>1, <4>3 DEF SessionInv
      <4>5. PlaceFits(r)'
        BY <2>1, <3>1, <3>2, <3>4, <4>1, <4>2, <4>4 DEF PlaceFits, At
      <4> QED
        BY <1>1, <3>1, <3>2, <4>5
    <3> QED
      BY <2>4, <3>3, <3>4, FindsPrincipal
  <2>5. CASE Attempt(r)
    <3>1. Move(r, "failed") \/ Move(r, "password")
      BY <2>5, Tries
    <3>2. request[r].kind = "login" /\ r \notin Carried /\ ~At(r, "new")
           /\ UNCHANGED <<carried, audited, noted>>
      BY <2>1, <2>5 DEF Attempt, Database, PlaceFits, At
    <3> QED
      BY <1>2, <1>3, <3>1, <3>2
  <2>6. CASE CheckPassword(r)
    <3>1. Move(r, "failed") \/ Move(r, "answered")
      BY <2>6, Signs
    <3>2. r \notin Carried /\ ~At(r, "new") /\ UNCHANGED <<carried, audited, noted>>
      BY <2>1, <2>6 DEF CheckPassword, PlaceFits, At
    <3> QED
      BY <1>2, <1>3, <3>1, <3>2
  <2>7. CASE Logout(r)
    BY <1>2, <2>1, <2>7 DEF Logout, PlaceFits, At
  <2>8. CASE ActOnOrder(r)
    <3>1. /\ At(r, "act") /\ request[r].kind \in OrderKinds /\ audited' = audited
          /\ ~At(r, "new")
      BY <2>8 DEF ActOnOrder, At
    <3>2. CASE /\ CarryOut(r) /\ Move(r, "service")
               /\ noted' = IF request[r].kind = "order" THEN noted \union {r} ELSE noted
      BY <1>4, <3>1, <3>2 DEF OrderKinds
    <3>3. CASE Move(r, "failed") /\ UNCHANGED <<noted, carried>>
      BY <1>3, <3>1, <3>3
    <3> QED
      BY <2>8, <3>2, <3>3 DEF ActOnOrder
  <2>9. ASSUME NEW clients \in SUBSET Clients, ChangeBlocklist(r, clients) PROVE Fit
    <3>1. /\ At(r, "act") /\ request[r].kind = "block" /\ noted' = noted /\ ~At(r, "new")
      BY <2>9 DEF ChangeBlocklist, At
    <3>2. CASE CarryOut(r) /\ Move(r, "answered") /\ audited' = audited \union {r}
      BY <1>4, <3>1, <3>2
    <3>3. CASE Move(r, "failed") /\ UNCHANGED <<audited, carried>>
      BY <1>3, <3>1, <3>3
    <3> QED
      BY <2>9, <3>2, <3>3 DEF ChangeBlocklist
  <2>10. ASSUME NEW want \in {"on", "off"}, BotCommand(r, want) PROVE Fit
    <3>1. /\ StepOf(r) /\ At(r, "new") /\ UNCHANGED <<carried, audited, noted>>
          /\ request'[r].pc = "act" /\ request'[r].kind = "command"
          /\ request'[r].late = request[r].late /\ request'[r].before = request[r].before
      BY <2>10, Commands DEF BotCommand, Local
    <3>2. r \notin Carried /\ Carried' = Carried
      BY <2>1, <3>1 DEF PlaceFits, At, Carried
    <3>3. PlaceFits(r)'
      BY <2>1, <3>1, <3>2 DEF PlaceFits, At
    <3> QED
      BY <1>1, <3>1, <3>2, <3>3
  <2>11. CASE ReadSwitch(r)
    <3>1. /\ StepOf(r) /\ At(r, "act") /\ UNCHANGED <<carried, audited, noted>>
          /\ request[r].kind \in {"control", "command"}
          /\ request'[r].pc = "write" /\ request'[r].kind = request[r].kind
          /\ request'[r].late = request[r].late /\ request'[r].before = Carried
      BY <2>11, Reads DEF ReadSwitch, Local
    <3>2. r \notin Carried /\ Carried' = Carried
      BY <2>1, <3>1 DEF PlaceFits, At, Carried
    <3>3. PlaceFits(r)'
      BY <2>1, <3>1, <3>2 DEF PlaceFits, At
    <3> QED
      BY <1>1, <3>1, <3>2, <3>3
  <2>12. CASE WriteSwitch(r)
    <3>1. /\ request[r].kind \in {"control", "command"} /\ At(r, "write") /\ ~At(r, "new")
          /\ audited' = audited
      BY <2>1, <2>12 DEF WriteSwitch, PlaceFits, At
    <3>2. CASE Move(r, "failed") /\ UNCHANGED <<noted, carried>>
      BY <1>3, <3>1, <3>2
    <3>3. CASE /\ CarryOut(r) /\ noted' = noted \union {r}
               /\ Move(r, IF request[r].kind = "control" THEN "audit" ELSE "answered")
      BY <1>4, <3>1, <3>3
    <3> QED
      BY <2>12, <3>2, <3>3 DEF WriteSwitch
  <2>13. ASSUME NEW place \in {"audit", "answered"}, Move(r, place), carried' = carried,
                ~At(r, "new"), r \in Carried,
                request[r].kind \in OrderKinds \union {"control"},
                audited' = audited \/ audited' = audited \union {r},
                noted' = noted \/ noted' = noted \union {r},
                place = "answered" => r \in audited', ~request[r].late
         PROVE  Fit
    <3>1. StepOf(r) /\ request'[r].pc = place /\ SameContents(request'[r], request[r])
      BY <2>13, Moves
    <3>2. Carried' = Carried
      BY <2>13 DEF Carried
    <3>3. PlaceFits(r)'
      BY <2>1, <2>13, <3>1, <3>2 DEF PlaceFits, SameContents, At, OrderKinds
    <3>4. LogFits(r)'
      BY <2>1, <2>13, <3>1, <3>2 DEF LogFits, SameContents, At
    <3> QED
      BY <1>0, <2>13, <3>1, <3>2, <3>3, <3>4, PlacesKept DEF Fits
  <2>14. CASE ServiceReturns(r)
    BY <2>1, <2>13, <2>14 DEF ServiceReturns, PlaceFits, At
  <2>15. CASE WebAudit(r)
    BY <2>1, <2>13, <2>15 DEF WebAudit, PlaceFits, At
  <2>16. CASE Fails(r)
    BY <1>3, <2>16 DEF Fails, Local, At
  <2> QED
    BY <1>5, <2>2, <2>3, <2>4, <2>5, <2>6, <2>7, <2>8, <2>9, <2>10, <2>11, <2>12, <2>14, <2>15,
       <2>16
    DEF Serve
<1>6. CASE Restart
  <2>1. UNCHANGED <<carried, audited, noted>> /\ Carried' = Carried
    BY <1>6 DEF Restart, Database, Carried
  <2>2. ASSUME NEW r \in Requests PROVE Fits(r)'
    <3>1. PlaceFits(r) /\ LogFits(r)
      OBVIOUS
    <3>2. CASE request'[r] = request[r]
      BY <2>1, <3>1, <3>2 DEF Fits, PlaceFits, LogFits, At
    <3>3. CASE /\ request'[r].pc = "lost" /\ SameContents(request'[r], request[r])
               /\ request'[r] # request[r]
      <4>1. ~At(r, "new")
        BY <1>6, <3>3, Restarts DEF At
      <4>2. PlaceFits(r)'
        BY <2>1, <3>1, <3>3, <4>1 DEF PlaceFits, SameContents, At
      <4>3. LogFits(r)'
        BY <2>1, <3>1, <3>3 DEF LogFits, SameContents, At
      <4> QED
        BY <4>2, <4>3 DEF Fits
    <3> QED
      BY <1>6, <3>2, <3>3, Restarts
  <2> QED
    BY <2>2 DEF Fits
<1>7. CASE UNCHANGED <<request, carried, audited, noted>>
  <2>1. Carried' = Carried
    BY <1>7 DEF Carried
  <2>2. ASSUME NEW r \in Requests PROVE Fits(r)'
    <3>1. PlaceFits(r) /\ LogFits(r)
      OBVIOUS
    <3> QED
      BY <1>7, <2>1, <3>1 DEF Fits, PlaceFits, LogFits, At
  <2> QED
    BY <2>2 DEF Fits
<1>8. CASE Tick
  BY <1>7, <1>8 DEF Tick, Database
<1>9. CASE UNCHANGED vars
  BY <1>7, <1>9 DEF vars
<1>10. CASE \E r \in Requests : Serve(r)
  BY <1>5, <1>10 DEF Fits
<1> QED
  BY <1>6, <1>8, <1>9, <1>10 DEF Next, Fits
-----------------------------------------------------------------------------
(* The switch *)

\* A step that carries out no switch and lets none read the setting.
LEMMA SwitchesKept ==
  ASSUME TypeOK, SwitchInv, purchases' = purchases, Switches' = Switches,
         \A q \in Switches : /\ request'[q].want = request[q].want
                             /\ request'[q].before = request[q].before,
         \A q \in Requests : request'[q].pc = "write" =>
           /\ At(q, "write") /\ request'[q].seen = request[q].seen
           /\ request'[q].before = request[q].before
  PROVE  SwitchInv'
<1>1. \A q \in {q \in Requests : request'[q].pc = "write"} :
        /\ q \in {p \in Requests : request[p].pc = "write"}
        /\ request'[q].seen = request[q].seen /\ request'[q].before = request[q].before
  BY DEF At
<1>2. CASE Switches = {}
  BY <1>1, <1>2 DEF SwitchInv, At
<1>3. CASE Switches # {}
  <2>1. PICK x \in Switches :
          /\ purchases = request[x].want
          /\ \A r \in Switches : x \notin request[r].before
          /\ \A r \in {r \in Requests : request[r].pc = "write"} :
               x \in request[r].before => request[r].seen = purchases
    BY <1>3 DEF SwitchInv, At
  <2>2. /\ purchases' = request'[x].want
        /\ \A r \in Switches' : x \notin request'[r].before
        /\ \A r \in {r \in Requests : request'[r].pc = "write"} :
             x \in request'[r].before => request'[r].seen = purchases'
    BY <1>1, <2>1
  <2> QED
    BY <1>3, <2>2 DEF SwitchInv, At
<1> QED
  BY <1>2, <1>3

LEMMA SwitchesType ==
  ASSUME TypeOK
  PROVE  /\ Switches \subseteq Requests /\ Switches \subseteq Carried
         /\ \A q \in Requests : request[q].want \in {"on", "off"}
  BY CarriedType DEF Switches, TypeOK, Request

\* The same of a step of one request, which may carry out a command of another kind.
LEMMA OtherStep ==
  ASSUME TypeOK, SwitchInv, NEW r \in Requests, StepOf(r), purchases' = purchases,
         request'[r].pc # "write",
         \/ Carried' = Carried
         \/ /\ Carried' = Carried \union {r}
            /\ request'[r].kind \notin {"control", "command"},
         r \notin Carried \/ SameContents(request'[r], request[r])
  PROVE  SwitchInv'
<1>1. \A q \in Requests \ {r} : request'[q] = request[q]
  BY DEF StepOf
<1>2. Carried \subseteq Requests
  BY CarriedType
<1>3. Switches' = Switches
  BY <1>1, <1>2 DEF Switches, SameContents
<1>4. \A q \in Switches : /\ request'[q].want = request[q].want
                          /\ request'[q].before = request[q].before
  BY <1>1, <1>2 DEF Switches, SameContents
<1>5. \A q \in Requests : request'[q].pc = "write" =>
        /\ At(q, "write") /\ request'[q].seen = request[q].seen
        /\ request'[q].before = request[q].before
  BY <1>1 DEF At
<1> QED
  BY <1>3, <1>4, <1>5, SwitchesKept

\* The setting is loaded: every command so far is before this one.
LEMMA SwitchRead ==
  ASSUME TypeOK, SwitchInv, NEW r \in Requests, PlaceFits(r), ReadSwitch(r)
  PROVE  SwitchInv'
<1>1. /\ \A q \in Requests \ {r} : request'[q] = request[q]
      /\ request'[r].kind = request[r].kind /\ request'[r].pc = "write"
      /\ request'[r].seen = purchases /\ request'[r].before = Carried
      /\ purchases' = purchases /\ Carried' = Carried
  BY Reads DEF ReadSwitch, StepOf, Local, Carried
<1>2. r \notin Carried /\ Switches \subseteq Requests /\ Switches \subseteq Carried
  BY SwitchesType DEF ReadSwitch, PlaceFits, At
<1>3. Carried \subseteq Requests
  BY CarriedType
<1>4. Switches' = Switches
  BY <1>1, <1>2, <1>3 DEF Switches
<1>5. \A q \in Requests : request'[q].pc = "write" => q = r \/ At(q, "write")
  BY <1>1 DEF At
<1>6. CASE Switches = {}
  BY <1>1, <1>4, <1>5, <1>6 DEF SwitchInv, At
<1>7. CASE Switches # {}
  <2>1. PICK x \in Switches :
          /\ purchases = request[x].want
          /\ \A q \in Switches : x \notin request[q].before
          /\ \A q \in {q \in Requests : At(q, "write")} :
               x \in request[q].before => request[q].seen = purchases
    BY <1>7 DEF SwitchInv
  <2>2. /\ purchases' = request'[x].want
        /\ \A q \in Switches' : x \notin request'[q].before
    BY <1>1, <1>2, <1>4, <2>1
  <2>3. \A q \in {q \in Requests : request'[q].pc = "write"} :
          x \in request'[q].before => request'[q].seen = purchases'
    BY <1>1, <1>5, <2>1
  <2> QED
    BY <1>4, <1>7, <2>2, <2>3 DEF SwitchInv, At
<1> QED
  BY <1>6, <1>7

\* A command whose write takes effect is the one that left the switch as it stands; one
\* whose setting was as it asked for writes nothing, and then an earlier one is, unless
\* both left the same.
LEMMA SwitchWritten ==
  ASSUME TypeOK, SwitchInv, \A q \in Requests : PlaceFits(q), NEW r \in Requests,
         WriteSwitch(r)
  PROVE  SwitchInv'
<1>1. At(r, "write") /\ r \notin Carried /\ request[r].kind \in {"control", "command"}
  BY DEF WriteSwitch, PlaceFits, At
<1>2. CASE /\ Move(r, "failed") /\ UNCHANGED <<purchases, carried>>
  <2>1. StepOf(r) /\ request'[r].pc = "failed" /\ Carried' = Carried
    BY <1>2, Moves, PlaceType DEF Carried
  <2> QED
    BY <1>1, <1>2, <2>1, OtherStep
<1>3. CASE /\ ~(request[r].seen = "unset" /\ purchases # "unset")
           /\ purchases' = Stored(request[r].seen, request[r].want) /\ CarryOut(r)
           /\ Move(r, IF request[r].kind = "control" THEN "audit" ELSE "answered")
  <2> PICK place \in {"audit", "answered"} :
        place = IF request[r].kind = "control" THEN "audit" ELSE "answered"
    OBVIOUS
  <2>1. /\ \A q \in Requests \ {r} : request'[q] = request[q]
        /\ request'[r].pc = place /\ SameContents(request'[r], request[r])
    BY <1>3, Moves, PlaceType DEF StepOf
  <2>2. Carried' = Carried \union {r} /\ Carried \subseteq Requests
    BY <1>3, CarriesOut, CarriedType
  <2>3. Switches' = Switches \union {r}
    BY <1>1, <2>1, <2>2 DEF Switches, SameContents
  <2>4. \A q \in Requests : /\ request'[q].want = request[q].want
                            /\ request'[q].before = request[q].before
                            /\ request'[q].seen = request[q].seen
    BY <2>1 DEF SameContents
  <2>5. \A q \in Requests : request'[q].pc = "write" => At(q, "write")
    BY <2>1 DEF At
  <2>6. \A q \in Requests : r \notin request[q].before
    BY <1>1 DEF PlaceFits
  <2>7. Switches \subseteq Requests /\ request[r].want \in {"on", "off"}
    BY SwitchesType
  <2>8. CASE purchases' = request[r].want
    <3>1. /\ r \in Switches' /\ purchases' = request'[r].want
          /\ \A q \in Switches' : r \notin request'[q].before
      BY <2>3, <2>4, <2>6, <2>7, <2>8
    <3>2. \A q \in {q \in Requests : request'[q].pc = "write"} :
            r \in request'[q].before => request'[q].seen = purchases'
      BY <2>4, <2>6
    <3> QED
      BY <3>1, <3>2 DEF SwitchInv, At
  <2>9. CASE purchases' # request[r].want
    <3>1. request[r].seen = request[r].want /\ purchases' = purchases
      BY <1>3, <2>9 DEF Stored
    <3>2. Switches # {}
      BY <1>1, <2>7, <3>1 DEF SwitchInv
    <3>3. PICK x \in Switches :
            /\ purchases = request[x].want
            /\ \A q \in Switches : x \notin request[q].before
            /\ \A q \in {q \in Requests : At(q, "write")} :
                 x \in request[q].before => request[q].seen = purchases
      BY <3>2 DEF SwitchInv
    <3>4. x \notin request[r].before
      BY <1>1, <2>9, <3>1, <3>3
    <3>5. /\ x \in Switches' /\ purchases' = request'[x].want
          /\ \A q \in Switches' : x \notin request'[q].before
      BY <2>3, <2>4, <2>7, <3>1, <3>3, <3>4
    <3>6. \A q \in {q \in Requests : request'[q].pc = "write"} :
            x \in request'[q].before => request'[q].seen = purchases'
      BY <2>4, <2>5, <3>1, <3>3
    <3> QED
      BY <3>5, <3>6 DEF SwitchInv, At
  <2> QED
    BY <2>8, <2>9
<1> QED
  BY <1>2, <1>3 DEF WriteSwitch

LEMMA SwitchStep ==
  ASSUME TypeOK, SwitchInv, \A r \in Requests : PlaceFits(r), [Next]_vars
  PROVE  SwitchInv'
<1> USE PlaceType
<1>1. ASSUME NEW r \in Requests, NEW place \in Place \ {"write"}, Move(r, place),
             UNCHANGED purchases,
             \/ carried' = carried
             \/ CarryOut(r) /\ request[r].kind \notin {"control", "command"}
      PROVE  SwitchInv'
  <2>1. StepOf(r) /\ request'[r].pc = place /\ SameContents(request'[r], request[r])
    BY <1>1, Moves
  <2>2. \/ Carried' = Carried
        \/ /\ Carried' = Carried \union {r}
           /\ request'[r].kind \notin {"control", "command"}
    BY <1>1, <2>1, CarriesOut DEF Carried, SameContents
  <2> QED
    BY <1>1, <2>1, <2>2, OtherStep
<1>2. ASSUME NEW r \in Requests, StepOf(r), request'[r].pc # "write", r \notin Carried,
             UNCHANGED <<purchases, carried>>
      PROVE  SwitchInv'
  BY <1>2, OtherStep DEF Carried
<1>3. ASSUME NEW r \in Requests,
             NEW place \in {"failed", "principal", "password", "answered"},
             Move(r, place), purchases' = purchases, carried' = carried
      PROVE  SwitchInv'
  <2>1. StepOf(r) /\ request'[r].pc = place /\ SameContents(request'[r], request[r])
    BY <1>3, Moves
  <2>2. Carried' = Carried
    BY <1>3 DEF Carried
  <2> QED
    BY <1>3, <2>1, <2>2, OtherStep
<1>4. ASSUME NEW r \in Requests, Serve(r) PROVE SwitchInv'
  <2>1. PlaceFits(r)
    OBVIOUS
  <2>2. ASSUME NEW kind \in Kinds, NEW client \in Clients,
               NEW cookie \in Requests \union {Nobody}, NEW page \in Requests \union {Nobody},
               Arrive(r, kind, client, cookie, page)
        PROVE  SwitchInv'
    <3>1. StepOf(r) /\ request'[r].pc = "blocklist"
      BY <2>2, Arrives
    <3>2. r \notin Carried /\ UNCHANGED <<purchases, carried>>
      BY <2>1, <2>2 DEF Arrive, Local, PlaceFits, At
    <3> QED
      BY <1>2, <3>1, <3>2
  <2>3. CASE PassBlocklist(r)
    BY <1>3, <2>3 DEF PassBlocklist, Local
  <2>4. CASE FindPrincipal(r)
    <3>1. StepOf(r) /\ request'[r].pc # "write"
      BY <2>4, FindsPrincipal
    <3>2. r \notin Carried /\ UNCHANGED <<purchases, carried>>
      BY <2>1, <2>4 DEF FindPrincipal, Local, PlaceFits, At
    <3> QED
      BY <1>2, <3>1, <3>2
  <2>5. CASE Attempt(r)
    <3>1. Move(r, "failed") \/ Move(r, "password")
      BY <2>5, Tries
    <3> QED
      BY <1>3, <2>5, <3>1 DEF Attempt, Database
  <2>6. CASE CheckPassword(r)
    <3>1. Move(r, "failed") \/ Move(r, "answered")
      BY <2>6, Signs
    <3> QED
      BY <1>3, <2>6, <3>1 DEF CheckPassword
  <2>7. CASE Logout(r)
    BY <1>1, <2>7 DEF Logout
  <2>8. CASE ActOnOrder(r)
    <3>1. CASE CarryOut(r) /\ Move(r, "service")
      BY <1>1, <2>8, <3>1 DEF ActOnOrder, OrderKinds
    <3>2. CASE Move(r, "failed") /\ UNCHANGED carried
      BY <1>1, <2>8, <3>2 DEF ActOnOrder
    <3> QED
      BY <2>8, <3>1, <3>2 DEF ActOnOrder
  <2>9. CASE \E clients \in SUBSET Clients : ChangeBlocklist(r, clients)
    BY <1>1, <2>9 DEF ChangeBlocklist
  <2>10. ASSUME NEW want \in {"on", "off"}, BotCommand(r, want) PROVE SwitchInv'
    <3>1. StepOf(r) /\ request'[r].pc = "act"
      BY <2>10, Commands
    <3>2. r \notin Carried /\ UNCHANGED <<purchases, carried>>
      BY <2>1, <2>10 DEF BotCommand, Local, PlaceFits, At
    <3> QED
      BY <1>2, <3>1, <3>2
  <2>11. CASE ReadSwitch(r)
    BY <2>1, <2>11, SwitchRead
  <2>12. CASE WriteSwitch(r)
    BY <2>12, SwitchWritten
  <2>13. CASE WebAudit(r)
    BY <1>3, <2>13 DEF WebAudit
  <2>14. CASE ServiceReturns(r)
    BY <1>1, <2>14 DEF ServiceReturns
  <2>15. CASE Fails(r)
    BY <1>3, <2>15 DEF Fails, Local
  <2> QED
    BY <1>4, <2>2, <2>3, <2>4, <2>5, <2>6, <2>7, <2>8, <2>9, <2>10, <2>11, <2>12, <2>13, <2>14,
       <2>15
    DEF Serve
<1>5. CASE Restart
  <2>1. purchases' = purchases /\ Carried' = Carried /\ Carried \subseteq Requests
    BY <1>5, CarriedType DEF Restart, Database, Carried
  <2>2. \A q \in Requests :
          request'[q] = request[q]
            \/ (request'[q].pc = "lost" /\ SameContents(request'[q], request[q]))
    BY <1>5, Restarts
  <2>3. Switches' = Switches
    BY <2>1, <2>2 DEF Switches, SameContents
  <2>4. \A q \in Switches : /\ request'[q].want = request[q].want
                            /\ request'[q].before = request[q].before
    BY <2>1, <2>2 DEF Switches, SameContents
  <2>5. \A q \in Requests : request'[q].pc = "write" =>
          /\ At(q, "write") /\ request'[q].seen = request[q].seen
          /\ request'[q].before = request[q].before
    BY <2>2 DEF At
  <2> QED
    BY <2>1, <2>3, <2>4, <2>5, SwitchesKept
<1>6. CASE UNCHANGED <<request, carried, purchases>>
  <2>1. Switches' = Switches
    BY <1>6 DEF Switches, Carried
  <2> QED
    BY <1>6, <2>1, SwitchesKept DEF At
<1> QED
  BY <1>4, <1>5, <1>6 DEF Next, Tick, Database, vars

-----------------------------------------------------------------------------
(* The theorems *)

LEMMA InvInit == Init => Inv /\ GuessesAreBounded
<1> SUFFICES ASSUME Init PROVE Inv /\ GuessesAreBounded
  OBVIOUS
<1>1. \A r \in Requests :
        /\ request[r].pc = "new" /\ request[r].kind = "login" /\ request[r].late = FALSE
        /\ request[r].cookie = Nobody /\ request[r].before = {}
  BY DEF Init
<1>2. Carried = {} /\ audited = {} /\ noted = {} /\ sessions = {} /\ ended = {} /\ purchases = "unset"
  BY DEF Init, Carried, Range
<1>3. LimiterInv /\ GuessesAreBounded
  BY RemembersReset DEF Init, LimiterInv, GuessesAreBounded
<1>4. SessionInv
  BY <1>1, <1>2 DEF SessionInv
<1>5. \A r \in Requests : PlaceFits(r)
  BY <1>1, <1>2 DEF PlaceFits, At
<1>6. SwitchInv
  BY <1>1, <1>2 DEF SwitchInv, Switches, At
<1> QED
  BY <1>2, <1>3, <1>4, <1>5, <1>6 DEF Inv, LogFits

Safe == TypeOK /\ Inv /\ GuessesAreBounded

LEMMA SafeInvariant == Spec => []Safe
<1>1. Init => Safe
  BY TypeInit, InvInit DEF Safe
<1>2. Safe /\ [Next]_vars => Safe'
  <2> SUFFICES ASSUME Safe, [Next]_vars PROVE Safe'
    OBVIOUS
  <2>1. /\ TypeOK /\ Inv /\ GuessesAreBounded /\ LimiterInv /\ SessionInv /\ SwitchInv
        /\ \A r \in Requests : PlaceFits(r) /\ LogFits(r)
    BY DEF Safe, Inv
  <2>2. TypeOK'
    BY <2>1, TypeStep
  <2>3. LimiterInv' /\ GuessesAreBounded'
    BY <2>1, LimiterStep
  <2>4. SessionInv'
    BY <2>1, SessionStep
  <2>5. \A r \in Requests : PlaceFits(r)' /\ LogFits(r)'
    BY <2>1, PlaceStep
  <2>6. SwitchInv'
    BY <2>1, SwitchStep
  <2> QED
    BY <2>2, <2>3, <2>4, <2>5, <2>6 DEF Safe, Inv
<1> QED
  BY <1>1, <1>2, PTL DEF Spec

\* The inductive invariant: the limiter remembers every attempt that still counts,
\* sessions are named after answered requests, every request is where it can be and in
\* the audit log as it should, and the switch stands as a command left it that the pending ones know of (app/admin/auth.py,
\* app/admin/server.py).
THEOREM InvariantHolds == Spec => [](TypeOK /\ Inv)
<1>1. Safe => TypeOK /\ Inv
  BY DEF Safe
<1> QED
  BY <1>1, SafeInvariant, PTL

\* Whatever requests are in flight, no client has more than the configured passwords of a
\* name checked within the window (AdminAuth._allow_attempt).
THEOREM GuessesBounded == Spec => []GuessesAreBounded
<1>1. Safe => GuessesAreBounded
  BY DEF Safe
<1> QED
  BY <1>1, SafeInvariant, PTL

\* Nothing is done for a request whose session had ended when it arrived
\* (AdminAuth.principal and logout).
THEOREM EndedDoNotAct == Spec => []EndedSessionsDoNotAct
<1>1. TypeOK /\ Inv => EndedSessionsDoNotAct
  BY CarriedType DEF Inv, PlaceFits, EndedSessionsDoNotAct
<1> QED
  BY <1>1, InvariantHolds, PTL

\* The audit log names only what took effect, and with its address every command of the
\* panel whose administrator was told that it is done (order_action, system_control,
\* ip_action).
THEOREM AuditTrue == Spec => []AuditIsTrue
<1>1. TypeOK /\ Inv => AuditIsTrue
  BY CarriedType DEF Inv, LogFits, AuditIsTrue, TypeOK, At
<1> QED
  BY <1>1, InvariantHolds, PTL

\* Whatever fails after a command took effect, the audit log knows who gave it, refunds and
\* syncs that did not return apart (OrderService.safe_retry_order, request_yookassa_refund).
THEOREM EffectsNamed == Spec => []EffectsAreNamed
<1>1. TypeOK /\ Inv => EffectsAreNamed
  BY CarriedType DEF Inv, LogFits, EffectsAreNamed, At
<1> QED
  BY <1>1, InvariantHolds, PTL

\* Overlapping commands leave the switch as some command left it that no later one
\* followed (set_runtime_bool).
THEOREM SwitchSerial == Spec => []SwitchIsSerial
<1>1. Inv => SwitchIsSerial
  BY DEF Inv, SwitchInv, SwitchIsSerial
<1> QED
  BY <1>1, InvariantHolds, PTL
=============================================================================
