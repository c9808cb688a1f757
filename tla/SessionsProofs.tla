--------------------------- MODULE SessionsProofs ---------------------------
(***************************************************************************)
(* Revoked sessions stay revoked, browsers that send one request at a time *)
(* and get every answer are in step with the server and never taken for    *)
(* thieves, and a student has no more sessions than devices allowed: for   *)
(* any number of browsers, sessions and requests and any times.            *)
(*                                                                         *)
(* A token names a session of the browser that holds it (Owned).  What an  *)
(* honest browser and the server have to agree on between requests depends *)
(* on how far the browser's one request has come (InStep).  A rotation may *)
(* bring a session back that expired after it was read, so the sessions    *)
(* that count are those that a rotation has read, too (Live), and while a  *)
(* sign-in that nothing overlapped is in progress nobody rotates           *)
(* (Alone).                                                                *)
(***************************************************************************)
EXTENDS Sessions, FiniteSetTheorems, TLAPS

Open(r) == request[r] # Idle
Real == [id: Ids, secret: Nat \ {0}]
Asking == {"refresh", "logout", "reuse", "check", "undo", "answer"}
Creates == [at: {"create"}, device: Devices, time: Nat, victims: SUBSET Ids]
Asks == [at: Asking, device: Devices, token: Token]
Rotates == [at: {"rotate"}, device: Devices, token: Token, time: Nat, secret: Nat]

Minted == \A s \in Ids : Exists(s) => minted[s] # 0 /\ session[s].device \in Devices

Owns(d, token) == token # NoToken => minted[token.id] # 0 /\ (Exists(token.id) => session[token.id].device = d)
Owned ==
    /\ \A d \in Devices : Owns(d, cookie[d])
    /\ \A r \in Requests : Open(r) /\ request[r].at # "create" =>
          /\ Owns(request[r].device, request[r].token)
          /\ request[r].at # "answer" => request[r].token # NoToken

Honest(d) == d \notin raced \cup broken
OneRequest ==
    \A r, q \in Requests : Open(r) /\ Open(q) /\ request[r].device = request[q].device /\ Honest(request[r].device) => r = q
\* Every active session of d is the token's, with its secret.
Agree(d, token) ==
    \A s \in Ids : Active(s) /\ session[s].device = d => s = token.id /\ session[s].secret = token.secret
NoActive(d) == \A s \in Ids : ~(Active(s) /\ session[s].device = d)
Points(d, id) == \A s \in Ids : Active(s) /\ session[s].device = d => s = id
\* What r's browser and the server agree on while r is in progress.
Says(r) ==
    /\ request[r].at = "create" => NoActive(request[r].device)
    /\ request[r].at = "rotate" => Points(request[r].device, request[r].token.id)
    /\ request[r].at # "reuse"
    /\ request[r].at \notin {"create", "rotate"} => Agree(request[r].device, request[r].token)
InStep ==
    /\ \A d \in Devices : Honest(d) /\ ~Busy(d) => Agree(d, cookie[d])
    /\ \A r \in Requests : Open(r) /\ Honest(request[r].device) => Says(r)
HonestInv == Owned /\ OneRequest /\ InStep /\ HonestStays

\* The students' sessions that a rotation in progress has read: active, or expired since.
Pending == {s \in Ids :
    /\ Exists(s) /\ session[s].revoked = "no" /\ session[s].device \notin Admins
    /\ \E r \in Requests : request[r].at = "rotate" /\ request[r].token.id = s}
Live == Counted \cup Pending
Alone == \A r, q \in Requests : request[r].at = "create" /\ request[q].at \in {"create", "refresh", "rotate"} => r = q
Room ==
    /\ IsFiniteSet(Live) /\ Cardinality(Live) <= MaxDevices
    /\ \A r \in Requests : request[r].at = "create" /\ request[r].device \notin Admins =>
          Cardinality(Live \ request[r].victims) < MaxDevices
LimitInv == ~crowded => Alone /\ Room

Inv == TypeOK /\ Minted /\ HonestInv /\ LimitInv
-----------------------------------------------------------------------------
(* Requests and documents. *)
LEMMA Forms ==
    ASSUME TypeOK, NEW r \in Requests
    PROVE  /\ request[r].at = "create" => request[r] \in Creates
           /\ request[r].at = "rotate" => request[r] \in Rotates
           /\ request[r].at \in Asking => request[r] \in Asks
           /\ Open(r) <=> request[r].at \in Asking \cup {"create", "rotate"}
  <1>1. request[r] \in {Idle} \cup Creates \cup Asks \cup Rotates
    BY DEF TypeOK, RequestState, Creates, Asks, Rotates, Asking
  <1> QED
    BY <1>1 DEF Idle, Creates, Asks, Rotates, Asking, Open

LEMMA GoEffect ==
    ASSUME TypeOK, NEW r \in Requests, NEW next \in RequestState, Go(r, next)
    PROVE  /\ request' \in [Requests -> RequestState]
           /\ request'[r] = next
           /\ \A q \in Requests : q # r => request'[q] = request[q]
  BY DEF TypeOK, Go

LEMMA AskTyped ==
    ASSUME NEW at \in Asking, NEW d \in Devices, NEW token \in Token
    PROVE  [at |-> at, device |-> d, token |-> token] \in RequestState
  BY DEF RequestState, Asking

LEMMA AskMoves ==
    ASSUME NEW x \in Asks, NEW at \in Asking
    PROVE  /\ [x EXCEPT !.at = at] \in RequestState /\ [x EXCEPT !.at = at].at = at
           /\ [x EXCEPT !.at = at].device = x.device /\ [x EXCEPT !.at = at].token = x.token
  <1>1. [x EXCEPT !.at = at] \in Asks
    BY DEF Asks
  <1> QED
    BY <1>1 DEF Asks, RequestState, Asking

LEMMA NoTokenTyped == NoToken \in Token
  BY DEF Token

LEMMA RealToken ==
    ASSUME NEW token \in Token, token # NoToken
    PROVE  token \in Real /\ token.id \in Ids /\ token.secret \in Nat \ {0}
  BY DEF Token, Real

LEMMA AbsentTyped == Absent \in SessionDoc /\ ~(Absent.secret > 0) /\ Absent.revoked = "no"
  BY DEF Absent, SessionDoc

LEMMA RevokedTyped ==
    ASSUME NEW doc \in SessionDoc, NEW why \in {"logout", "device_limit", "reuse_detected"}
    PROVE  /\ [doc EXCEPT !.revoked = why] \in SessionDoc
           /\ [doc EXCEPT !.revoked = why].revoked = why
           /\ [doc EXCEPT !.revoked = why].secret = doc.secret
           /\ [doc EXCEPT !.revoked = why].device = doc.device
  BY DEF SessionDoc

LEMMA RotatedTyped ==
    ASSUME NEW doc \in SessionDoc, NEW q \in Rotates, NEW fresh \in Nat
    PROVE  /\ Rotated(doc, q, fresh) \in SessionDoc
           /\ Rotated(doc, q, fresh).secret = fresh
           /\ Rotated(doc, q, fresh).device = doc.device
           /\ Rotated(doc, q, fresh).revoked = doc.revoked
  <1>1. q.secret \in Nat /\ q.time \in Nat /\ q.time + Ttl \in Nat
    BY NumbersAssumption DEF Rotates
  <1>2. Rotated(doc, q, fresh) \in SessionDoc
    BY <1>1 DEF Rotated, SessionDoc
  <1>3. /\ Rotated(doc, q, fresh).secret = fresh /\ Rotated(doc, q, fresh).device = doc.device
        /\ Rotated(doc, q, fresh).revoked = doc.revoked
    BY DEF Rotated, SessionDoc
  <1> QED
    BY <1>2, <1>3

LEMMA FreshTyped ==
    ASSUME NEW d \in Devices, NEW time \in Nat
    PROVE  LET doc == [Absent EXCEPT !.device = d, !.secret = 1, !.lastUsedAt = time, !.expiresAt = time + Ttl]
           IN  doc \in SessionDoc /\ doc.device = d /\ doc.secret = 1 /\ doc.revoked = "no"
  <1>1. time + Ttl \in Nat
    BY NumbersAssumption
  <1> QED
    BY <1>1 DEF Absent, SessionDoc
-----------------------------------------------------------------------------
(* Types. *)
LEMMA TypeInit == Init => TypeOK
  <1> SUFFICES ASSUME Init PROVE TypeOK
    OBVIOUS
  <1>1. session \in [Ids -> SessionDoc]
    BY AbsentTyped DEF Init
  <1>2. cookie \in [Devices -> Token] /\ request \in [Requests -> RequestState]
    BY NoTokenTyped DEF Init, RequestState
  <1> QED
    BY <1>1, <1>2 DEF Init, TypeOK

LEMMA TypeStep == TypeOK /\ Owned /\ [Next]_vars => TypeOK'
  <1> SUFFICES ASSUME TypeOK, Owned, [Next]_vars PROVE TypeOK'
    OBVIOUS
  <1> USE DEF history
  <1>1. ASSUME NEW r \in Requests, NEW next \in RequestState, Go(r, next) PROVE request' \in [Requests -> RequestState]
    BY <1>1, GoEffect
  <1>2. ASSUME NEW d \in Devices, NEW signsIn \in BOOLEAN, Arrives(d, signsIn) PROVE raced' \subseteq Devices /\ crowded' \in BOOLEAN
    BY <1>2 DEF Arrives, TypeOK
  <1>3. ASSUME NEW r \in Requests, NEW d \in Devices, SignIn(r, d) PROVE TypeOK'
    <2>1. PICK V \in SUBSET Ids : Go(r, [at |-> "create", device |-> d, time |-> now, victims |-> V])
      BY <1>3 DEF SignIn, Evictions, Counted
    <2>2. [at |-> "create", device |-> d, time |-> now, victims |-> V] \in RequestState
      BY DEF RequestState, TypeOK
    <2> QED
      BY <1>1, <1>2, <1>3, <2>1, <2>2 DEF SignIn, TypeOK
  <1>4. ASSUME NEW r \in Requests, NEW d \in Devices, NEW what \in {"refresh", "logout"}, Send(r, d, what) PROVE TypeOK'
    <2>1. [at |-> what, device |-> d, token |-> cookie[d]] \in RequestState
      BY AskTyped DEF TypeOK, Asking
    <2> QED
      BY <1>1, <1>2, <1>4, <2>1 DEF Send, TypeOK
  <1>5. ASSUME NEW r \in Requests, Evict(r) PROVE TypeOK'
    <2>1. request[r] \in Creates
      BY <1>5, Forms DEF Evict
    <2>2. [request[r] EXCEPT !.victims = {}] \in RequestState
      BY <2>1 DEF Creates, RequestState
    <2>3. request' \in [Requests -> RequestState]
      BY <1>5, <2>2 DEF Evict, TypeOK
    <2>4. \A s \in Ids : [session[s] EXCEPT !.revoked = "device_limit"] \in SessionDoc
      BY RevokedTyped DEF TypeOK
    <2>5. session' \in [Ids -> SessionDoc]
      BY <1>5, <2>4 DEF Evict, TypeOK
    <2> QED
      BY <1>5, <2>3, <2>5 DEF Evict, TypeOK
  <1>6. ASSUME NEW r \in Requests, NEW token \in Token, request[r].device \in Devices, Answer(r, token)
        PROVE  request' \in [Requests -> RequestState]
    <2>1. [at |-> "answer", device |-> request[r].device, token |-> token] \in RequestState
      BY <1>6, AskTyped DEF Asking
    <2> QED
      BY <1>1, <1>6, <2>1 DEF Answer
  <1>7. ASSUME NEW r \in Requests, Save(r) PROVE TypeOK'
    <2>1. request[r] \in Creates /\ request[r].device \in Devices /\ request[r].time \in Nat
      BY <1>7, Forms DEF Save, Creates
    <2>2. PICK s \in Ids :
            /\ minted' = [minted EXCEPT ![s] = 1]
            /\ session' = [session EXCEPT ![s] = [Absent EXCEPT !.device = request[r].device, !.secret = 1,
                               !.lastUsedAt = request[r].time, !.expiresAt = request[r].time + Ttl]]
            /\ Answer(r, [id |-> s, secret |-> 1])
      BY <1>7 DEF Save
    <2>3. [id |-> s, secret |-> 1] \in Token
      BY DEF Token
    <2>4. session' \in [Ids -> SessionDoc] /\ minted' \in [Ids -> Nat]
      BY <2>1, <2>2, FreshTyped DEF TypeOK
    <2> QED
      BY <1>6, <1>7, <2>1, <2>2, <2>3, <2>4 DEF Save, TypeOK
  \* The handlers that have a token.
  <1>8. ASSUME NEW r \in Requests, request[r].at \in (Asking \ {"answer"}) \cup {"rotate"}
        PROVE  /\ request[r].device \in Devices /\ request[r].token \in Real /\ request[r].token \in Token
               /\ request[r].token.id \in Ids /\ session[request[r].token.id] \in SessionDoc
    <2>1. request[r] \in Asks \/ request[r] \in Rotates
      BY <1>8, Forms
    <2>2. request[r].device \in Devices /\ request[r].token \in Token
      BY <2>1 DEF Asks, Rotates
    <2>3. request[r].token # NoToken
      BY <1>8, Forms DEF Owned, Asking
    <2> QED
      BY <2>2, <2>3, RealToken DEF TypeOK
  <1>9. ASSUME NEW r \in Requests, Read(r) PROVE TypeOK'
    <2>1. /\ request[r] \in Asks /\ request[r].device \in Devices /\ request[r].token \in Token
          /\ session[request[r].token.id].secret \in Nat
      BY <1>8, <1>9, Forms DEF Read, Asking, SessionDoc
    <2>2. [at |-> "rotate", device |-> request[r].device, token |-> request[r].token, time |-> now,
           secret |-> session[request[r].token.id].secret] \in RequestState
      BY <2>1 DEF RequestState, TypeOK
    <2>3. [request[r] EXCEPT !.at = "reuse"] \in RequestState
      BY <2>1, AskMoves DEF Asking
    <2>4. request' \in [Requests -> RequestState]
      BY <1>1, <1>6, <1>9, <2>1, <2>2, <2>3, NoTokenTyped DEF Read
    <2> QED
      BY <1>9, <2>4 DEF Read, TypeOK
  <1>10. ASSUME NEW r \in Requests, NEW why \in {"logout", "reuse_detected"}, request[r].token.id \in Ids,
                session' = [session EXCEPT ![request[r].token.id].revoked = why] \/ session' = session
         PROVE  session' \in [Ids -> SessionDoc]
    <2>1. [session[request[r].token.id] EXCEPT !.revoked = why] \in SessionDoc
      BY <1>10, RevokedTyped DEF TypeOK
    <2> QED
      BY <1>10, <2>1 DEF TypeOK
  <1>11. ASSUME NEW r \in Requests, RevokeReused(r) PROVE TypeOK'
    <2>1. request[r].device \in Devices /\ request[r].token.id \in Ids
      BY <1>8, <1>11 DEF RevokeReused, Asking
    <2>2. session' \in [Ids -> SessionDoc]
      BY <1>10, <1>11, <2>1 DEF RevokeReused
    <2> QED
      BY <1>6, <1>11, <2>1, <2>2, NoTokenTyped DEF RevokeReused, TypeOK
  <1>12. ASSUME NEW r \in Requests, Rotate(r) PROVE TypeOK'
    <2>1. /\ request[r] \in Rotates /\ request[r].device \in Devices /\ request[r].token.id \in Ids
          /\ session[request[r].token.id] \in SessionDoc
      BY <1>8, <1>12, Forms DEF Rotate
    <2>2. CASE ~Exists(request[r].token.id)
      BY <1>6, <1>12, <2>1, <2>2, NoTokenTyped DEF Rotate, TypeOK
    <2>3. CASE Exists(request[r].token.id)
      <3>1. PICK s \in Ids : s = request[r].token.id
        BY <2>1
      <3>2. PICK fresh \in Nat \ {0} : fresh = minted[s] + 1
        BY DEF TypeOK
      <3>3. /\ minted' = [minted EXCEPT ![s] = fresh]
            /\ session' = [session EXCEPT ![s] = Rotated(@, request[r], fresh)]
            /\ Go(r, [at |-> "check", device |-> request[r].device, token |-> [id |-> s, secret |-> fresh]])
        BY <1>12, <2>3, <3>1, <3>2 DEF Rotate
      <3>4. [at |-> "check", device |-> request[r].device, token |-> [id |-> s, secret |-> fresh]] \in RequestState
        BY <2>1, AskTyped DEF Asking, Token
      <3>5. session' \in [Ids -> SessionDoc] /\ minted' \in [Ids -> Nat]
        BY <2>1, <3>1, <3>3, RotatedTyped DEF TypeOK
      <3> QED
        BY <1>1, <1>12, <3>3, <3>4, <3>5 DEF Rotate, TypeOK
    <2> QED
      BY <2>2, <2>3
  <1>13. ASSUME NEW r \in Requests, CheckUser(r) PROVE TypeOK'
    <2>1. request[r] \in Asks
      BY <1>13, Forms DEF CheckUser, Asking
    <2>2. [request[r] EXCEPT !.at = "undo"] \in RequestState /\ [request[r] EXCEPT !.at = "answer"] \in RequestState
      BY <2>1, AskMoves DEF Asking
    <2>3. request' \in [Requests -> RequestState]
      BY <1>13, <2>2 DEF CheckUser, TypeOK
    <2> QED
      BY <1>13, <2>3 DEF CheckUser, TypeOK
  <1>14. ASSUME NEW r \in Requests, Revoke(r) PROVE TypeOK'
    <2>1. request[r].device \in Devices /\ request[r].token.id \in Ids
      BY <1>8, <1>14 DEF Revoke, Asking
    <2>2. session' \in [Ids -> SessionDoc]
      BY <1>10, <1>14, <2>1 DEF Revoke
    <2> QED
      BY <1>6, <1>14, <2>1, <2>2, NoTokenTyped DEF Revoke, TypeOK
  <1>15. Idle \in RequestState
    BY DEF RequestState
  <1>16. ASSUME NEW r \in Requests, Deliver(r) PROVE TypeOK'
    <2>1. request[r].device \in Devices /\ request[r].token \in Token
      BY <1>16, Forms DEF Deliver, Asking, Asks
    <2>2. cookie' \in [Devices -> Token]
      BY <1>16, <2>1 DEF Deliver, TypeOK
    <2> QED
      BY <1>1, <1>15, <1>16, <2>2 DEF Deliver, TypeOK
  <1>17. ASSUME NEW r \in Requests, Lose(r) PROVE TypeOK'
    <2>1. request[r].device \in Devices
      BY <1>17, Forms DEF Lose, Asking, Asks
    <2> QED
      BY <1>1, <1>15, <1>17, <2>1 DEF Lose, TypeOK
  <1>18. ASSUME NEW r \in Requests, Fail(r) PROVE TypeOK'
    <2>1. request[r].device \in Devices
      BY <1>8, <1>18 DEF Fail, Asking
    <2> QED
      BY <1>6, <1>18, <2>1, NoTokenTyped DEF Fail, TypeOK
  <1>19. ASSUME NEW d \in Devices, Disable(d) PROVE TypeOK'
    BY <1>19 DEF Disable, TypeOK
  <1>20. CASE Tick
    BY <1>20 DEF Tick, TypeOK
  <1>21. ASSUME NEW s \in Ids, Expire(s) PROVE TypeOK'
    BY <1>21, AbsentTyped DEF Expire, TypeOK
  <1>22. CASE UNCHANGED vars
    BY <1>22 DEF vars, TypeOK
  <1> QED
    BY <1>3, <1>4, <1>5, <1>7, <1>9, <1>11, <1>12, <1>13, <1>14, <1>16, <1>17, <1>18, <1>19, <1>20, <1>21, <1>22
       DEF Next, Handle
-----------------------------------------------------------------------------
(* What a step does to the documents. *)
\* No session gets another browser, and none that was there becomes unknown.
Kept ==
    \A s \in Ids : minted[s] # 0 =>
        minted'[s] # 0 /\ (Exists(s)' => Exists(s) /\ session'[s].device = session[s].device)
\* For the browser d nothing becomes active and no secret changes.
CalmFor(d) ==
    \A s \in Ids : Active(s)' /\ session'[s].device = d =>
        Active(s) /\ session[s].device = d /\ session'[s].secret = session[s].secret
Calm ==
    \A s \in Ids : Exists(s)' =>
        /\ Exists(s) /\ session'[s].device = session[s].device /\ session'[s].secret = session[s].secret
        /\ session'[s].revoked = "no" => session[s].revoked = "no"
        /\ Active(s)' => Active(s)
\* No session is found to be used by a thief.
NotCaught ==
    \A s \in Ids : session'[s].revoked = "reuse_detected" =>
        session[s].revoked = "reuse_detected" /\ session'[s].device = session[s].device
\* No session is revoked no more.
NotRestored ==
    \A s \in Ids : Exists(s) /\ session[s].revoked # "no" => session'[s].revoked # "no" \/ session'[s] = Absent

LEMMA SameDocs ==
    ASSUME TypeOK, UNCHANGED <<session, minted>>, now' \in Nat, now <= now'
    PROVE  Calm /\ Kept /\ NotCaught /\ NotRestored /\ (Minted => Minted')
  <1>1. \A s \in Ids : session[s].expiresAt \in Nat
    BY DEF TypeOK, SessionDoc
  <1>2. \A s \in Ids : Active(s)' => Active(s)
    BY <1>1 DEF Active, Exists, TypeOK
  <1> QED
    BY <1>2 DEF Calm, Kept, NotCaught, NotRestored, Minted, Exists

LEMMA RevokedDocs ==
    ASSUME TypeOK, NEW W \in SUBSET Ids, NEW why \in {"logout", "device_limit", "reuse_detected"},
           session' = [s \in Ids |-> IF s \in W THEN [session[s] EXCEPT !.revoked = why] ELSE session[s]],
           UNCHANGED <<minted, now>>
    PROVE  /\ Calm /\ Kept /\ NotRestored /\ (Minted => Minted') /\ (why # "reuse_detected" => NotCaught)
           /\ \A s \in W : ~Active(s)' /\ session'[s].revoked = why
  <1>1. ASSUME NEW s \in Ids
        PROVE  /\ session'[s].secret = session[s].secret /\ session'[s].device = session[s].device
               /\ session'[s].revoked = IF s \in W THEN why ELSE session[s].revoked
               /\ session'[s].expiresAt = session[s].expiresAt
    BY DEF TypeOK, SessionDoc
  <1> QED
    BY <1>1 DEF Calm, Kept, NotCaught, NotRestored, Minted, Exists, Active

LEMMA ExpiredDoc ==
    ASSUME TypeOK, NEW s \in Ids, session' = [session EXCEPT ![s] = Absent], UNCHANGED <<minted, now>>
    PROVE  Calm /\ Kept /\ NotCaught /\ NotRestored /\ (Minted => Minted')
  <1>1. session'[s] = Absent /\ \A t \in Ids : t # s => session'[t] = session[t]
    BY DEF TypeOK
  <1> QED
    BY <1>1, AbsentTyped DEF Calm, Kept, NotCaught, NotRestored, Minted, Exists, Active

\* A new session under an id that nobody knows.
LEMMA SavedDoc ==
    ASSUME TypeOK, Minted, NEW s \in Ids, NEW doc \in SessionDoc, minted[s] = 0, minted' = [minted EXCEPT ![s] = 1],
           session' = [session EXCEPT ![s] = doc], doc.revoked = "no", doc.device \in Devices, UNCHANGED now
    PROVE  /\ Kept /\ NotCaught /\ NotRestored /\ Minted' /\ \A d \in Devices : d # doc.device => CalmFor(d)
           /\ session'[s] = doc /\ \A t \in Ids : t # s => session'[t] = session[t]
  <1>1. session'[s] = doc /\ \A t \in Ids : t # s => session'[t] = session[t]
    BY DEF TypeOK
  <1>2. minted'[s] = 1 /\ \A t \in Ids : t # s => minted'[t] = minted[t]
    BY DEF TypeOK
  <1>3. ~Exists(s)
    BY DEF Minted
  <1> QED
    BY <1>1, <1>2, <1>3 DEF Kept, NotCaught, NotRestored, Minted, CalmFor, Exists, Active

LEMMA RotatedDoc ==
    ASSUME TypeOK, Minted, NEW s \in Ids, NEW q \in Rotates, NEW fresh \in Nat \ {0}, Exists(s),
           minted' = [minted EXCEPT ![s] = fresh], session' = [session EXCEPT ![s] = Rotated(@, q, fresh)], UNCHANGED now
    PROVE  /\ Kept /\ NotCaught /\ NotRestored /\ Minted' /\ \A d \in Devices : d # session[s].device => CalmFor(d)
           /\ session'[s].secret = fresh /\ session'[s].device = session[s].device
           /\ session'[s].revoked = session[s].revoked
           /\ \A t \in Ids : t # s => session'[t] = session[t]
  <1>1. session'[s] = Rotated(session[s], q, fresh) /\ \A t \in Ids : t # s => session'[t] = session[t]
    BY DEF TypeOK
  <1>2. /\ session'[s].secret = fresh /\ session'[s].device = session[s].device
        /\ session'[s].revoked = session[s].revoked
    BY <1>1, RotatedTyped DEF TypeOK
  <1>3. minted'[s] = fresh /\ \A t \in Ids : t # s => minted'[t] = minted[t]
    BY DEF TypeOK
  <1> QED
    BY <1>1, <1>2, <1>3 DEF Kept, NotCaught, NotRestored, Minted, CalmFor, Exists, Active

LEMMA CalmForAll == ASSUME Calm, NEW d PROVE CalmFor(d)
  BY DEF Calm, CalmFor, Active, Exists
-----------------------------------------------------------------------------
(* Tokens. *)
LEMMA OwnsKept ==
    ASSUME Kept, NEW d, NEW token \in Token, Owns(d, token)
    PROVE  Owns(d, token)'
  BY RealToken DEF Owns, Kept

\* What the request r may hold: no token, or one of a session of its browser.
Holds(r) ==
    Open(r) /\ request[r].at # "create" =>
        /\ Owns(request[r].device, request[r].token)
        /\ request[r].at # "answer" => request[r].token # NoToken

LEMMA HoldsKept ==
    ASSUME TypeOK, Kept, NEW r \in Requests, Holds(r), request'[r] = request[r]
    PROVE  Holds(r)'
  <1>1. Open(r) /\ request[r].at # "create" => request[r].token \in Token
    BY Forms DEF Asks, Rotates
  <1> QED
    BY <1>1, OwnsKept DEF Holds, Open

LEMMA OwnedKept ==
    ASSUME TypeOK, Owned, Kept, UNCHANGED <<cookie, request>>
    PROVE  Owned'
  <1>1. \A d \in Devices : Owns(d, cookie[d])'
    BY OwnsKept DEF Owned, TypeOK
  <1>2. \A r \in Requests : Holds(r)'
    BY HoldsKept DEF Owned, Holds
  <1> QED
    BY <1>1, <1>2 DEF Owned, Holds

LEMMA OwnedMove ==
    ASSUME TypeOK, Owned, Kept, NEW r \in Requests, NEW next \in RequestState, Go(r, next), UNCHANGED cookie, Holds(r)'
    PROVE  Owned'
  <1>1. \A d \in Devices : Owns(d, cookie[d])'
    BY OwnsKept DEF Owned, TypeOK
  <1>2. \A q \in Requests : Holds(q)'
    BY HoldsKept, GoEffect DEF Owned, Holds
  <1> QED
    BY <1>1, <1>2 DEF Owned, Holds

LEMMA OwnedDelivered ==
    ASSUME TypeOK, Owned, Kept, NEW r \in Requests, Go(r, Idle), request[r].at = "answer",
           cookie' = [cookie EXCEPT ![request[r].device] = request[r].token]
    PROVE  Owned'
  <1>1. request[r].device \in Devices /\ request[r].token \in Token
    BY Forms DEF Asking, Asks
  <1>2. Owns(request[r].device, request[r].token)
    BY Forms DEF Owned, Asking
  <1>3. ASSUME NEW d \in Devices PROVE Owns(d, cookie[d])'
    <2>1. PICK token \in Token : token = cookie'[d] /\ Owns(d, token)
      BY <1>1, <1>2 DEF Owned, TypeOK
    <2> QED
      BY <2>1, OwnsKept DEF Owns
  <1>4. Idle \in RequestState
    BY DEF RequestState
  <1>5. \A q \in Requests : Holds(q)'
    BY <1>4, HoldsKept, GoEffect DEF Owned, Holds, Open
  <1> QED
    BY <1>3, <1>5 DEF Owned, Holds
-----------------------------------------------------------------------------
(* One browser's requests. *)
\* The history only grows.
Grows == raced \subseteq raced' /\ broken \subseteq broken'

LEMMA OneMove ==
    ASSUME TypeOK, OneRequest, Grows, NEW r \in Requests, NEW next \in RequestState, Go(r, next),
           next # Idle => next.device = request[r].device, Open(r)
    PROVE  OneRequest'
  <1>1. request'[r] = next /\ \A q \in Requests : q # r => request'[q] = request[q]
    BY GoEffect
  <1> QED
    BY <1>1 DEF OneRequest, Grows, Honest, Open

LEMMA OneArrival ==
    ASSUME TypeOK, OneRequest, NEW r \in Requests, NEW next \in RequestState, Go(r, next), NEW d \in Devices, next.device = d,
           raced' = (IF Busy(d) THEN raced \cup {d} ELSE raced), UNCHANGED broken
    PROVE  OneRequest'
  <1>1. request'[r] = next /\ \A q \in Requests : q # r => request'[q] = request[q]
    BY GoEffect
  <1> QED
    BY <1>1 DEF OneRequest, Honest, Open, Busy

\* The others' browsers and the server agree on what they agreed on.
LEMMA StepOthers ==
    ASSUME TypeOK, InStep, Grows, NEW r \in Requests, NEW next \in RequestState, Go(r, next), NEW d \in Devices,
           request[r] = Idle \/ request[r].device = d, next = Idle \/ next.device = d,
           \A e \in Devices : e # d => CalmFor(e) /\ cookie'[e] = cookie[e]
    PROVE  /\ \A e \in Devices : e # d /\ Honest(e)' /\ ~Busy(e)' => Agree(e, cookie[e])'
           /\ \A q \in Requests : q # r /\ Open(q)' /\ request'[q].device # d /\ Honest(request[q].device)' => Says(q)'
  <1>1. request'[r] = next /\ \A q \in Requests : q # r => request'[q] = request[q]
    BY GoEffect
  <1>2. ASSUME NEW e \in Devices, e # d, Honest(e)', ~Busy(e)' PROVE Agree(e, cookie[e])'
    <2>1. Honest(e) /\ ~Busy(e)
      BY <1>1, <1>2 DEF Grows, Honest, Busy
    <2>2. Agree(e, cookie[e]) /\ CalmFor(e) /\ cookie'[e] = cookie[e]
      BY <1>2, <2>1 DEF InStep
    <2> QED
      BY <2>2 DEF Agree, CalmFor
  <1>3. ASSUME NEW q \in Requests, q # r, Open(q)', request'[q].device # d, Honest(request[q].device)' PROVE Says(q)'
    <2>1. request'[q] = request[q] /\ Open(q) /\ Honest(request[q].device) /\ request[q].device # d
      BY <1>1, <1>3 DEF Grows, Honest, Open
    <2>2. request[q].device \in Devices
      BY <2>1, Forms DEF Asks, Rotates, Creates
    <2>3. Says(q) /\ CalmFor(request[q].device)
      BY <2>1, <2>2 DEF InStep
    <2> QED
      BY <2>1, <2>3 DEF Says, CalmFor, Agree, NoActive, Points
  <1> QED
    BY <1>2, <1>3

\* A request that arrives or goes on keeps its browser in step if it says what it has to.
LEMMA StepMove ==
    ASSUME TypeOK, InStep, Grows, NEW r \in Requests, NEW next \in RequestState, Go(r, next), NEW d \in Devices,
           request[r] = Idle \/ request[r].device = d, next # Idle, next.device = d,
           \A e \in Devices : e # d => CalmFor(e), UNCHANGED cookie, OneRequest',
           Honest(d)' => Says(r)'
    PROVE  InStep'
  <1>1. request'[r] = next /\ \A q \in Requests : q # r => request'[q] = request[q]
    BY GoEffect
  <1>2. /\ \A e \in Devices : e # d /\ Honest(e)' /\ ~Busy(e)' => Agree(e, cookie[e])'
        /\ \A q \in Requests : q # r /\ Open(q)' /\ request'[q].device # d /\ Honest(request[q].device)' => Says(q)'
    BY StepOthers
  <1>3. Busy(d)'
    BY <1>1 DEF Busy
  <1>4. \A q \in Requests : Open(q)' /\ request'[q].device = d /\ Honest(d)' => q = r
    BY <1>1 DEF OneRequest, Open
  <1>5. \A q \in Requests : Open(q)' /\ Honest(request[q].device)' => Says(q)'
    BY <1>1, <1>2, <1>4
  <1>6. \A e \in Devices : Honest(e)' /\ ~Busy(e)' => Agree(e, cookie[e])'
    BY <1>2, <1>3
  <1> QED
    BY <1>5, <1>6 DEF InStep

\* A request that ends leaves its browser in step, if it has the cookie that was agreed on.
LEMMA StepEnd ==
    ASSUME TypeOK, InStep, Grows, NEW r \in Requests, Go(r, Idle), NEW d \in Devices, request[r].device = d, Open(r),
           \A e \in Devices : e # d => CalmFor(e) /\ cookie'[e] = cookie[e], OneRequest,
           Honest(d)' => Agree(d, cookie[d])'
    PROVE  InStep'
  <1>0. Idle \in RequestState
    BY DEF RequestState
  <1>1. request'[r] = Idle /\ \A q \in Requests : q # r => request'[q] = request[q]
    BY <1>0, GoEffect
  <1>2. /\ \A e \in Devices : e # d /\ Honest(e)' /\ ~Busy(e)' => Agree(e, cookie[e])'
        /\ \A q \in Requests : q # r /\ Open(q)' /\ request'[q].device # d /\ Honest(request[q].device)' => Says(q)'
    BY <1>0, StepOthers
  <1>3. \A q \in Requests : Open(q)' /\ request'[q].device = d /\ Honest(d)' => FALSE
    BY <1>1 DEF OneRequest, Open, Honest, Grows
  <1>4. \A q \in Requests : Open(q)' /\ Honest(request[q].device)' => Says(q)'
    BY <1>1, <1>2, <1>3 DEF Open
  <1>5. \A e \in Devices : Honest(e)' /\ ~Busy(e)' => Agree(e, cookie[e])'
    BY <1>2
  <1> QED
    BY <1>4, <1>5 DEF InStep

LEMMA StepStay ==
    ASSUME TypeOK, InStep, Calm, UNCHANGED <<cookie, request, raced, broken>>
    PROVE  InStep'
  <1>1. \A d : CalmFor(d)
    BY CalmForAll
  <1>2. ASSUME NEW d \in Devices, Honest(d)', ~Busy(d)' PROVE Agree(d, cookie[d])'
    BY <1>1, <1>2 DEF InStep, Honest, Busy, Agree, CalmFor
  <1>3. ASSUME NEW r \in Requests, Open(r)', Honest(request[r].device)' PROVE Says(r)'
    BY <1>1, <1>3 DEF InStep, Honest, Open, Says, CalmFor, Agree, NoActive, Points
  <1> QED
    BY <1>2, <1>3 DEF InStep
-----------------------------------------------------------------------------
(* Honest browsers. *)
LEMMA NobodyCaught ==
    ASSUME HonestStays, NotCaught, Grows
    PROVE  HonestStays'
  BY DEF HonestStays, NotCaught, Grows

\* A step of a request in progress.
LEMMA GoesOn ==
    ASSUME TypeOK, HonestInv, Kept, Grows, NEW r \in Requests, NEW next \in RequestState, Go(r, next), UNCHANGED cookie,
           Open(r), next # Idle, next.device = request[r].device,
           \A e \in Devices : e # next.device => CalmFor(e),
           HonestStays', Holds(r)', Honest(next.device)' => Says(r)'
    PROVE  HonestInv'
  <1>1. next.device \in Devices
    BY Forms DEF Asks, Rotates, Creates
  <1>2. Owned'
    BY OwnedMove DEF HonestInv
  <1>3. OneRequest'
    BY OneMove DEF HonestInv
  <1>4. InStep'
    BY <1>1, <1>3, StepMove DEF HonestInv
  <1> QED
    BY <1>2, <1>3, <1>4 DEF HonestInv

\* The same for an answer, whose browser is honest only if it agrees.
LEMMA Answers ==
    ASSUME TypeOK, HonestInv, Kept, Grows, NEW r \in Requests, NEW d \in Devices, d = request[r].device, Open(r),
           NEW token \in Token, Answer(r, token), UNCHANGED cookie,
           \A e \in Devices : e # d => CalmFor(e), HonestStays', Owns(d, token)', Honest(d)' => Agree(d, token)'
    PROVE  HonestInv'
  <1> DEFINE next == [at |-> "answer", device |-> d, token |-> token]
  <1>1. next \in RequestState /\ Go(r, next) /\ next # Idle /\ next.device = d /\ next.token = token /\ next.at = "answer"
    BY AskTyped DEF Answer, Asking, Idle
  <1> HIDE DEF next
  <1>2. request'[r] = next
    BY <1>1, GoEffect
  <1>3. Holds(r)'
    BY <1>1, <1>2 DEF Holds
  <1>4. Honest(d)' => Says(r)'
    BY <1>1, <1>2 DEF Says
  <1> QED
    BY <1>1, <1>3, <1>4, GoesOn

LEMMA NoTokenAgrees ==
    ASSUME TypeOK, NEW d, NoActive(d)'
    PROVE  Agree(d, NoToken)' /\ Owns(d, NoToken)'
  BY DEF NoActive, Agree, Owns

LEMMA HonestStep == TypeOK /\ Minted /\ HonestInv /\ [Next]_vars => Minted' /\ HonestInv' /\ NotRestored
  <1> SUFFICES ASSUME TypeOK, Minted, HonestInv, [Next]_vars PROVE Minted' /\ HonestInv' /\ NotRestored
    OBVIOUS
  <1> USE DEF history
  <1>a. now \in Nat /\ now <= now
    BY DEF TypeOK
  <1>1. ASSUME NEW r \in Requests, NEW d \in Devices, SignIn(r, d) PROVE Minted' /\ HonestInv' /\ NotRestored
    <2>1. Calm /\ Kept /\ NotCaught /\ NotRestored /\ Minted' /\ Grows
      BY <1>a, <1>1, SameDocs DEF SignIn, Arrives, Grows
    <2>2. PICK V \in SUBSET Ids : Go(r, [at |-> "create", device |-> d, time |-> now, victims |-> V])
      BY <1>1 DEF SignIn, Evictions, Counted
    <2> DEFINE next == [at |-> "create", device |-> d, time |-> now, victims |-> V]
    <2>3. next \in RequestState /\ next # Idle /\ next.device = d /\ next.at = "create" /\ Go(r, next)
      BY <1>a, <2>2 DEF RequestState, Idle
    <2> HIDE DEF next
    <2>4. request'[r] = next
      BY <2>3, GoEffect
    <2>5. Owned'
      BY <1>1, <2>1, <2>3, <2>4, OwnedMove DEF HonestInv, Holds, SignIn
    <2>6. OneRequest'
      BY <1>1, <2>3, OneArrival DEF HonestInv, SignIn, Arrives
    <2>7. ASSUME Honest(d)' PROVE Says(r)'
      <3>1. Honest(d) /\ ~Busy(d)
        BY <1>1, <2>7 DEF Honest, SignIn, Arrives
      <3>2. Agree(d, NoToken)
        BY <1>1, <3>1 DEF HonestInv, InStep, SignIn
      <3>3. NoActive(d)
        BY <3>2 DEF Agree, NoActive, NoToken, Active, Exists
      <3> QED
        BY <2>1, <2>3, <2>4, <3>3 DEF Says, NoActive, Calm, Active, Exists
    <2>8. InStep'
      BY <1>1, <2>1, <2>3, <2>6, <2>7, CalmForAll, StepMove DEF HonestInv, SignIn
    <2>9. HonestStays'
      BY <2>1, NobodyCaught DEF HonestInv
    <2> QED
      BY <2>1, <2>5, <2>6, <2>8, <2>9 DEF HonestInv
  <1>2. ASSUME NEW r \in Requests, NEW d \in Devices, NEW what \in {"refresh", "logout"}, Send(r, d, what)
        PROVE  Minted' /\ HonestInv' /\ NotRestored
    <2>1. Calm /\ Kept /\ NotCaught /\ NotRestored /\ Minted' /\ Grows
      BY <1>a, <1>2, SameDocs DEF Send, Arrives, Grows
    <2> DEFINE next == [at |-> what, device |-> d, token |-> cookie[d]]
    <2>2. cookie[d] \in Token /\ cookie[d] # NoToken
      BY <1>2 DEF TypeOK, Send
    <2>3. /\ next \in RequestState /\ next # Idle /\ next.device = d /\ next.token = cookie[d] /\ Go(r, next)
          /\ next.at \in {"refresh", "logout"}
      BY <1>2, <2>2, AskTyped DEF Asking, Idle, Send
    <2> HIDE DEF next
    <2>4. request'[r] = next
      BY <2>3, GoEffect
    <2>5. Owned'
      <3>1. Owns(d, cookie[d])'
        BY <1>2, <2>1, <2>2, OwnsKept DEF HonestInv, Owned, Send
      <3> QED
        BY <1>2, <2>1, <2>2, <2>3, <2>4, <3>1, OwnedMove DEF HonestInv, Holds, Send
    <2>6. OneRequest'
      BY <1>2, <2>3, OneArrival DEF HonestInv, Send, Arrives
    <2>7. ASSUME Honest(d)' PROVE Says(r)'
      <3>1. Honest(d) /\ ~Busy(d)
        BY <1>2, <2>7 DEF Honest, Send, Arrives
      <3>2. Agree(d, cookie[d])
        BY <3>1 DEF HonestInv, InStep
      <3> QED
        BY <1>2, <2>1, <2>3, <2>4, <3>2, CalmForAll DEF Says, Agree, CalmFor, Send
    <2>8. InStep'
      BY <1>2, <2>1, <2>3, <2>6, <2>7, CalmForAll, StepMove DEF HonestInv, Send
    <2>9. HonestStays'
      BY <2>1, NobodyCaught DEF HonestInv
    <2> QED
      BY <2>1, <2>5, <2>6, <2>8, <2>9 DEF HonestInv
  <1>3. ASSUME NEW r \in Requests, Evict(r) PROVE Minted' /\ HonestInv' /\ NotRestored
    <2>1. request[r] \in Creates /\ Open(r)
      BY <1>3, Forms DEF Evict
    <2> DEFINE W == {s \in Ids : s \in request[r].victims /\ Exists(s)}
    <2>2. session' = [s \in Ids |-> IF s \in W THEN [session[s] EXCEPT !.revoked = "device_limit"] ELSE session[s]]
      BY <1>3 DEF Evict
    <2>3. Calm /\ Kept /\ NotCaught /\ NotRestored /\ Minted' /\ Grows
      BY <1>3, <2>2, RevokedDocs DEF Evict, Grows
    <2>4. PICK next \in RequestState : next # Idle /\ next.device = request[r].device /\ next.at = "create" /\ Go(r, next)
      BY <1>3, <2>1 DEF Creates, RequestState, Idle, Evict, Go
    <2> HIDE DEF W
    <2>5. request'[r] = next
      BY <2>4, GoEffect
    <2>6. Holds(r)'
      BY <2>4, <2>5 DEF Holds
    <2>7. Honest(next.device)' => Says(r)'
      <3>1. ASSUME Honest(request[r].device) PROVE NoActive(request[r].device)
        BY <1>3, <2>1, <3>1 DEF HonestInv, InStep, Says, Evict
      <3>2. PICK d \in Devices : d = request[r].device
        BY <2>1 DEF Creates
      <3>3. Honest(d)' => NoActive(d)'
        BY <2>3, <3>1, <3>2, CalmForAll DEF Honest, Grows, NoActive, CalmFor
      <3> QED
        BY <2>4, <2>5, <3>2, <3>3 DEF Says
    <2> QED
      BY <1>3, <2>1, <2>3, <2>4, <2>6, <2>7, CalmForAll, GoesOn, NobodyCaught DEF HonestInv, Evict
  <1>4. ASSUME NEW r \in Requests, Save(r) PROVE Minted' /\ HonestInv' /\ NotRestored
    <2>1. request[r] \in Creates /\ Open(r) /\ request[r].time \in Nat
      BY <1>4, Forms DEF Save, Creates
    <2>2. PICK d \in Devices : d = request[r].device
      BY <2>1 DEF Creates
    <2>3. PICK s \in Ids :
            /\ minted[s] = 0 /\ minted' = [minted EXCEPT ![s] = 1]
            /\ session' = [session EXCEPT ![s] = [Absent EXCEPT !.device = d, !.secret = 1,
                               !.lastUsedAt = request[r].time, !.expiresAt = request[r].time + Ttl]]
            /\ Answer(r, [id |-> s, secret |-> 1])
      BY <1>4, <2>2 DEF Save
    <2> DEFINE doc == [Absent EXCEPT !.device = d, !.secret = 1,
                               !.lastUsedAt = request[r].time, !.expiresAt = request[r].time + Ttl]
    <2>4. doc \in SessionDoc /\ doc.device = d /\ doc.secret = 1 /\ doc.revoked = "no"
      BY <2>1, FreshTyped
    <2>5. session' = [session EXCEPT ![s] = doc]
      BY <2>3
    <2> HIDE DEF doc
    <2>6. /\ Kept /\ NotCaught /\ NotRestored /\ Minted' /\ \A e \in Devices : e # d => CalmFor(e)
          /\ session'[s] = doc /\ \A t \in Ids : t # s => session'[t] = session[t]
      BY <1>4, <2>3, <2>4, <2>5, SavedDoc DEF Save
    <2>7. UNCHANGED <<cookie, raced, broken, now>> /\ Grows
      BY <1>4 DEF Save, Grows
    <2> DEFINE token == [id |-> s, secret |-> 1]
    <2>8. token \in Token /\ token.id = s /\ token.secret = 1
      BY DEF Token
    <2> HIDE DEF token
    <2>9. Owns(d, token)'
      <3>1. minted'[s] # 0
        BY <2>3 DEF TypeOK
      <3> QED
        BY <2>4, <2>6, <2>8, <3>1 DEF Owns
    <2>10. ASSUME Honest(d)' PROVE Agree(d, token)'
      <3>1. NoActive(d)
        BY <1>4, <2>1, <2>2, <2>7, <2>10 DEF HonestInv, InStep, Says, Honest, Save
      <3>2. \A t \in Ids : t # s => (Active(t)' => Active(t))
        BY <2>6, <2>7 DEF Active, Exists
      <3> QED
        BY <2>4, <2>6, <2>8, <3>1, <3>2 DEF Agree, NoActive
    <2>11. Answer(r, token)
      BY <2>3 DEF token
    <2> QED
      BY <2>1, <2>2, <2>6, <2>7, <2>8, <2>9, <2>10, <2>11, Answers, NobodyCaught DEF HonestInv
  \* The handlers that have a token, of a session that is the browser's.
  <1>5. ASSUME NEW r \in Requests, request[r].at \in (Asking \ {"answer"}) \cup {"rotate"}
        PROVE  /\ Open(r) /\ request[r].device \in Devices /\ request[r].token \in Real
               /\ request[r].token \in Token /\ request[r].token.id \in Ids
               /\ Owns(request[r].device, request[r].token) /\ request[r].token # NoToken
               /\ Exists(request[r].token.id) => session[request[r].token.id].device = request[r].device
    <2>1. (request[r] \in Asks \/ request[r] \in Rotates) /\ Open(r) /\ request[r].at # "create"
      BY <1>5, Forms DEF Asking
    <2>2. request[r].device \in Devices /\ request[r].token \in Token
      BY <2>1 DEF Asks, Rotates
    <2>3. request[r].token # NoToken /\ Owns(request[r].device, request[r].token)
      BY <1>5, <2>1 DEF HonestInv, Owned, Asking
    <2> QED
      BY <2>1, <2>2, <2>3, RealToken DEF Owns
  <1>6. ASSUME NEW r \in Requests, Read(r) PROVE Minted' /\ HonestInv' /\ NotRestored
    <2>1. PICK d \in Devices, token \in Token : d = request[r].device /\ token = request[r].token
      BY <1>5, <1>6 DEF Read, Asking
    <2>2. /\ Open(r) /\ token.id \in Ids /\ Owns(d, token) /\ token # NoToken /\ request[r] \in Asks
          /\ Exists(token.id) => session[token.id].device = d
      BY <1>5, <1>6, <2>1, Forms DEF Read, Asking
    <2>3. Calm /\ Kept /\ NotCaught /\ NotRestored /\ Minted' /\ Grows /\ HonestStays'
      BY <1>a, <1>6, SameDocs, NobodyCaught DEF Read, Grows, HonestInv
    <2>4. UNCHANGED <<session, cookie, now, raced, broken>>
      BY <1>6 DEF Read
    <2>5. Honest(d) => Agree(d, token)
      BY <1>6, <2>1, <2>2 DEF HonestInv, InStep, Says, Read
    <2>6. CASE ~Active(token.id)
      <3>1. Answer(r, NoToken)
        BY <1>6, <2>1, <2>6 DEF Read
      <3>2. Honest(d)' => NoActive(d)'
        BY <2>4, <2>5, <2>6 DEF Honest, Agree, NoActive, Active, Exists
      <3>3. Owns(d, NoToken)'
        BY DEF Owns
      <3> QED
        BY <2>1, <2>2, <2>3, <2>4, <3>1, <3>2, <3>3, NoTokenAgrees, NoTokenTyped, CalmForAll, Answers
    <2>7. CASE Go(r, [at |-> "rotate", device |-> d, token |-> token, time |-> now, secret |-> session[token.id].secret])
      <3>1. PICK next \in RequestState : Go(r, next) /\ next.at = "rotate" /\ next.device = d /\ next.token = token
        <4>1. session[token.id].secret \in Nat /\ now \in Nat
          BY <2>2 DEF TypeOK, SessionDoc
        <4>2. [at |-> "rotate", device |-> d, token |-> token, time |-> now, secret |-> session[token.id].secret] \in RequestState
          BY <4>1 DEF RequestState
        <4> QED
          BY <2>7, <4>2
      <3>2. request'[r] = next /\ next # Idle
        BY <3>1, GoEffect DEF Idle
      <3>3. Holds(r)'
        <4>1. Owns(d, token)'
          BY <2>2, <2>3, OwnsKept
        <4> QED
          BY <2>2, <3>1, <3>2, <4>1 DEF Holds
      <3>4. Honest(d)' => Says(r)'
        BY <2>4, <2>5, <3>1, <3>2 DEF Honest, Says, Agree, Points, Active, Exists
      <3> QED
        BY <2>1, <2>2, <2>3, <2>4, <3>1, <3>2, <3>3, <3>4, CalmForAll, GoesOn
    \* An honest browser's token is the current one of its active session.
    <2>8. CASE /\ Active(token.id) /\ token.secret # session[token.id].secret
               /\ Go(r, [request[r] EXCEPT !.at = "reuse"])
      <3>1. ~Honest(d)
        BY <2>2, <2>5, <2>8 DEF Agree, Active
      <3>2. PICK next \in RequestState : Go(r, next) /\ next.at = "reuse" /\ next.device = d /\ next.token = token
        <4>1. [request[r] EXCEPT !.at = "reuse"] \in RequestState /\ [request[r] EXCEPT !.at = "reuse"].at = "reuse"
              /\ [request[r] EXCEPT !.at = "reuse"].device = d /\ [request[r] EXCEPT !.at = "reuse"].token = token
          BY <2>1, <2>2, AskMoves DEF Asking
        <4> QED
          BY <2>8, <4>1
      <3>3. request'[r] = next /\ next # Idle
        BY <3>2, GoEffect DEF Idle
      <3>4. Holds(r)'
        <4>1. Owns(d, token)'
          BY <2>2, <2>3, OwnsKept
        <4> QED
          BY <2>2, <3>2, <3>3, <4>1 DEF Holds
      <3>5. ~Honest(d)'
        BY <2>4, <3>1 DEF Honest
      <3> QED
        BY <2>1, <2>2, <2>3, <2>4, <3>2, <3>3, <3>4, <3>5, CalmForAll, GoesOn
    <2> QED
      BY <1>6, <2>1, <2>6, <2>7, <2>8 DEF Read
  <1>7. ASSUME NEW r \in Requests, RevokeReused(r) PROVE Minted' /\ HonestInv' /\ NotRestored
    <2>1. PICK d \in Devices, token \in Token : d = request[r].device /\ token = request[r].token
      BY <1>5, <1>7 DEF RevokeReused, Asking
    <2>2. /\ Open(r) /\ token.id \in Ids
          /\ Exists(token.id) => session[token.id].device = d
      BY <1>5, <1>7, <2>1 DEF RevokeReused, Asking
    <2>3. ~Honest(d)
      BY <1>7, <2>1, <2>2 DEF HonestInv, InStep, Says, RevokeReused
    <2>4. PICK W \in SUBSET Ids : W = IF Exists(token.id) THEN {token.id} ELSE {}
      BY <2>2
    <2>5. session' = [s \in Ids |-> IF s \in W THEN [session[s] EXCEPT !.revoked = "reuse_detected"] ELSE session[s]]
      BY <1>7, <2>1, <2>2, <2>4 DEF RevokeReused, TypeOK
    <2>6. Calm /\ Kept /\ NotRestored /\ Minted'
      BY <1>7, <2>2, <2>5, RevokedDocs DEF RevokeReused
    <2>7. Grows /\ UNCHANGED <<cookie, raced, broken>> /\ Answer(r, NoToken)
      BY <1>7 DEF RevokeReused, Grows
    <2>8. HonestStays'
      <3> SUFFICES ASSUME NEW s \in Ids, session'[s].revoked = "reuse_detected" PROVE session'[s].device \in raced' \cup broken'
        BY DEF HonestStays
      <3>1. session'[s].device = session[s].device /\ (s \notin W => session'[s] = session[s])
        BY <2>5, RevokedTyped DEF TypeOK
      <3>2. s \in W => session[s].device = d
        BY <2>2, <2>4
      <3> QED
        BY <2>3, <2>7, <3>1, <3>2 DEF HonestInv, HonestStays, Honest
    <2>9. ~Honest(d)'
      BY <2>3, <2>7 DEF Honest
    <2>10. Owns(d, NoToken)'
      BY DEF Owns
    <2> QED
      BY <2>1, <2>2, <2>6, <2>7, <2>8, <2>9, <2>10, NoTokenTyped, CalmForAll, Answers
  <1>8. ASSUME NEW r \in Requests, Rotate(r) PROVE Minted' /\ HonestInv' /\ NotRestored
    <2>1. PICK d \in Devices, token \in Token : d = request[r].device /\ token = request[r].token
      BY <1>5, <1>8 DEF Rotate
    <2>2. /\ Open(r) /\ token.id \in Ids /\ request[r] \in Rotates
          /\ Exists(token.id) => session[token.id].device = d
      BY <1>5, <1>8, <2>1, Forms DEF Rotate
    <2>3. UNCHANGED <<cookie, now, raced, broken>> /\ Grows
      BY <1>8 DEF Rotate, Grows
    <2>4. Honest(d) => Points(d, token.id)
      BY <1>8, <2>1, <2>2 DEF HonestInv, InStep, Says, Rotate
    <2>5. CASE ~Exists(token.id)
      <3>1. UNCHANGED <<minted, session>> /\ Answer(r, NoToken)
        BY <1>8, <2>1, <2>5 DEF Rotate
      <3>2. Calm /\ Kept /\ NotCaught /\ NotRestored /\ Minted' /\ HonestStays'
        BY <1>a, <2>3, <3>1, SameDocs, NobodyCaught DEF HonestInv
      <3>3. Honest(d)' => NoActive(d)'
        BY <2>3, <2>4, <2>5, <3>1 DEF Honest, Points, NoActive, Active, Exists
      <3>4. Owns(d, NoToken)'
        BY DEF Owns
      <3> QED
        BY <2>1, <2>2, <2>3, <3>1, <3>2, <3>3, <3>4, NoTokenAgrees, NoTokenTyped, CalmForAll, Answers
    <2>6. CASE Exists(token.id)
      <3>1. PICK s \in Ids : s = token.id
        BY <2>2
      <3>2. PICK fresh \in Nat \ {0} : fresh = minted[s] + 1
        BY DEF TypeOK
      <3>3. /\ minted' = [minted EXCEPT ![s] = fresh]
            /\ session' = [session EXCEPT ![s] = Rotated(@, request[r], fresh)]
            /\ Go(r, [at |-> "check", device |-> d, token |-> [id |-> s, secret |-> fresh]])
        BY <1>8, <2>1, <2>6, <3>1, <3>2 DEF Rotate
      <3>4. /\ Kept /\ NotCaught /\ NotRestored /\ Minted' /\ \A e \in Devices : e # d => CalmFor(e)
            /\ session'[s].secret = fresh /\ session'[s].device = d
            /\ \A t \in Ids : t # s => session'[t] = session[t]
        BY <2>2, <2>3, <2>6, <3>1, <3>3, RotatedDoc
      <3>5. HonestStays'
        BY <2>3, <3>4, NobodyCaught DEF HonestInv
      <3>6. PICK next \in RequestState : /\ Go(r, next) /\ next.at = "check" /\ next.device = d
                                         /\ next.token.id = s /\ next.token.secret = fresh
        <4>1. [id |-> s, secret |-> fresh] \in Token
          BY DEF Token
        <4>2. [at |-> "check", device |-> d, token |-> [id |-> s, secret |-> fresh]] \in RequestState
          BY <4>1, AskTyped DEF Asking
        <4> QED
          BY <3>3, <4>2
      <3>7. request'[r] = next /\ next # Idle
        BY <3>6, GoEffect DEF Idle
      <3>8. Holds(r)'
        <4>1. minted'[s] # 0 /\ next.token # NoToken
          BY <3>3, <3>6 DEF TypeOK, NoToken
        <4> QED
          BY <3>4, <3>6, <3>7, <4>1 DEF Holds, Owns
      <3>9. ASSUME Honest(d)' PROVE Says(r)'
        <4>1. Points(d, s)
          BY <2>3, <2>4, <3>1, <3>9 DEF Honest
        <4>2. \A t \in Ids : t # s => (Active(t)' => Active(t))
          BY <2>3, <3>4 DEF Active, Exists
        <4> QED
          BY <3>4, <3>6, <3>7, <4>1, <4>2 DEF Says, Agree, Points
      <3> QED
        BY <2>1, <2>2, <2>3, <3>4, <3>5, <3>6, <3>7, <3>8, <3>9, GoesOn
    <2> QED
      BY <2>5, <2>6
  <1>9. ASSUME NEW r \in Requests, CheckUser(r) PROVE Minted' /\ HonestInv' /\ NotRestored
    <2>1. PICK d \in Devices, token \in Token : d = request[r].device /\ token = request[r].token
      BY <1>5, <1>9 DEF CheckUser, Asking
    <2>2. /\ Open(r) /\ Owns(d, token) /\ token # NoToken /\ request[r] \in Asks
      BY <1>5, <1>9, <2>1, Forms DEF CheckUser, Asking
    <2>3. Calm /\ Kept /\ NotCaught /\ NotRestored /\ Minted' /\ Grows /\ HonestStays'
      BY <1>a, <1>9, SameDocs, NobodyCaught DEF CheckUser, Grows, HonestInv
    <2>4. Honest(d) => Agree(d, token)
      BY <1>9, <2>1, <2>2 DEF HonestInv, InStep, Says, CheckUser
    <2>5. PICK next \in RequestState : Go(r, next) /\ next.at \in {"undo", "answer"} /\ next.device = d /\ next.token = token
      <3>1. PICK at \in Asking : at \in {"undo", "answer"} /\ Go(r, [request[r] EXCEPT !.at = at])
        BY <1>9 DEF CheckUser, Go, Asking
      <3>2. /\ [request[r] EXCEPT !.at = at] \in RequestState /\ [request[r] EXCEPT !.at = at].at = at
            /\ [request[r] EXCEPT !.at = at].device = d /\ [request[r] EXCEPT !.at = at].token = token
        BY <2>1, <2>2, AskMoves
      <3> QED
        BY <3>1, <3>2
    <2>6. request'[r] = next /\ next # Idle
      BY <2>5, GoEffect DEF Idle
    <2>7. Owns(d, token)'
      BY <2>2, <2>3, OwnsKept
    <2>8. Holds(r)'
      BY <2>2, <2>5, <2>6, <2>7 DEF Holds
    <2>9. Honest(d)' => Says(r)'
      BY <2>3, <2>4, <2>5, <2>6, CalmForAll DEF Honest, Grows, Says, Agree, CalmFor
    <2> QED
      BY <1>9, <2>1, <2>2, <2>3, <2>5, <2>6, <2>8, <2>9, CalmForAll, GoesOn DEF CheckUser
  <1>10. ASSUME NEW r \in Requests, Revoke(r) PROVE Minted' /\ HonestInv' /\ NotRestored
    <2>1. PICK d \in Devices, token \in Token : d = request[r].device /\ token = request[r].token
      BY <1>5, <1>10 DEF Revoke, Asking
    <2>2. Open(r) /\ token.id \in Ids
      BY <1>5, <1>10, <2>1 DEF Revoke, Asking
    <2>3. PICK W \in SUBSET {token.id} :
            W = IF Matches(token) /\ session[token.id].revoked = "no" THEN {token.id} ELSE {}
      OBVIOUS
    <2>4. session' = [s \in Ids |-> IF s \in W THEN [session[s] EXCEPT !.revoked = "logout"] ELSE session[s]]
      BY <1>10, <2>1, <2>2, <2>3 DEF Revoke, TypeOK
    <2>5. Calm /\ Kept /\ NotCaught /\ NotRestored /\ Minted' /\ \A s \in W : ~Active(s)'
      BY <1>10, <2>2, <2>4, RevokedDocs, ZenonT(60) DEF Revoke
    <2>6. Grows /\ UNCHANGED <<cookie, raced, broken>> /\ Answer(r, NoToken) /\ HonestStays'
      BY <1>10, <2>5, NobodyCaught DEF Revoke, Grows, HonestInv
    <2>7. ASSUME Honest(d)' PROVE NoActive(d)'
      <3>1. Agree(d, token)
        BY <1>10, <2>1, <2>2, <2>6, <2>7 DEF HonestInv, InStep, Says, Revoke, Honest
      <3> SUFFICES ASSUME NEW s \in Ids, Active(s)', session'[s].device = d PROVE FALSE
        BY DEF NoActive
      <3>2. Active(s) /\ session[s].device = d
        BY <2>5 DEF Calm, Active, Exists
      <3>3. s = token.id /\ session[s].secret = token.secret
        BY <3>1, <3>2 DEF Agree
      <3>4. s \in W
        BY <2>3, <3>2, <3>3 DEF Matches, Active
      <3> QED
        BY <2>5, <3>4
    <2>8. Owns(d, NoToken)'
      BY DEF Owns
    <2> QED
      BY <2>1, <2>2, <2>5, <2>6, <2>7, <2>8, NoTokenAgrees, NoTokenTyped, CalmForAll, Answers
  <1>11. ASSUME NEW r \in Requests, Deliver(r) \/ Lose(r) PROVE Minted' /\ HonestInv' /\ NotRestored
    <2>1. request[r] \in Asks /\ Open(r) /\ request[r].at = "answer"
      BY <1>11, Forms DEF Deliver, Lose, Asking
    <2>2. PICK d \in Devices, token \in Token : d = request[r].device /\ token = request[r].token
      BY <2>1 DEF Asks
    <2>3. Calm /\ Kept /\ NotCaught /\ NotRestored /\ Minted' /\ Grows /\ HonestStays' /\ Go(r, Idle)
      BY <1>a, <1>11, SameDocs, NobodyCaught DEF Deliver, Lose, Grows, HonestInv
    <2>4. Honest(d) => Agree(d, token)
      BY <2>1, <2>2 DEF HonestInv, InStep, Says
    <2>5. Idle \in RequestState
      BY DEF RequestState
    <2>6. OneRequest'
      BY <2>1, <2>3, <2>5, OneMove DEF HonestInv
    <2>7. CASE Deliver(r)
      <3>1. cookie' = [cookie EXCEPT ![d] = token]
        BY <2>2, <2>7 DEF Deliver
      <3>2. Owned'
        BY <2>1, <2>2, <2>3, <3>1, OwnedDelivered DEF HonestInv
      <3>3. cookie'[d] = token /\ \A e \in Devices : e # d => cookie'[e] = cookie[e]
        BY <3>1 DEF TypeOK
      <3>4. Honest(d)' => Agree(d, cookie[d])'
        BY <2>3, <2>4, <3>3, CalmForAll DEF Honest, Grows, Agree, CalmFor
      <3>5. InStep'
        BY <2>1, <2>2, <2>3, <3>3, <3>4, CalmForAll, StepEnd DEF HonestInv
      <3> QED
        BY <2>3, <2>6, <3>2, <3>5 DEF HonestInv
    <2>8. CASE Lose(r)
      <3>1. UNCHANGED cookie /\ ~Honest(d)'
        BY <2>2, <2>8 DEF Lose, Honest
      <3>2. Holds(r)'
        BY <2>3, <2>5, GoEffect DEF Holds, Open
      <3>3. Owned'
        BY <2>3, <2>5, <3>1, <3>2, OwnedMove DEF HonestInv
      <3>4. InStep'
        BY <2>1, <2>2, <2>3, <3>1, CalmForAll, StepEnd DEF HonestInv
      <3> QED
        BY <2>3, <2>6, <3>3, <3>4 DEF HonestInv
    <2> QED
      BY <1>11, <2>7, <2>8
  <1>12. ASSUME NEW r \in Requests, Fail(r) PROVE Minted' /\ HonestInv' /\ NotRestored
    <2>1. PICK d \in Devices : d = request[r].device /\ Open(r)
      BY <1>5, <1>12 DEF Fail, Asking
    <2>2. Calm /\ Kept /\ NotCaught /\ NotRestored /\ Minted' /\ Grows /\ HonestStays'
      BY <1>a, <1>12, SameDocs, NobodyCaught DEF Fail, Grows, HonestInv
    <2>3. ~Honest(d)' /\ UNCHANGED cookie /\ Answer(r, NoToken)
      BY <1>12, <2>1 DEF Fail, Honest
    <2>4. Owns(d, NoToken)'
      BY DEF Owns
    <2> QED
      BY <2>1, <2>2, <2>3, <2>4, NoTokenTyped, CalmForAll, Answers
  \* No request moves.
  <1>13. ASSUME Calm, Kept, NotCaught, NotRestored, Minted', UNCHANGED <<cookie, request, raced, broken>>
         PROVE  Minted' /\ HonestInv' /\ NotRestored
    <2>1. Owned' /\ InStep'
      BY <1>13, OwnedKept, StepStay DEF HonestInv
    <2>2. OneRequest' /\ HonestStays'
      BY <1>13, NobodyCaught DEF HonestInv, OneRequest, Honest, Open, Grows
    <2> QED
      BY <1>13, <2>1, <2>2 DEF HonestInv
  <1>14. ASSUME NEW d \in Devices, Disable(d) PROVE Minted' /\ HonestInv' /\ NotRestored
    BY <1>a, <1>13, <1>14, SameDocs DEF Disable
  <1>15. CASE Tick
    <2>1. now' \in Nat /\ now <= now'
      BY <1>a, <1>15 DEF Tick
    <2> QED
      BY <1>13, <1>15, <2>1, SameDocs DEF Tick
  <1>16. ASSUME NEW s \in Ids, Expire(s) PROVE Minted' /\ HonestInv' /\ NotRestored
    BY <1>13, <1>16, ExpiredDoc DEF Expire
  <1>17. CASE UNCHANGED vars
    BY <1>a, <1>13, <1>17, SameDocs DEF vars
  <1> QED
    BY <1>1, <1>2, <1>3, <1>4, <1>6, <1>7, <1>8, <1>9, <1>10, <1>11, <1>12, <1>14, <1>15, <1>16, <1>17
       DEF Next, Handle
-----------------------------------------------------------------------------
(* The number of devices. *)
LEMMA Moves ==
    ASSUME TypeOK, NEW r \in Requests, NEW next, Go(r, next)
    PROVE  request'[r] = next /\ \A q \in Requests : q # r => request'[q] = request[q]
  BY DEF TypeOK, Go

LEMMA RoomShrinks ==
    ASSUME Room, Live' \subseteq Live,
           \A r \in Requests : request'[r].at = "create" =>
               /\ request[r].at = "create" /\ request'[r].device = request[r].device
               /\ Live' \ request'[r].victims \subseteq Live \ request[r].victims
    PROVE  Room'
  <1>1. IsFiniteSet(Live') /\ Cardinality(Live') \in Nat /\ Cardinality(Live) \in Nat /\ Cardinality(Live') <= Cardinality(Live)
    BY FS_Subset, FS_CardinalityType DEF Room
  <1>2. ASSUME NEW r \in Requests, request'[r].at = "create", request'[r].device \notin Admins
        PROVE  Cardinality(Live' \ request'[r].victims) < MaxDevices
    <2>1. Cardinality(Live \ request[r].victims) < MaxDevices /\ IsFiniteSet(Live \ request[r].victims)
      BY <1>2, FS_Subset DEF Room
    <2>2. /\ Cardinality(Live' \ request'[r].victims) <= Cardinality(Live \ request[r].victims)
          /\ Cardinality(Live' \ request'[r].victims) \in Nat /\ Cardinality(Live \ request[r].victims) \in Nat
      BY <1>2, <2>1, FS_Subset, FS_CardinalityType
    <2> QED
      BY <2>1, <2>2, NumbersAssumption
  <1>3. Cardinality(Live') <= MaxDevices
    BY <1>1, NumbersAssumption DEF Room
  <1> QED
    BY <1>1, <1>2, <1>3 DEF Room

\* Nothing becomes active, nobody begins to sign in, and only what is active begins to rotate.
LEMMA LimitCalm ==
    ASSUME Alone, Room, Calm,
           \A r \in Requests :
               /\ request'[r].at \in {"create", "refresh"} => request'[r] = request[r]
               /\ request'[r].at = "rotate" =>
                      request'[r] = request[r] \/ (request[r].at = "refresh" /\ Active(request[r].token.id)')
    PROVE  Alone' /\ Room'
  <1>1. Alone'
    BY DEF Alone
  <1>2. ASSUME NEW s \in Live' PROVE s \in Live
    <2>1. CASE s \in Counted'
      BY <2>1 DEF Live, Counted, Calm, Active, Exists
    <2>2. CASE s \in Pending'
      <3>1. PICK r \in Requests : request'[r].at = "rotate" /\ request'[r].token.id = s
        BY <2>2 DEF Pending
      <3>2. /\ s \in Ids /\ Exists(s) /\ session[s].revoked = "no" /\ session[s].device \notin Admins
            /\ Active(s)' => Active(s)
        BY <2>2 DEF Pending, Calm, Exists
      <3>3. request'[r] = request[r] \/ Active(s)
        BY <3>1, <3>2
      <3> QED
        BY <3>1, <3>2, <3>3 DEF Live, Pending, Counted
    <2> QED
      BY <1>2, <2>1, <2>2 DEF Live
  <1>3. Room'
    BY <1>2, RoomShrinks
  <1> QED
    BY <1>1, <1>3

\* create leaves room for one more.
LEMMA EvictionsMakeRoom ==
    ASSUME IsFiniteSet(Counted), NEW V \in Evictions
    PROVE  Cardinality(Counted \ V) < MaxDevices
  <1>1. Cardinality(Counted) \in Nat /\ MaxDevices \in Nat \ {0}
    BY FS_CardinalityType, NumbersAssumption
  <1>2. V \subseteq Counted /\ Cardinality(V) = (IF Excess(Cardinality(Counted)) > 0 THEN Excess(Cardinality(Counted)) ELSE 0)
    BY DEF Evictions
  <1>3. IsFiniteSet(V) /\ Counted \cap V = V
    BY <1>2, FS_Subset
  <1>4. Cardinality(Counted \ V) = Cardinality(Counted) - Cardinality(V)
    BY <1>3, FS_Difference
  <1> QED
    BY <1>1, <1>2, <1>4 DEF Excess

LEMMA LimitStep == TypeOK /\ Minted /\ Owned /\ LimitInv /\ [Next]_vars => LimitInv'
  <1> SUFFICES ASSUME TypeOK, Minted, Owned, LimitInv, [Next]_vars, ~crowded' PROVE Alone' /\ Room'
    BY DEF LimitInv
  <1> USE DEF history
  <1>a. now \in Nat /\ now <= now
    BY DEF TypeOK
  <1>b. ~crowded => Alone /\ Room
    BY DEF LimitInv
  <1>1. ASSUME NEW r \in Requests, NEW d \in Devices, SignIn(r, d) PROVE Alone' /\ Room'
    <2>1. Calm /\ ~crowded /\ \A q \in Requests : request[q].at \notin {"create", "refresh", "rotate"}
      BY <1>a, <1>1, SameDocs DEF SignIn, Arrives
    <2>2. PICK V \in SUBSET Ids :
            /\ Go(r, [at |-> "create", device |-> d, time |-> now, victims |-> V])
            /\ d \notin Admins => V \in Evictions
      BY <1>1 DEF SignIn, Evictions, Counted
    <2>3. PICK next : next.at = "create" /\ next.device = d /\ next.victims = V /\ Go(r, next)
      BY <2>2
    <2>4. request'[r] = next /\ \A q \in Requests : q # r => request'[q] = request[q]
      BY <2>3, Moves
    <2>5. Alone'
      BY <2>1, <2>4 DEF Alone
    <2>6. Live = Counted
      BY <2>1 DEF Live, Pending
    <2>7. Live' = Live
      BY <1>1, <2>1, <2>3, <2>4 DEF SignIn, Live, Pending, Counted, Active, Exists
    <2>8. d \notin Admins => Cardinality(Counted \ V) < MaxDevices
      BY <1>b, <2>1, <2>2, <2>6, EvictionsMakeRoom DEF Room
    <2>9. ASSUME NEW q \in Requests, request'[q].at = "create", request'[q].device \notin Admins
          PROVE  Cardinality(Live' \ request'[q].victims) < MaxDevices
      BY <2>1, <2>3, <2>4, <2>6, <2>7, <2>8, <2>9
    <2>10. Room'
      BY <1>b, <2>1, <2>7, <2>9 DEF Room
    <2> QED
      BY <2>5, <2>10
  <1>2. ASSUME NEW r \in Requests, NEW d \in Devices, NEW what \in {"refresh", "logout"}, Send(r, d, what) PROVE Alone' /\ Room'
    <2>1. Calm /\ ~crowded /\ \A q \in Requests : request[q].at # "create"
      BY <1>a, <1>2, SameDocs DEF Send, Arrives
    <2>2. PICK next : next.at = what /\ Go(r, next)
      BY <1>2 DEF Send
    <2>3. request'[r] = next /\ \A q \in Requests : q # r => request'[q] = request[q]
      BY <2>2, Moves
    <2>4. Alone'
      BY <2>1, <2>2, <2>3 DEF Alone
    <2>5. Live' \subseteq Live
      BY <1>2, <2>2, <2>3 DEF Send, Live, Pending, Counted, Active, Exists
    <2>6. \A q \in Requests : request'[q].at # "create"
      BY <2>1, <2>2, <2>3
    <2>7. Room'
      BY <1>b, <2>1, <2>5, <2>6, RoomShrinks
    <2> QED
      BY <2>4, <2>7
  <1>3. ASSUME NEW r \in Requests, Evict(r) PROVE Alone' /\ Room'
    <2>1. request[r] \in Creates
      BY <1>3, Forms DEF Evict
    <2>2. PICK W \in SUBSET Ids : W = {s \in request[r].victims : Exists(s)}
      BY <2>1 DEF Creates
    <2>3. session' = [s \in Ids |-> IF s \in W THEN [session[s] EXCEPT !.revoked = "device_limit"] ELSE session[s]]
      BY <1>3, <2>2 DEF Evict
    <2>4. Calm /\ \A s \in W : session'[s].revoked = "device_limit"
      BY <1>3, <2>3, RevokedDocs DEF Evict
    <2>5. /\ request'[r].at = "create" /\ request'[r].device = request[r].device /\ request'[r].victims = {}
          /\ \A q \in Requests : q # r => request'[q] = request[q]
      BY <1>3, <2>1 DEF Evict, TypeOK, Creates
    <2>6. Alone' /\ ~crowded
      BY <1>3, <1>b, <2>5 DEF Alone, Evict
    <2>7. ASSUME NEW s \in Live' PROVE s \in Live \ request[r].victims
      <3>0. s \in Ids /\ Exists(s)' /\ session'[s].revoked = "no" /\ session'[s].device \notin Admins
        BY <2>7 DEF Live, Counted, Pending, Active
      <3>1. Exists(s) /\ session[s].revoked = "no" /\ session[s].device \notin Admins /\ (Active(s)' => Active(s))
        BY <2>4, <3>0 DEF Calm
      <3>2. s \notin request[r].victims
        BY <2>2, <2>4, <3>0, <3>1
      <3> QED
        BY <2>5, <2>7, <3>0, <3>1, <3>2 DEF Live, Counted, Pending
    <2>8. \A q \in Requests : request'[q].at = "create" => q = r
      BY <2>5, <2>6 DEF Alone
    <2>9. Room'
      BY <1>3, <1>b, <2>5, <2>6, <2>7, <2>8, RoomShrinks DEF Evict
    <2> QED
      BY <2>6, <2>9
  <1>4. ASSUME NEW r \in Requests, Save(r) PROVE Alone' /\ Room'
    <2>1. request[r] \in Creates /\ request[r].device \in Devices /\ request[r].time \in Nat
      BY <1>4, Forms DEF Save, Creates
    <2>2. PICK s \in Ids, doc \in SessionDoc :
            /\ minted[s] = 0 /\ minted' = [minted EXCEPT ![s] = 1] /\ session' = [session EXCEPT ![s] = doc]
            /\ doc.revoked = "no" /\ doc.device = request[r].device /\ Answer(r, [id |-> s, secret |-> 1])
      <3>1. PICK s \in Ids :
              /\ minted[s] = 0 /\ minted' = [minted EXCEPT ![s] = 1]
              /\ session' = [session EXCEPT ![s] = [Absent EXCEPT !.device = request[r].device, !.secret = 1,
                                 !.lastUsedAt = request[r].time, !.expiresAt = request[r].time + Ttl]]
              /\ Answer(r, [id |-> s, secret |-> 1])
        BY <1>4 DEF Save
      <3> DEFINE doc == [Absent EXCEPT !.device = request[r].device, !.secret = 1,
                                 !.lastUsedAt = request[r].time, !.expiresAt = request[r].time + Ttl]
      <3>2. doc \in SessionDoc /\ doc.revoked = "no" /\ doc.device = request[r].device
        BY <2>1, FreshTyped
      <3>3. session' = [session EXCEPT ![s] = doc]
        BY <3>1
      <3> HIDE DEF doc
      <3> QED
        BY <3>1, <3>2, <3>3
    <2>3. session'[s] = doc /\ \A t \in Ids : t # s => session'[t] = session[t]
      BY <2>2 DEF TypeOK
    <2>4. PICK next : next.at = "answer" /\ Go(r, next)
      BY <2>2 DEF Answer
    <2>5. request'[r] = next /\ \A q \in Requests : q # r => request'[q] = request[q]
      BY <2>4, Moves
    <2>6. ~crowded /\ \A q \in Requests : request'[q].at \notin {"create", "refresh", "rotate"}
      BY <1>4, <1>b, <2>4, <2>5 DEF Save, Alone
    <2>7. ASSUME NEW t \in Live' PROVE t \in Live \/ (t = s /\ request[r].device \notin Admins)
      <3>1. t \in Counted'
        BY <2>6, <2>7 DEF Live, Pending
      <3>2. t # s => Active(t) /\ session[t].device \notin Admins
        BY <1>4, <2>3, <3>1 DEF Save, Counted, Active, Exists
      <3>3. t = s => request[r].device \notin Admins
        BY <2>2, <2>3, <3>1 DEF Counted
      <3> QED
        BY <3>1, <3>2, <3>3 DEF Live, Counted
    <2>8. IsFiniteSet(Live) /\ Cardinality(Live) \in Nat /\ Cardinality(Live) <= MaxDevices
      BY <1>b, <2>6, FS_CardinalityType DEF Room
    <2>9. IsFiniteSet(Live') /\ Cardinality(Live') <= MaxDevices
      <3>1. CASE request[r].device \in Admins
        <4>1. Live' \subseteq Live
          BY <2>7, <3>1
        <4>2. IsFiniteSet(Live') /\ Cardinality(Live') <= Cardinality(Live) /\ Cardinality(Live') \in Nat
          BY <2>8, <4>1, FS_Subset, FS_CardinalityType
        <4> QED
          BY <2>8, <4>2, NumbersAssumption
      <3>2. CASE request[r].device \notin Admins
        <4>1. Cardinality(Live) < MaxDevices
          <5>1. Live \ request[r].victims = Live
            BY <1>4 DEF Save
          <5> QED
            BY <1>4, <1>b, <2>6, <3>2, <5>1 DEF Save, Room
        <4>2. IsFiniteSet(Live \cup {s}) /\ Cardinality(Live \cup {s}) \in Nat /\ Cardinality(Live \cup {s}) <= Cardinality(Live) + 1
          <5>1. /\ IsFiniteSet(Live \cup {s})
                /\ Cardinality(Live \cup {s}) = IF s \in Live THEN Cardinality(Live) ELSE Cardinality(Live) + 1
            BY <2>8, FS_AddElement
          <5> QED
            BY <2>8, <5>1
        <4>3. Live' \subseteq Live \cup {s}
          BY <2>7
        <4>4. IsFiniteSet(Live') /\ Cardinality(Live') <= Cardinality(Live \cup {s}) /\ Cardinality(Live') \in Nat
          BY <4>2, <4>3, FS_Subset, FS_CardinalityType
        <4> QED
          BY <2>8, <4>1, <4>2, <4>4, NumbersAssumption
      <3> QED
        BY <3>1, <3>2
    <2> QED
      BY <2>6, <2>9 DEF Alone, Room
  \* A request of another kind goes on: nobody begins to sign in, to refresh or to rotate.
  <1>5. ASSUME NEW r \in Requests, NEW next, Go(r, next), next.at \notin {"create", "refresh", "rotate"}, Calm, UNCHANGED crowded
        PROVE  Alone' /\ Room'
    <2>1. request'[r] = next /\ \A q \in Requests : q # r => request'[q] = request[q]
      BY <1>5, Moves
    <2> QED
      BY <1>5, <1>b, <2>1, LimitCalm
  <1>6. ASSUME NEW r \in Requests, NEW token, Answer(r, token), Calm, UNCHANGED crowded PROVE Alone' /\ Room'
    <2>1. PICK next : next.at = "answer" /\ Go(r, next)
      BY <1>6 DEF Answer
    <2> QED
      BY <1>5, <1>6, <2>1
  <1>7. ASSUME NEW r \in Requests, Read(r) PROVE Alone' /\ Room'
    <2>1. Calm /\ UNCHANGED <<session, now, crowded>>
      BY <1>a, <1>7, SameDocs DEF Read
    <2>2. request[r] \in Asks /\ request[r].at = "refresh"
      BY <1>7, Forms DEF Read, Asking
    <2>3. CASE Answer(r, NoToken)
      BY <1>6, <2>1, <2>3
    <2>4. CASE Go(r, [request[r] EXCEPT !.at = "reuse"])
      <3>1. [request[r] EXCEPT !.at = "reuse"].at = "reuse"
        BY <2>2, AskMoves DEF Asking
      <3> QED
        BY <1>5, <2>1, <2>4, <3>1
    <2>5. CASE /\ Active(request[r].token.id)
               /\ Go(r, [at |-> "rotate", device |-> request[r].device, token |-> request[r].token,
                         time |-> now, secret |-> session[request[r].token.id].secret])
      <3>1. PICK next : next.at = "rotate" /\ next.token = request[r].token /\ Go(r, next)
        BY <2>5
      <3>2. request'[r] = next /\ \A q \in Requests : q # r => request'[q] = request[q]
        BY <3>1, Moves
      <3>3. Active(request[r].token.id)'
        BY <2>1, <2>5, <3>1, <3>2 DEF Active, Exists
      <3>4. \A q \in Requests :
               /\ request'[q].at \in {"create", "refresh"} => request'[q] = request[q]
               /\ request'[q].at = "rotate" =>
                      request'[q] = request[q] \/ (request[q].at = "refresh" /\ Active(request[q].token.id)')
        BY <2>2, <3>1, <3>2, <3>3
      <3> QED
        BY <1>b, <2>1, <3>4, LimitCalm
    <2> QED
      BY <1>7, <2>3, <2>4, <2>5 DEF Read
  <1>8. ASSUME NEW r \in Requests, request[r].at \in {"logout", "undo", "reuse", "rotate"}
        PROVE  request[r].token.id \in Ids
    <2>1. request[r].token \in Token /\ request[r].token # NoToken
      BY <1>8, Forms DEF Owned, Asking, Asks, Rotates
    <2> QED
      BY <2>1, RealToken
  <1>9. ASSUME NEW r \in Requests, RevokeReused(r) \/ Revoke(r) PROVE Alone' /\ Room'
    <2>1. PICK s \in Ids : s = request[r].token.id
      BY <1>8, <1>9 DEF RevokeReused, Revoke
    <2>2. PICK W \in SUBSET Ids, why \in {"logout", "reuse_detected"} :
            session' = [t \in Ids |-> IF t \in W THEN [session[t] EXCEPT !.revoked = why] ELSE session[t]]
      <3>1. PICK why \in {"logout", "reuse_detected"} : session' \in {session, [session EXCEPT ![s].revoked = why]}
        BY <1>9, <2>1 DEF RevokeReused, Revoke
      <3>2. CASE session' = session
        <4>1. session' = [t \in Ids |-> IF t \in {} THEN [session[t] EXCEPT !.revoked = why] ELSE session[t]]
          BY <3>2 DEF TypeOK
        <4>2. {} \in SUBSET Ids
          OBVIOUS
        <4> QED
          BY <4>1, <4>2
      <3>3. CASE session' = [session EXCEPT ![s].revoked = why]
        <4>1. session' = [t \in Ids |-> IF t \in {s} THEN [session[t] EXCEPT !.revoked = why] ELSE session[t]]
          BY <2>1, <3>3 DEF TypeOK
        <4>2. {s} \in SUBSET Ids
          BY <2>1
        <4> QED
          BY <4>1, <4>2
      <3> QED
        BY <3>1, <3>2, <3>3
    <2>3. Calm
      BY <1>9, <2>2, RevokedDocs DEF RevokeReused, Revoke
    <2> QED
      BY <1>6, <1>9, <2>3 DEF RevokeReused, Revoke
  <1>10. ASSUME NEW r \in Requests, Rotate(r) PROVE Alone' /\ Room'
    <2>1. PICK s \in Ids : s = request[r].token.id /\ request[r].at = "rotate" /\ request[r] \in Rotates
      BY <1>8, <1>10, Forms DEF Rotate
    <2>2. CASE ~Exists(s)
      <3>1. Calm /\ Answer(r, NoToken) /\ UNCHANGED crowded
        BY <1>a, <1>10, <2>1, <2>2, SameDocs DEF Rotate
      <3> QED
        BY <1>6, <3>1
    <2>3. CASE Exists(s)
      <3>1. PICK fresh \in Nat \ {0} : fresh = minted[s] + 1
        BY DEF TypeOK
      <3>2. /\ minted' = [minted EXCEPT ![s] = fresh]
            /\ session' = [session EXCEPT ![s] = Rotated(@, request[r], fresh)]
            /\ Go(r, [at |-> "check", device |-> request[r].device, token |-> [id |-> s, secret |-> fresh]])
        BY <1>10, <2>1, <2>3, <3>1 DEF Rotate
      <3>3. /\ session'[s].device = session[s].device /\ session'[s].revoked = session[s].revoked
            /\ \A t \in Ids : t # s => session'[t] = session[t]
        BY <1>10, <2>1, <2>3, <3>2, RotatedDoc DEF Rotate
      <3>4. PICK next : next.at = "check" /\ Go(r, next)
        BY <3>2
      <3>5. request'[r] = next /\ \A q \in Requests : q # r => request'[q] = request[q]
        BY <3>4, Moves
      <3>6. ~crowded /\ \A q \in Requests : request'[q].at # "create"
        BY <1>10, <1>b, <2>1, <3>4, <3>5 DEF Rotate, Alone
      <3>7. Alone'
        BY <3>6 DEF Alone
      <3>8. ASSUME NEW t \in Live' PROVE t \in Live
        <4>1. CASE t = s
          BY <2>1, <2>3, <3>3, <3>8, <4>1 DEF Live, Counted, Pending, Active
        <4>2. CASE t # s
          BY <1>10, <3>3, <3>4, <3>5, <3>8, <4>2 DEF Rotate, Live, Counted, Pending, Active, Exists
        <4> QED
          BY <4>1, <4>2
      <3>9. Room'
        BY <1>b, <3>6, <3>8, RoomShrinks
      <3> QED
        BY <3>7, <3>9
    <2> QED
      BY <2>2, <2>3
  <1>11. ASSUME NEW r \in Requests, CheckUser(r) PROVE Alone' /\ Room'
    <2>1. Calm /\ UNCHANGED crowded
      BY <1>a, <1>11, SameDocs DEF CheckUser
    <2>2. request[r] \in Asks
      BY <1>11, Forms DEF CheckUser, Asking
    <2>3. PICK at \in Asking : at \in {"undo", "answer"} /\ Go(r, [request[r] EXCEPT !.at = at])
      BY <1>11 DEF CheckUser, Go, Asking
    <2>4. PICK next : next.at = at /\ Go(r, next)
      <3>1. [request[r] EXCEPT !.at = at].at = at
        BY <2>2, AskMoves
      <3> QED
        BY <2>3, <3>1
    <2> QED
      BY <1>5, <2>1, <2>3, <2>4
  <1>12. ASSUME NEW r \in Requests, Deliver(r) \/ Lose(r) PROVE Alone' /\ Room'
    <2>1. Calm /\ UNCHANGED crowded /\ Go(r, Idle)
      BY <1>a, <1>12, SameDocs DEF Deliver, Lose
    <2> QED
      BY <1>5, <2>1 DEF Idle
  <1>13. ASSUME NEW r \in Requests, Fail(r) PROVE Alone' /\ Room'
    BY <1>a, <1>6, <1>13, SameDocs DEF Fail
  \* No request moves.
  <1>14. ASSUME Calm, UNCHANGED <<request, crowded>> PROVE Alone' /\ Room'
    BY <1>14, <1>b, LimitCalm
  <1>15. ASSUME NEW d \in Devices, Disable(d) PROVE Alone' /\ Room'
    BY <1>a, <1>14, <1>15, SameDocs DEF Disable
  <1>16. CASE Tick
    <2>1. now' \in Nat /\ now <= now'
      BY <1>a, <1>16 DEF Tick
    <2> QED
      BY <1>14, <1>16, <2>1, SameDocs DEF Tick
  <1>17. ASSUME NEW s \in Ids, Expire(s) PROVE Alone' /\ Room'
    BY <1>14, <1>17, ExpiredDoc DEF Expire
  <1>18. CASE UNCHANGED vars
    BY <1>a, <1>14, <1>18, SameDocs DEF vars
  <1> QED
    BY <1>1, <1>2, <1>3, <1>4, <1>7, <1>9, <1>10, <1>11, <1>12, <1>13, <1>15, <1>16, <1>17, <1>18
       DEF Next, Handle
-----------------------------------------------------------------------------
(* The theorems. *)
LEMMA Initially == Init => Inv
  <1> SUFFICES ASSUME Init PROVE Inv
    OBVIOUS
  <1>1. TypeOK
    BY TypeInit
  <1>2. \A s \in Ids : ~Exists(s) /\ ~Active(s) /\ session[s].revoked = "no"
    BY AbsentTyped DEF Init, Exists, Active
  <1>3. \A r \in Requests : ~Open(r) /\ request[r].at = "idle"
    BY DEF Init, Open, Idle
  <1>4. Minted /\ HonestInv
    BY <1>2, <1>3 DEF Init, Minted, HonestInv, Owned, Owns, OneRequest, InStep, Agree, HonestStays
  <1>5. Live = {}
    BY <1>2 DEF Live, Counted, Pending
  <1>6. LimitInv
    BY <1>3, <1>5, FS_EmptySet, NumbersAssumption DEF LimitInv, Alone, Room
  <1> QED
    BY <1>1, <1>4, <1>6 DEF Inv

LEMMA Invariant == Spec => []Inv
  <1>1. Inv /\ [Next]_vars => Inv'
    BY TypeStep, HonestStep, LimitStep DEF Inv, HonestInv
  <1> QED
    BY <1>1, Initially, PTL DEF Spec

\* Every request and every document keeps the shape of the code's types.
THEOREM TypeCorrect == Spec => []TypeOK
  BY Invariant, PTL DEF Inv

\* What logout, the device limit or a reused token revoked is never active again, whatever a
\* rotation that read the session before writes: rotate's save sets its own fields only.
THEOREM RevokedStaysAlways == Spec => RevokedStays
  <1>1. Inv /\ [Next]_vars =>
          [\A s \in Ids : Exists(s) /\ session[s].revoked # "no" =>
                session'[s].revoked # "no" \/ session'[s] = Absent]_vars
    BY HonestStep DEF Inv, NotRestored
  <1> QED
    BY <1>1, Invariant, PTL DEF Spec, RevokedStays

\* rotate's reuse detection meets only browsers that raced with themselves or lost an answer.
THEOREM HonestStaysInvariant == Spec => []HonestStays
  BY Invariant, PTL DEF Inv, HonestInv

\* Between the requests of such a browser its cookie has the current token of its one active
\* session: each path of refreshSession and endSession leaves the two in step.
THEOREM CookieMatchesInvariant == Spec => []CookieMatchesSession
  <1>1. Inv => CookieMatchesSession
    <2> SUFFICES ASSUME Inv, NEW s \in Ids, NEW d, d = session[s].device, Active(s), d \notin raced \cup broken, ~Busy(d)
                 PROVE  cookie[d] = [id |-> s, secret |-> session[s].secret]
      BY DEF CookieMatchesSession
    <2>1. d \in Devices
      BY DEF Inv, Minted, Active
    <2>2. s = cookie[d].id /\ session[s].secret = cookie[d].secret
      BY <2>1 DEF Inv, HonestInv, InStep, Honest, Agree
    <2>3. cookie[d] \in Token /\ session[s].secret > 0 /\ session[s].secret \in Nat
      BY <2>1 DEF Inv, TypeOK, Active, Exists, SessionDoc
    <2>4. cookie[d] # NoToken
      <3>1. NoToken.secret = 0
        BY DEF NoToken
      <3>2. session[s].secret # 0
        BY <2>3
      <3> QED
        BY <2>2, <3>1, <3>2
    <2>5. cookie[d] \in Real
      BY <2>3, <2>4, RealToken
    <2> QED
      BY <2>2, <2>5 DEF Real
  <1> QED
    BY <1>1, Invariant, PTL

\* create's count, revoke and save leave a student no more than studentMaxDevices active
\* sessions when nothing else ran beside them, however many browsers and sessions there are.
THEOREM DeviceLimitInvariant == Spec => []DeviceLimit
  <1>1. Inv => DeviceLimit
    <2> SUFFICES ASSUME Inv, ~crowded PROVE Cardinality(Counted) <= MaxDevices
      BY DEF DeviceLimit
    <2>1. IsFiniteSet(Live) /\ Cardinality(Live) <= MaxDevices /\ Counted \subseteq Live
      BY DEF Inv, LimitInv, Room, Live
    <2>2. Cardinality(Counted) <= Cardinality(Live) /\ Cardinality(Counted) \in Nat /\ Cardinality(Live) \in Nat
      BY <2>1, FS_Subset, FS_CardinalityType
    <2> QED
      BY <2>1, <2>2, NumbersAssumption
  <1> QED
    BY <1>1, Invariant, PTL
=============================================================================
