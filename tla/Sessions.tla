----------------------------- MODULE Sessions -----------------------------
(***************************************************************************)
(* Device sessions and refresh tokens: apps/api/src/services/sessions.ts,  *)
(* the handlers that use them (routes/sessionResponse.ts), the cookie a    *)
(* browser keeps (lib/cookies.ts) and the documents (models/session.ts).   *)
(*                                                                         *)
(* Every command to MongoDB is a step of its own; a request holds what it  *)
(* read until it writes.  A refresh token is a pair: the session and the   *)
(* number of its secret; hashes are abstracted to these numbers.  All the  *)
(* devices of a kind belong to one account.  External: the browser, the    *)
(* network (an answer may be lost), the clock, MongoDB's TTL index, and    *)
(* whoever disables an account (nothing in src/ does).                     *)
(***************************************************************************)
EXTENDS Integers, FiniteSets

CONSTANTS
    Devices,      \* browsers
    Admins,       \* those that sign in to the admin panel
    Ids,          \* ids of session documents
    Requests,     \* requests in progress at once
    MaxDevices,   \* config.studentMaxDevices
    Grace,        \* ROTATION_GRACE_MS
    Ttl,          \* how long an unused session lives
    MaxSecrets,   \* bound: secrets of a session
    MaxTime,      \* bound: the clock
    MaxBroken     \* bound: answers lost and commands failed

ASSUME KindsAssumption == Admins \subseteq Devices
ASSUME NumbersAssumption ==
    /\ MaxDevices \in Nat \ {0} /\ Grace \in Nat /\ Ttl \in Nat \ {0}
    /\ MaxSecrets \in Nat /\ MaxTime \in Nat /\ MaxBroken \in Nat

VARIABLES
    session,    \* the documents of "sessions"
    cookie,     \* external: the refresh token each browser keeps
    request,    \* what each request in progress knows
    minted,     \* how many secrets were drawn for each session
    disabled,   \* external: the devices whose account is disabled
    now,        \* external: the clock
    raced,      \* history: browsers that had two requests in progress at once
    broken,     \* history: browsers that lost an answer
    crowded     \* history: did a student's sign-in overlap another request?

history == <<raced, broken, crowded>>
vars == <<session, cookie, request, minted, disabled, now, history>>

NoToken == [id |-> "none", secret |-> 0]
Token == [id: Ids, secret: Nat \ {0}] \cup {NoToken}
\* secret 0: no document; previous 0: no previousTokenHash.
Absent == [device |-> "none", secret |-> 0, previous |-> 0, rotatedAt |-> 0,
           lastUsedAt |-> 0, expiresAt |-> 0, revoked |-> "no"]
SessionDoc == [device: Devices \cup {"none"}, secret: Nat, previous: Nat, rotatedAt: Nat,
               lastUsedAt: Nat, expiresAt: Nat,
               revoked: {"no", "logout", "device_limit", "reuse_detected"}]
Idle == [at |-> "idle"]
RequestState ==
    {Idle}
    \cup [at: {"create"}, device: Devices, time: Nat, victims: SUBSET Ids]
    \cup [at: {"refresh", "logout", "reuse", "check", "undo", "answer"}, device: Devices, token: Token]
    \cup [at: {"rotate"}, device: Devices, token: Token, time: Nat, secret: Nat]

Exists(s) == session[s].secret > 0
Active(s) == Exists(s) /\ session[s].revoked = "no" /\ session[s].expiresAt > now
\* What create finds for a student: the active sessions of the account.
Counted == {s \in Ids : Active(s) /\ session[s].device \notin Admins}
\* Mutant: no room for the new one.
ExcessNow(active) == active - MaxDevices
Excess(active) == active - MaxDevices + 1
\* The least recently used of them, so many that one more keeps the limit.
Evictions ==
    LET excess == Excess(Cardinality(Counted))
    IN  {V \in SUBSET Counted :
            /\ Cardinality(V) = (IF excess > 0 THEN excess ELSE 0)
            /\ \A v \in V, w \in Counted \ V : session[v].lastUsedAt <= session[w].lastUsedAt}

\* Mutants: rotate saves the document as it was read; it forgets the new hash.
RotatedWhole(doc, q, fresh) ==
    [doc EXCEPT !.previous = q.secret, !.secret = fresh, !.rotatedAt = q.time,
                !.expiresAt = q.time + Ttl, !.revoked = "no"]
RotatedNoHash(doc, q, fresh) == [doc EXCEPT !.previous = q.secret, !.rotatedAt = q.time]
\* What rotate saves: the fields it set, over the document as it is by then.
Rotated(doc, q, fresh) ==
    [doc EXCEPT !.previous = q.secret, !.secret = fresh, !.rotatedAt = q.time,
                !.lastUsedAt = q.time, !.expiresAt = q.time + Ttl]

\* Mutant: only a rotated-out token matches.
MatchesPrevious(token) == Exists(token.id) /\ token.secret = session[token.id].previous
\* The filter of revoke.
Matches(token) ==
    LET doc == session[token.id] IN Exists(token.id) /\ token.secret \in {doc.secret, doc.previous}
Busy(d) == \E r \in Requests : request[r] # Idle /\ request[r].device = d
Go(r, next) == request' = [request EXCEPT ![r] = next]
\* What the browser will get: a cookie, or NoToken for one that is cleared.
Answer(r, token) == Go(r, [at |-> "answer", device |-> request[r].device, token |-> token])
Arrives(d, signsIn) ==
    /\ raced' = IF Busy(d) THEN raced \cup {d} ELSE raced
    /\ crowded' = \/ crowded
                  \/ \E q \in Requests : request[q].at \in (IF signsIn THEN {"create", "refresh", "rotate"}
                                                          ELSE {"create"})

Init ==
    /\ session = [s \in Ids |-> Absent]
    /\ cookie = [d \in Devices |-> NoToken]
    /\ request = [r \in Requests |-> Idle]
    /\ minted = [s \in Ids |-> 0]
    /\ disabled = {} /\ now = 0 /\ raced = {} /\ broken = {} /\ crowded = FALSE

-----------------------------------------------------------------------------
\* startSession, for an enabled account, and create: a student's devices are counted.
SignIn(r, d) ==
    /\ request[r] = Idle /\ cookie[d] = NoToken
    /\ d \notin disabled
    /\ \E V \in IF d \in Admins THEN {{}} ELSE Evictions :
          Go(r, [at |-> "create", device |-> d, time |-> now, victims |-> V])
    /\ Arrives(d, TRUE)
    /\ UNCHANGED <<session, cookie, minted, disabled, now, broken>>

\* create: updateMany over the ids that were found, whatever became of them.
Evict(r) ==
    /\ request[r].at = "create" /\ request[r].victims # {}
    /\ session' = [s \in Ids |->
          IF s \in request[r].victims /\ Exists(s)
          THEN [session[s] EXCEPT !.revoked = "device_limit"] ELSE session[s]]
    /\ request' = [request EXCEPT ![r].victims = {}]
    /\ UNCHANGED <<cookie, minted, disabled, now, history>>

\* create: the new session is saved under a new id.
Save(r) ==
    /\ request[r].at = "create" /\ request[r].victims = {}
    /\ \E s \in Ids :
          /\ minted[s] = 0
          /\ minted' = [minted EXCEPT ![s] = 1]
          /\ session' = [session EXCEPT ![s] =
                [Absent EXCEPT !.device = request[r].device, !.secret = 1,
                               !.lastUsedAt = request[r].time,
                               !.expiresAt = request[r].time + Ttl]]
          /\ Answer(r, [id |-> s, secret |-> 1])
    /\ UNCHANGED <<cookie, disabled, now, history>>

\* A browser asks for a refresh or a logout with the cookie it has now.
Send(r, d, what) ==
    /\ request[r] = Idle /\ cookie[d] # NoToken
    /\ Go(r, [at |-> what, device |-> d, token |-> cookie[d]])
    /\ Arrives(d, FALSE)
    /\ UNCHANGED <<session, cookie, minted, disabled, now, broken>>

\* rotate: the document is read and the token compared.
Read(r) ==
    /\ request[r].at = "refresh"
    /\ LET q == request[r]
           doc == session[q.token.id]
           isCurrent == q.token.secret = doc.secret
           inGrace == q.token.secret = doc.previous /\ now - doc.rotatedAt <= Grace
       IN  IF ~Active(q.token.id) THEN Answer(r, NoToken)
           ELSE IF isCurrent \/ inGrace
           THEN Go(r, [at |-> "rotate", device |-> q.device, token |-> q.token,
                       time |-> now, secret |-> doc.secret])
           ELSE Go(r, [q EXCEPT !.at = "reuse"])
    /\ UNCHANGED <<session, cookie, minted, disabled, now, history>>

\* rotate: a token rotated out long ago revokes its session; save writes only what was changed.
RevokeReused(r) ==
    /\ request[r].at = "reuse"
    /\ LET s == request[r].token.id
       IN  session' = IF Exists(s) THEN [session EXCEPT ![s].revoked = "reuse_detected"]
                      ELSE session
    /\ Answer(r, NoToken)
    /\ UNCHANGED <<cookie, minted, disabled, now, history>>

\* rotate: a new secret, the one that was read becomes the previous one, the expiry slides.
\* The save of a document deleted meanwhile throws.
Rotate(r) ==
    /\ request[r].at = "rotate"
    /\ LET q == request[r]
           s == q.token.id
           fresh == minted[s] + 1
       IN  IF Exists(s)
           THEN /\ fresh <= MaxSecrets
                /\ minted' = [minted EXCEPT ![s] = fresh]
                /\ session' = [session EXCEPT ![s] = Rotated(@, q, fresh)]
                /\ Go(r, [at |-> "check", device |-> q.device,
                          token |-> [id |-> s, secret |-> fresh]])
           ELSE Answer(r, NoToken) /\ UNCHANGED <<minted, session>>
    /\ UNCHANGED <<cookie, disabled, now, history>>

\* refreshSession: a session of a disabled account is revoked again, by its new token.
CheckUser(r) ==
    /\ request[r].at = "check"
    /\ IF request[r].device \in disabled
       THEN request' = [request EXCEPT ![r].at = "undo"]
       ELSE request' = [request EXCEPT ![r].at = "answer"]
    /\ UNCHANGED <<session, cookie, minted, disabled, now, history>>

\* revoke, from endSession and from a refused refresh: one update of a session not yet revoked.
Revoke(r) ==
    /\ request[r].at \in {"logout", "undo"}
    /\ LET token == request[r].token
       IN  session' = IF Matches(token) /\ session[token.id].revoked = "no"
                      THEN [session EXCEPT ![token.id].revoked = "logout"] ELSE session
    /\ Answer(r, NoToken)
    /\ UNCHANGED <<cookie, minted, disabled, now, history>>

\* respond, or an error: the browser stores the new cookie, or clears it.
Deliver(r) ==
    /\ request[r].at = "answer"
    /\ cookie' = [cookie EXCEPT ![request[r].device] = request[r].token]
    /\ Go(r, Idle)
    /\ UNCHANGED <<session, minted, disabled, now, history>>

\* External: an answer is lost, and the browser keeps the cookie it had.
Lose(r) ==
    /\ request[r].at = "answer" /\ Cardinality(broken) < MaxBroken
    /\ broken' = broken \cup {request[r].device}
    /\ Go(r, Idle)
    /\ UNCHANGED <<session, cookie, minted, disabled, now, raced, crowded>>

\* refreshSession: a command to MongoDB failed; whatever the error, the cookie is cleared.
Fail(r) ==
    /\ request[r].at \in {"refresh", "reuse", "rotate", "check", "undo"}
    /\ Cardinality(broken) < MaxBroken
    /\ broken' = broken \cup {request[r].device}
    /\ Answer(r, NoToken)
    /\ UNCHANGED <<session, cookie, minted, disabled, now, raced, crowded>>

\* External: an account is disabled.
Disable(d) ==
    /\ disabled' = {e \in Devices : (e \in Admins) = (d \in Admins)}
    /\ UNCHANGED <<session, cookie, request, minted, now, history>>

Tick ==
    /\ now < MaxTime /\ now' = now + 1
    /\ UNCHANGED <<session, cookie, request, minted, disabled, history>>

\* External: MongoDB deletes a session some time after it expired.
Expire(s) ==
    /\ Exists(s) /\ session[s].expiresAt <= now
    /\ session' = [session EXCEPT ![s] = Absent]
    /\ UNCHANGED <<cookie, request, minted, disabled, now, history>>

Handle(r) ==
    \/ Evict(r) \/ Save(r) \/ Read(r) \/ RevokeReused(r) \/ Rotate(r) \/ CheckUser(r)
    \/ Revoke(r) \/ Deliver(r) \/ Lose(r) \/ Fail(r)

Next ==
    \/ \E r \in Requests, d \in Devices : SignIn(r, d) \/ Send(r, d, "refresh") \/ Send(r, d, "logout")
    \/ \E r \in Requests : Handle(r)
    \/ \E d \in Devices : Disable(d)
    \/ Tick
    \/ \E s \in Ids : Expire(s)

Spec == Init /\ [][Next]_vars

-----------------------------------------------------------------------------
\* Types.
TypeOK ==
    /\ session \in [Ids -> SessionDoc]
    /\ cookie \in [Devices -> Token]
    /\ request \in [Requests -> RequestState]
    /\ minted \in [Ids -> Nat]
    /\ disabled \subseteq Devices /\ now \in Nat
    /\ raced \subseteq Devices /\ broken \subseteq Devices /\ crowded \in BOOLEAN

\* A student has at most config.studentMaxDevices active sessions, unless a sign-in overlapped
\* another request: create counts, revokes and saves in three commands, and a rotation that
\* read its session before it expired makes it active again.
DeviceLimit == ~crowded => Cardinality(Counted) <= MaxDevices

\* A revoked session stays revoked until it is deleted, also when a rotation that read it
\* before is saved after: save must not write back what the rotation read.
RevokedStays ==
    [][\A s \in Ids : Exists(s) /\ session[s].revoked # "no" =>
            session'[s].revoked # "no" \/ session'[s] = Absent]_vars

\* A browser that sends one request at a time and receives every answer is never taken for
\* a thief: only races and lost answers lead to "reuse_detected".
HonestStays ==
    \A s \in Ids : session[s].revoked = "reuse_detected" => session[s].device \in raced \cup broken

\* Such a browser and the server agree between requests: an active session of it has its
\* current token in the cookie, so no session counts as a device that no browser can use.
CookieMatchesSession ==
    \A s \in Ids :
        LET d == session[s].device
        IN  Active(s) /\ d \notin raced \cup broken /\ ~Busy(d) =>
                cookie[d] = [id |-> s, secret |-> session[s].secret]

\* sessions.ts:8 says that a rotated-out token works for the grace time "so a lost response or
\* a racing tab is not a logout": no session is revoked for reuse within that time.
RacingTabStays ==
    now <= Grace => \A s \in Ids : session[s].revoked # "reuse_detected"
=============================================================================
