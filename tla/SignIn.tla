------------------------------ MODULE SignIn ------------------------------
(***************************************************************************)
(* One-time codes and the sign-in they lead to: issue and check in         *)
(* apps/api/src/services/otp.ts, the counters of services/rateLimit.ts and *)
(* the send and verify handlers of routes/auth.ts, for phone numbers and   *)
(* e-mail addresses alike.                                                 *)
(*                                                                         *)
(* Every command to Redis or MongoDB is a step of its own.  A code is the  *)
(* number of the issue that drew it.  External: the carrier, which         *)
(* delivers late or fails; the people, who type the right code or another; *)
(* Redis, which lets keys expire when their time comes (so the times       *)
(* themselves are left out).                                               *)
(***************************************************************************)
EXTENDS Naturals, FiniteSets

CONSTANTS
    Dests,        \* phone numbers and e-mail addresses
    Requests,     \* requests in progress at once
    MaxAttempts,  \* OTP_MAX_ATTEMPTS
    DestLimit,    \* PER_DESTINATION_PER_HOUR
    IpLimit,      \* PER_IP_PER_HOUR; all requests come from one network
    MaxCodes      \* bound: codes drawn

ASSUME NumbersAssumption ==
    /\ MaxAttempts \in Nat \ {0} /\ DestLimit \in Nat /\ IpLimit \in Nat /\ MaxCodes \in Nat
ASSUME RequestsAssumption == IsFiniteSet(Requests)

VARIABLES
    stored,     \* otp:code:<dest>, 0 for a key without a hash
    attempts,   \* its wrong attempts
    cooldown,   \* the destinations whose otp:cooldown:<dest> is set
    hits,       \* the counters otp:dest:<dest> and otp:ip:<ip>
    account,    \* the destinations that have a user
    request,    \* what each request in progress knows
    drawn,      \* how many codes were drawn
    wrong,      \* history: wrong guesses compared with the stored code
    issued      \* history: codes stored for each destination in the present hour

codes == <<stored, attempts, cooldown, hits>>
history == <<wrong, issued>>
vars == <<codes, account, request, drawn, history>>

Ip == "ip"
\* The counters otp:dest:<dest> and otp:ip:<ip> are different keys.
ASSUME KeysAssumption == Ip \notin Dests
Idle == [at |-> "idle"]
Stages == {"destLimit", "ipLimit", "store", "deliver", "right", "wrong", "tooMany", "find", "create"}
Asked == [at: Stages, dest: Dests]
Go(r, next) == request' = [request EXCEPT ![r] = next]
Step(r, at) == Go(r, [request[r] EXCEPT !.at = at])
Done(r) == Go(r, Idle)

Init ==
    /\ stored = [d \in Dests |-> 0] /\ attempts = [d \in Dests |-> 0]
    /\ cooldown = {} /\ hits = [k \in Dests \cup {Ip} |-> 0]
    /\ account = {}
    /\ request = [r \in Requests |-> Idle]
    /\ drawn = 0
    /\ wrong = [d \in Dests |-> 0] /\ issued = [d \in Dests |-> 0]

\* Mutant: one more than the limit.
WithinPlusOne(count, limit) == count <= limit + 1
\* hitLimit: what the counter says after this hit.
Within(count, limit) == count <= limit
\* Mutant: the wrong attempt is not counted.
NotCounted(n) == n
Counted(n) == n + 1
\* DEL otp:code:<dest>.
Deleted(d) == [stored EXCEPT ![d] = 0]
-----------------------------------------------------------------------------
\* issue: the cooldown is set, or the request is refused.
Send(r, d) ==
    /\ request[r] = Idle
    /\ IF d \in cooldown THEN UNCHANGED <<cooldown, request>>
       ELSE cooldown' = cooldown \cup {d} /\ Go(r, [at |-> "destLimit", dest |-> d])
    /\ UNCHANGED <<stored, attempts, hits, account, drawn, history>>

\* enforceLimit, first for the destination, then for the network; a refusal leaves the cooldown.
Limit(r) ==
    /\ request[r].at \in {"destLimit", "ipLimit"}
    /\ LET first == request[r].at = "destLimit"
           key == IF first THEN request[r].dest ELSE Ip
           limit == IF first THEN DestLimit ELSE IpLimit
       IN  /\ hits' = [hits EXCEPT ![key] = IF @ <= limit THEN @ + 1 ELSE @]
           /\ IF Within(hits[key] + 1, limit)
              THEN Step(r, IF first THEN "ipLimit" ELSE "store")
              ELSE Done(r)
    /\ UNCHANGED <<stored, attempts, cooldown, account, drawn, history>>

\* issue: a new code replaces the old one and its attempts.
Store(r) ==
    /\ request[r].at = "store" /\ drawn < MaxCodes
    /\ LET d == request[r].dest
       IN  /\ drawn' = drawn + 1
           /\ stored' = [stored EXCEPT ![d] = drawn + 1]
           /\ attempts' = [attempts EXCEPT ![d] = 0]
           /\ issued' = [issued EXCEPT ![d] = @ + 1] /\ wrong' = [wrong EXCEPT ![d] = 0]
           /\ Step(r, "deliver")
    /\ UNCHANGED <<cooldown, hits, account>>

Delivered(r) ==
    /\ request[r].at = "deliver"
    /\ Done(r)
    /\ UNCHANGED <<codes, account, drawn, history>>

\* issue: without a delivery the code and the cooldown go, whatever code is stored by then.
NotDelivered(r) ==
    /\ request[r].at = "deliver"
    /\ LET d == request[r].dest
       IN  /\ stored' = Deleted(d) /\ attempts' = [attempts EXCEPT ![d] = 0]
           /\ cooldown' = cooldown \ {d}
    /\ Done(r)
    /\ UNCHANGED <<hits, account, drawn, history>>

\* check: the stored code is read.  A key that has only attempts left says "expired".
Check(r, d, isRight) ==
    /\ request[r] = Idle /\ stored[d] # 0
    /\ LET next == IF attempts[d] >= MaxAttempts THEN "tooMany"
                   ELSE IF isRight THEN "right" ELSE "wrong"
       IN  /\ Go(r, [at |-> next, dest |-> d])
           /\ wrong' = IF next = "wrong" THEN [wrong EXCEPT ![d] = @ + 1] ELSE wrong
    /\ UNCHANGED <<codes, account, drawn, issued>>

\* check: hincrby counts the wrong attempt, also on a key that was deleted or replaced meanwhile.
Count(r) ==
    /\ request[r].at = "wrong"
    /\ LET d == request[r].dest
       IN  /\ attempts' = [attempts EXCEPT ![d] = Counted(@)]
           /\ IF Counted(attempts[d]) >= MaxAttempts THEN Step(r, "tooMany") ELSE Done(r)
    /\ UNCHANGED <<stored, cooldown, hits, account, drawn, history>>

TooMany(r) ==
    /\ request[r].at = "tooMany"
    /\ stored' = Deleted(request[r].dest)
    /\ attempts' = [attempts EXCEPT ![request[r].dest] = 0]
    /\ Done(r)
    /\ UNCHANGED <<cooldown, hits, account, drawn, history>>

\* check: the right code is deleted, and its request goes on to the user.
Accept(r) ==
    /\ request[r].at = "right"
    /\ stored' = Deleted(request[r].dest)
    /\ attempts' = [attempts EXCEPT ![request[r].dest] = 0]
    /\ Step(r, "find")
    /\ UNCHANGED <<cooldown, hits, account, drawn, history>>

\* verify: findOne; somebody new is created next.  startSession goes on in module Sessions.
Find(r) ==
    /\ request[r].at = "find"
    /\ IF request[r].dest \in account THEN Done(r) ELSE Step(r, "create")
    /\ UNCHANGED <<codes, account, drawn, history>>

\* verify: create, or the unique index refuses a second user and the request fails.
Create(r) ==
    /\ request[r].at = "create"
    /\ account' = account \cup {request[r].dest}
    /\ Done(r)
    /\ UNCHANGED <<codes, drawn, history>>

\* Redis: a code, a cooldown or an hour's counter expires.
ExpireCode(d) ==
    /\ stored[d] # 0
    /\ stored' = [stored EXCEPT ![d] = 0] /\ attempts' = [attempts EXCEPT ![d] = 0]
    /\ UNCHANGED <<cooldown, hits, account, request, drawn, history>>
ExpireCooldown(d) ==
    /\ d \in cooldown /\ cooldown' = cooldown \ {d}
    /\ UNCHANGED <<stored, attempts, hits, account, request, drawn, history>>
ExpireHour(k) ==
    /\ hits[k] # 0 /\ hits' = [hits EXCEPT ![k] = 0]
    /\ issued' = IF k = Ip THEN issued ELSE [issued EXCEPT ![k] = 0]
    /\ UNCHANGED <<stored, attempts, cooldown, account, request, drawn, wrong>>

Handle(r) ==
    \/ Limit(r) \/ Store(r) \/ Delivered(r) \/ NotDelivered(r)
    \/ Count(r) \/ TooMany(r) \/ Accept(r) \/ Find(r) \/ Create(r)

Next ==
    \/ \E r \in Requests, d \in Dests : Send(r, d) \/ \E isRight \in BOOLEAN : Check(r, d, isRight)
    \/ \E r \in Requests : Handle(r)
    \/ \E d \in Dests : ExpireCode(d) \/ ExpireCooldown(d)
    \/ \E k \in Dests \cup {Ip} : ExpireHour(k)

Spec == Init /\ [][Next]_vars

-----------------------------------------------------------------------------
\* Types.
TypeOK ==
    /\ stored \in [Dests -> 0..MaxCodes] /\ attempts \in [Dests -> Nat] /\ cooldown \subseteq Dests
    /\ hits \in [Dests \cup {Ip} -> Nat] /\ account \subseteq Dests /\ drawn \in 0..MaxCodes
    /\ request \in [Requests -> {Idle} \cup Asked]
    /\ wrong \in [Dests -> Nat] /\ issued \in [Dests -> Nat]

\* "5 wrong attempts per code" (otp.ts:22): each other request in progress may have read the
\* count before it was raised, and no interleaving with resends or deletions allows more.
FewGuesses == \A d \in Dests : wrong[d] <= MaxAttempts + Cardinality(Requests) - 1

\* "5 codes per destination per hour" (otp.ts:21), whatever fails or expires; a request that
\* passed its limit in the hour before may still store its code in this one.
FewCodes == \A d \in Dests : issued[d] <= DestLimit + Cardinality(Requests)
=============================================================================
