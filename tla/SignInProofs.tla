--------------------------- MODULE SignInProofs ---------------------------
(***************************************************************************)
(* How many wrong guesses a one-time code sees (FewGuesses) and how many   *)
(* codes a destination gets in an hour (FewCodes), for any number of       *)
(* requests and destinations and any limits.                               *)
(*                                                                         *)
(* Neither bound is inductive: what was let through and not yet written    *)
(* has to be counted too.  A wrong guess that was compared and not yet     *)
(* counted is a request at "wrong" (Guessing); a request that passed the   *)
(* destination's limit and has not stored its code is at "ipLimit" or      *)
(* "store" (Passed).                                                       *)
(***************************************************************************)
EXTENDS SignIn, FiniteSetTheorems, TLAPS

Guessing(d) == {r \in Requests : request[r].at = "wrong" /\ request[r].dest = d}
Passed(d) == {r \in Requests : request[r].at \in {"ipLimit", "store"} /\ request[r].dest = d}

GuessesSeen == \A d \in Dests : stored[d] # 0 => wrong[d] <= attempts[d] + Cardinality(Guessing(d))
GuessInv == FewGuesses /\ GuessesSeen

CodesSeen ==
    \A d \in Dests :
        /\ issued[d] + Cardinality(Passed(d)) <= hits[d] + Cardinality(Requests)
        /\ issued[d] + Cardinality(Passed(d)) <= DestLimit + Cardinality(Requests)
Inv == TypeOK /\ GuessInv /\ CodesSeen
-----------------------------------------------------------------------------
(* Requests. *)
LEMMA AskedAt ==
    ASSUME TypeOK, NEW r \in Requests, request[r].at \in Stages
    PROVE  request[r] \in Asked
  BY DEF TypeOK, Idle, Stages

LEMMA StepTyped ==
    ASSUME NEW x \in Asked, NEW at \in Stages
    PROVE  /\ [x EXCEPT !.at = at] \in Asked
           /\ [x EXCEPT !.at = at].at = at /\ [x EXCEPT !.at = at].dest = x.dest
  BY DEF Asked

LEMMA GoEffect ==
    ASSUME TypeOK, NEW r \in Requests, NEW next \in Asked \cup {Idle}, Go(r, next)
    PROVE  /\ request' \in [Requests -> Asked \cup {Idle}]
           /\ request'[r] = next
           /\ \A s \in Requests : s # r => request'[s] = request[s]
  BY DEF TypeOK, Go

\* Each request is in one of these sets or not, whatever the others do.
LEMMA SetsTyped ==
    ASSUME NEW d \in Dests
    PROVE  /\ IsFiniteSet(Guessing(d)) /\ Cardinality(Guessing(d)) \in Nat
           /\ Cardinality(Guessing(d)) <= Cardinality(Requests)
           /\ IsFiniteSet(Passed(d)) /\ Cardinality(Passed(d)) \in Nat
           /\ Cardinality(Passed(d)) <= Cardinality(Requests)
           /\ Cardinality(Requests) \in Nat
  <1>1. Guessing(d) \in SUBSET Requests /\ Passed(d) \in SUBSET Requests
    BY DEF Guessing, Passed
  <1> QED
    BY <1>1, RequestsAssumption, FS_Subset, FS_CardinalityType

\* A request that goes on comes into a set, stays or leaves it.
LEMMA SetsMove ==
    ASSUME TypeOK, NEW r \in Requests, NEW next \in Asked \cup {Idle}, Go(r, next), NEW d \in Dests
    PROVE  /\ Guessing(d)' = IF next.at = "wrong" /\ next.dest = d THEN Guessing(d) \cup {r} ELSE Guessing(d) \ {r}
           /\ Passed(d)' = IF next.at \in {"ipLimit", "store"} /\ next.dest = d
                           THEN Passed(d) \cup {r} ELSE Passed(d) \ {r}
  <1>1. request'[r] = next /\ \A s \in Requests : s # r => request'[s] = request[s]
    BY GoEffect
  <1> QED
    BY <1>1 DEF Guessing, Passed

\* Limit lets the request pass and counts it, or lets it go; no counter goes back.
LEMMA LimitEffect ==
    ASSUME TypeOK, NEW r \in Requests, Limit(r)
    PROVE  /\ request[r] \in Asked /\ hits' \in [Dests \cup {Ip} -> Nat]
           /\ \A d \in Dests : hits[d] <= hits'[d]
           /\ \/ /\ request[r].at = "destLimit" /\ Step(r, "ipLimit")
                 /\ hits[request[r].dest] + 1 <= DestLimit /\ hits'[request[r].dest] = hits[request[r].dest] + 1
              \/ request[r].at = "ipLimit" /\ Step(r, "store")
              \/ Done(r)
  <1>1. request[r] \in Asked /\ request[r].dest \in Dests
    BY AskedAt DEF Limit, Stages, Asked
  <1>2. CASE request[r].at = "destLimit"
    <2>1. hits' = [hits EXCEPT ![request[r].dest] = IF @ <= DestLimit THEN @ + 1 ELSE @]
      BY <1>2 DEF Limit
    <2>2. IF hits[request[r].dest] + 1 <= DestLimit THEN Step(r, "ipLimit") ELSE Done(r)
      BY <1>2 DEF Limit, Within
    <2>3. hits \in [Dests \cup {Ip} -> Nat]
      BY DEF TypeOK
    <2>4. hits' \in [Dests \cup {Ip} -> Nat] /\ \A d \in Dests : hits[d] <= hits'[d]
      BY <1>1, <2>1, <2>3
    <2>5. hits[request[r].dest] + 1 <= DestLimit => hits'[request[r].dest] = hits[request[r].dest] + 1
      BY <1>1, <2>1, <2>3, NumbersAssumption
    <2> QED
      BY <1>1, <1>2, <2>2, <2>4, <2>5
  <1>3. CASE request[r].at = "ipLimit"
    <2>1. hits' = [hits EXCEPT ![Ip] = IF @ <= IpLimit THEN @ + 1 ELSE @] /\ (Step(r, "store") \/ Done(r))
      BY <1>3 DEF Limit
    <2>2. hits \in [Dests \cup {Ip} -> Nat]
      BY DEF TypeOK
    <2>3. hits' \in [Dests \cup {Ip} -> Nat] /\ \A d \in Dests : hits[d] <= hits'[d]
      BY <2>1, <2>2
    <2> QED
      BY <1>1, <1>3, <2>1, <2>3
  <1> QED
    BY <1>2, <1>3 DEF Limit
-----------------------------------------------------------------------------
LEMMA TypeInit == Init => TypeOK
  BY NumbersAssumption DEF Init, TypeOK

\* A code that goes takes its wrong attempts with it.
LEMMA CodeGone ==
    ASSUME TypeOK, NEW d, stored' = Deleted(d), attempts' = [attempts EXCEPT ![d] = 0]
    PROVE  stored' \in [Dests -> 0..MaxCodes] /\ attempts' \in [Dests -> Nat]
  <1>1. stored \in [Dests -> 0..MaxCodes] /\ attempts \in [Dests -> Nat] /\ 0 \in 0..MaxCodes
    BY NumbersAssumption DEF TypeOK
  <1> QED
    BY <1>1 DEF Deleted

LEMMA TypeStep == TypeOK /\ [Next]_vars => TypeOK'
  <1> SUFFICES ASSUME TypeOK, [Next]_vars PROVE TypeOK'
    OBVIOUS
  <1> USE NumbersAssumption
  <1>1. ASSUME NEW r \in Requests, NEW d \in Dests, Send(r, d) PROVE TypeOK'
    <2>1. [at |-> "destLimit", dest |-> d] \in Asked
      BY DEF Asked, Stages
    <2>2. request' \in [Requests -> Asked \cup {Idle}]
      BY <1>1, <2>1, GoEffect DEF Send, TypeOK
    <2> QED
      BY <1>1, <2>2 DEF Send, TypeOK, history
  <1>2. ASSUME NEW r \in Requests, NEW d \in Dests, NEW isRight \in BOOLEAN, Check(r, d, isRight) PROVE TypeOK'
    <2>1. PICK next \in Stages : /\ Go(r, [at |-> next, dest |-> d])
                                 /\ wrong' = IF next = "wrong" THEN [wrong EXCEPT ![d] = @ + 1] ELSE wrong
      BY <1>2 DEF Check, Stages
    <2>2. [at |-> next, dest |-> d] \in Asked
      BY DEF Asked
    <2>3. request' \in [Requests -> Asked \cup {Idle}]
      BY <2>1, <2>2, GoEffect
    <2>4. wrong' \in [Dests -> Nat]
      BY <2>1 DEF TypeOK
    <2> QED
      BY <1>2, <2>3, <2>4 DEF Check, TypeOK, codes
  <1>3. ASSUME NEW r \in Requests, Limit(r) PROVE TypeOK'
    <2>1. request[r] \in Asked
      BY <1>3, AskedAt DEF Limit, Stages
    <2>2. [request[r] EXCEPT !.at = "ipLimit"] \in Asked /\ [request[r] EXCEPT !.at = "store"] \in Asked
      BY <2>1, StepTyped DEF Stages
    <2>3. Go(r, [request[r] EXCEPT !.at = "ipLimit"]) \/ Go(r, [request[r] EXCEPT !.at = "store"]) \/ Go(r, Idle)
      BY <1>3 DEF Limit, Step, Done
    <2>4. request' \in [Requests -> Asked \cup {Idle}]
      BY <2>2, <2>3, GoEffect
    <2>5. hits' \in [Dests \cup {Ip} -> Nat]
      BY <1>3, LimitEffect
    <2> QED
      BY <1>3, <2>4, <2>5 DEF Limit, TypeOK, history
  <1>4. ASSUME NEW r \in Requests, Store(r) PROVE TypeOK'
    <2>1. request[r] \in Asked /\ request[r].dest \in Dests
      BY <1>4, AskedAt DEF Store, Stages, Asked
    <2>2. [request[r] EXCEPT !.at = "deliver"] \in Asked
      BY <2>1, StepTyped DEF Stages
    <2>3. request' \in [Requests -> Asked \cup {Idle}]
      BY <1>4, <2>2, GoEffect DEF Store, Step
    <2>4. drawn + 1 \in 0..MaxCodes
      BY <1>4 DEF Store, TypeOK
    <2> QED
      BY <1>4, <2>1, <2>3, <2>4 DEF Store, TypeOK
  <1>5. ASSUME NEW r \in Requests, Done(r) PROVE request' \in [Requests -> Asked \cup {Idle}]
    BY <1>5, GoEffect DEF Done
  <1>6. ASSUME NEW r \in Requests, Delivered(r) PROVE TypeOK'
    BY <1>5, <1>6 DEF Delivered, TypeOK, codes, history
  <1>7. ASSUME NEW r \in Requests, NotDelivered(r) PROVE TypeOK'
    <2>1. stored' \in [Dests -> 0..MaxCodes] /\ attempts' \in [Dests -> Nat]
      BY <1>7, CodeGone DEF NotDelivered
    <2> QED
      BY <1>5, <1>7, <2>1 DEF NotDelivered, TypeOK, history
  <1>8. ASSUME NEW r \in Requests, Count(r) PROVE TypeOK'
    <2>1. request[r] \in Asked /\ request[r].dest \in Dests
      BY <1>8, AskedAt DEF Count, Stages, Asked
    <2>2. [request[r] EXCEPT !.at = "tooMany"] \in Asked
      BY <2>1, StepTyped DEF Stages
    <2>3. Go(r, [request[r] EXCEPT !.at = "tooMany"]) \/ Done(r)
      BY <1>8 DEF Count, Step
    <2>4. request' \in [Requests -> Asked \cup {Idle}]
      BY <1>5, <2>2, <2>3, GoEffect
    <2>5. attempts' \in [Dests -> Nat]
      <3>1. attempts' = [attempts EXCEPT ![request[r].dest] = @ + 1] /\ attempts \in [Dests -> Nat]
        BY <1>8 DEF Count, Counted, TypeOK
      <3> QED
        BY <2>1, <3>1
    <2> QED
      BY <1>8, <2>4, <2>5 DEF Count, TypeOK, history
  <1>9. ASSUME NEW r \in Requests, TooMany(r) PROVE TypeOK'
    <2>1. stored' \in [Dests -> 0..MaxCodes] /\ attempts' \in [Dests -> Nat]
      BY <1>9, CodeGone DEF TooMany
    <2> QED
      BY <1>5, <1>9, <2>1 DEF TooMany, TypeOK, history
  <1>10. ASSUME NEW r \in Requests, Accept(r) PROVE TypeOK'
    <2>1. request[r] \in Asked
      BY <1>10, AskedAt DEF Accept, Stages
    <2>2. [request[r] EXCEPT !.at = "find"] \in Asked
      BY <2>1, StepTyped DEF Stages
    <2>3. request' \in [Requests -> Asked \cup {Idle}]
      BY <1>10, <2>2, GoEffect DEF Accept, Step
    <2>4. stored' \in [Dests -> 0..MaxCodes] /\ attempts' \in [Dests -> Nat]
      BY <1>10, CodeGone DEF Accept
    <2> QED
      BY <1>10, <2>3, <2>4 DEF Accept, TypeOK, history
  <1>11. ASSUME NEW r \in Requests, Find(r) PROVE TypeOK'
    <2>1. request[r] \in Asked
      BY <1>11, AskedAt DEF Find, Stages
    <2>2. [request[r] EXCEPT !.at = "create"] \in Asked
      BY <2>1, StepTyped DEF Stages
    <2>3. Go(r, [request[r] EXCEPT !.at = "create"]) \/ Done(r)
      BY <1>11 DEF Find, Step
    <2>4. request' \in [Requests -> Asked \cup {Idle}]
      BY <1>5, <2>2, <2>3, GoEffect
    <2> QED
      BY <1>11, <2>4 DEF Find, TypeOK, codes, history
  <1>12. ASSUME NEW r \in Requests, Create(r) PROVE TypeOK'
    <2>1. request[r] \in Asked
      BY <1>12, AskedAt DEF Create, Stages
    <2> QED
      BY <1>5, <1>12, <2>1 DEF Create, Asked, TypeOK, codes, history
  <1>13. ASSUME NEW d \in Dests, ExpireCode(d) \/ ExpireCooldown(d) PROVE TypeOK'
    BY <1>13 DEF ExpireCode, ExpireCooldown, TypeOK, history
  <1>14. ASSUME NEW k \in Dests \cup {Ip}, ExpireHour(k) PROVE TypeOK'
    BY <1>14 DEF ExpireHour, TypeOK
  <1>15. CASE UNCHANGED vars
    BY <1>15 DEF vars, codes, history, TypeOK
  <1> QED
    BY <1>1, <1>2, <1>3, <1>4, <1>6, <1>7, <1>8, <1>9, <1>10, <1>11, <1>12, <1>13, <1>14, <1>15 DEF Next, Handle
-----------------------------------------------------------------------------
(* Guesses. *)
\* Nothing is guessed, and the code of d is the one it was, or gone.
LEMMA GuessMove ==
    ASSUME TypeOK, GuessInv, NEW r \in Requests, NEW next \in Asked \cup {Idle}, Go(r, next),
           request[r].at # "wrong", next.at # "wrong", UNCHANGED wrong,
           \A d \in Dests : stored'[d] # 0 => stored'[d] = stored[d] /\ attempts'[d] = attempts[d]
    PROVE  GuessInv'
  <1>1. ASSUME NEW d \in Dests PROVE Guessing(d)' = Guessing(d)
    <2>1. Guessing(d)' = Guessing(d) \ {r}
      BY SetsMove
    <2> QED
      BY <2>1 DEF Guessing
  <1> QED
    BY <1>1 DEF GuessInv, FewGuesses, GuessesSeen

LEMMA GuessStep == TypeOK /\ GuessInv /\ [Next]_vars => GuessInv'
  <1> SUFFICES ASSUME TypeOK, GuessInv, [Next]_vars PROVE GuessInv'
    OBVIOUS
  <1> USE NumbersAssumption
  <1>1. ASSUME NEW r \in Requests, NEW d \in Dests, Send(r, d) PROVE GuessInv'
    <2>1. CASE d \in cooldown
      BY <1>1, <2>1 DEF Send, GuessInv, FewGuesses, GuessesSeen, Guessing, history
    <2>2. CASE d \notin cooldown
      <3>1. [at |-> "destLimit", dest |-> d] \in Asked
        BY DEF Asked, Stages
      <3> QED
        BY <1>1, <2>2, <3>1, GuessMove DEF Send, Idle, history
    <2> QED
      BY <2>1, <2>2
  <1>2. ASSUME NEW r \in Requests, NEW d \in Dests, NEW isRight \in BOOLEAN, Check(r, d, isRight) PROVE GuessInv'
    <2>1. CASE attempts[d] >= MaxAttempts \/ isRight
      <3>1. PICK next \in {"tooMany", "right"} : Go(r, [at |-> next, dest |-> d]) /\ UNCHANGED wrong
        BY <1>2, <2>1 DEF Check
      <3>2. [at |-> next, dest |-> d] \in Asked
        BY DEF Asked, Stages
      <3> QED
        BY <1>2, <3>1, <3>2, GuessMove DEF Check, Idle, codes
    <2>2. CASE ~(attempts[d] >= MaxAttempts) /\ ~isRight
      <3>1. Go(r, [at |-> "wrong", dest |-> d]) /\ wrong' = [wrong EXCEPT ![d] = @ + 1]
        BY <1>2, <2>2 DEF Check
      <3>2. [at |-> "wrong", dest |-> d] \in Asked
        BY DEF Asked, Stages
      <3>3. \A c \in Dests : Guessing(c)' = IF c = d THEN Guessing(c) \cup {r} ELSE Guessing(c) \ {r}
        BY <3>1, <3>2, SetsMove
      <3>4. \A c \in Dests : r \notin Guessing(c)
        BY <1>2 DEF Check, Guessing, Idle
      <3>5. \A c \in Dests : c # d => Guessing(c)' = Guessing(c)
        BY <3>3, <3>4
      <3>6. Cardinality(Guessing(d)') = Cardinality(Guessing(d)) + 1
        BY <3>3, <3>4, SetsTyped, FS_AddElement
      <3>7. Cardinality(Guessing(d)') <= Cardinality(Requests)
        <4>1. Guessing(d)' \in SUBSET Requests
          BY DEF Guessing
        <4> QED
          BY <4>1, RequestsAssumption, FS_Subset
      <3>8. wrong[d] \in Nat /\ attempts[d] \in Nat /\ UNCHANGED <<stored, attempts>> /\ stored[d] # 0
        BY <1>2 DEF TypeOK, Check, codes
      <3>9. wrong'[d] = wrong[d] + 1 /\ \A c \in Dests : c # d => wrong'[c] = wrong[c]
        BY <3>1 DEF TypeOK
      <3>10. wrong[d] <= attempts[d] + Cardinality(Guessing(d))
        BY <3>8 DEF GuessInv, GuessesSeen
      <3>11. wrong'[d] <= attempts[d] + Cardinality(Guessing(d)')
        BY <3>6, <3>8, <3>9, <3>10, SetsTyped
      <3>12. wrong'[d] <= MaxAttempts + Cardinality(Requests) - 1
        BY <2>2, <3>7, <3>6, <3>8, <3>9, <3>10, SetsTyped
      <3>13. GuessesSeen'
        BY <3>5, <3>8, <3>9, <3>11 DEF GuessInv, GuessesSeen
      <3>14. FewGuesses'
        BY <3>9, <3>12 DEF GuessInv, FewGuesses
      <3> QED
        BY <3>13, <3>14 DEF GuessInv
    <2> QED
      BY <2>1, <2>2
  <1>3. ASSUME NEW r \in Requests, Limit(r) PROVE GuessInv'
    <2>1. request[r] \in Asked /\ request[r].at # "wrong" /\ UNCHANGED <<stored, attempts, wrong>>
      BY <1>3, LimitEffect DEF Limit, history
    <2>2. [request[r] EXCEPT !.at = "ipLimit"] \in Asked /\ [request[r] EXCEPT !.at = "store"] \in Asked
          /\ [request[r] EXCEPT !.at = "ipLimit"].at # "wrong" /\ [request[r] EXCEPT !.at = "store"].at # "wrong"
      BY <2>1, StepTyped DEF Stages
    <2>3. Go(r, [request[r] EXCEPT !.at = "ipLimit"]) \/ Go(r, [request[r] EXCEPT !.at = "store"]) \/ Go(r, Idle)
      BY <1>3, LimitEffect DEF Step, Done
    <2>4. Idle.at # "wrong"
      BY DEF Idle
    <2> QED
      BY <2>1, <2>2, <2>3, <2>4, GuessMove
  <1>4. ASSUME NEW r \in Requests, Store(r) PROVE GuessInv'
    <2>1. request[r] \in Asked /\ request[r].dest \in Dests /\ request[r].at = "store"
      BY <1>4, AskedAt DEF Store, Stages, Asked
    <2>2. [request[r] EXCEPT !.at = "deliver"] \in Asked /\ [request[r] EXCEPT !.at = "deliver"].at # "wrong"
      BY <2>1, StepTyped DEF Stages
    <2> DEFINE d == request[r].dest
    <2>3. \A c \in Dests : Guessing(c)' = Guessing(c)
      <3>1. \A c \in Dests : Guessing(c)' = Guessing(c) \ {r}
        BY <1>4, <2>2, SetsMove, ZenonT(60) DEF Store, Step
      <3> QED
        BY <2>1, <3>1 DEF Guessing
    <2>4. \A c \in Dests : c # d => stored'[c] = stored[c] /\ attempts'[c] = attempts[c] /\ wrong'[c] = wrong[c]
      BY <1>4 DEF Store, TypeOK
    <2>5. wrong'[d] = 0 /\ attempts'[d] = 0
      BY <1>4, <2>1 DEF Store, TypeOK
    <2>6. Cardinality(Requests) >= 1
      BY RequestsAssumption, FS_EmptySet, FS_CardinalityType
    <2> HIDE DEF d
    <2>7. FewGuesses'
      BY <2>4, <2>5, <2>6, SetsTyped DEF GuessInv, FewGuesses
    <2>8. GuessesSeen'
      BY <2>3, <2>4, <2>5, SetsTyped DEF GuessInv, GuessesSeen
    <2> QED
      BY <2>7, <2>8 DEF GuessInv
  <1>5. ASSUME NEW r \in Requests, Delivered(r) PROVE GuessInv'
    BY <1>5, GuessMove DEF Delivered, Done, Idle, codes, history
  <1>6. ASSUME NEW r \in Requests, NEW d \in Dests, request[r].at # "wrong", UNCHANGED wrong,
               stored' = Deleted(d), attempts' = [attempts EXCEPT ![d] = 0],
               NEW next \in Asked \cup {Idle}, Go(r, next), next.at # "wrong"
        PROVE  GuessInv'
    <2>1. \A c \in Dests : stored'[c] # 0 => stored'[c] = stored[c] /\ attempts'[c] = attempts[c]
      BY <1>6 DEF Deleted, TypeOK
    <2> QED
      BY <1>6, <2>1, GuessMove
  <1>7. ASSUME NEW r \in Requests, NotDelivered(r) PROVE GuessInv'
    <2>1. request[r].dest \in Dests
      BY <1>7, AskedAt DEF NotDelivered, Stages, Asked
    <2> QED
      BY <1>6, <1>7, <2>1 DEF NotDelivered, Done, Idle, history
  <1>8. ASSUME NEW r \in Requests, Count(r) PROVE GuessInv'
    <2>1. request[r] \in Asked /\ request[r].dest \in Dests /\ request[r].at = "wrong"
      BY <1>8, AskedAt DEF Count, Stages, Asked
    <2>0. PICK d \in Dests : d = request[r].dest
      BY <2>1
    <2>2. [request[r] EXCEPT !.at = "tooMany"] \in Asked /\ [request[r] EXCEPT !.at = "tooMany"].at = "tooMany"
      BY <2>1, StepTyped DEF Stages
    <2>3. Go(r, [request[r] EXCEPT !.at = "tooMany"]) \/ Go(r, Idle)
      BY <1>8 DEF Count, Step, Done
    <2>4. \A c \in Dests : Guessing(c)' = Guessing(c) \ {r}
      <3>1. CASE Go(r, Idle)
        BY <3>1, SetsMove DEF Idle
      <3>2. CASE Go(r, [request[r] EXCEPT !.at = "tooMany"])
        BY <2>2, <3>2, SetsMove
      <3> QED
        BY <2>3, <3>1, <3>2
    <2>5. r \in Guessing(d) /\ \A c \in Dests : c # d => Guessing(c)' = Guessing(c)
      BY <2>0, <2>1, <2>4 DEF Guessing
    <2>6. Cardinality(Guessing(d)') = Cardinality(Guessing(d)) - 1
      <3>1. Guessing(d)' = Guessing(d) \ {r} /\ IsFiniteSet(Guessing(d)) /\ r \in Guessing(d)
        BY <2>1, <2>4, <2>5, SetsTyped
      <3> QED
        BY <3>1, FS_RemoveElement, ZenonT(60)
    <2>7. attempts'[d] = attempts[d] + 1 /\ \A c \in Dests : c # d => attempts'[c] = attempts[c]
      BY <1>8, <2>0 DEF Count, Counted, TypeOK
    <2>8. UNCHANGED <<stored, wrong>> /\ attempts[d] \in Nat /\ wrong[d] \in Nat
      BY <1>8, <2>1 DEF Count, history, TypeOK
    <2>9. stored[d] # 0 => wrong'[d] <= attempts'[d] + Cardinality(Guessing(d)')
      BY <2>1, <2>6, <2>7, <2>8, SetsTyped DEF GuessInv, GuessesSeen
    <2>10. GuessesSeen'
      <3> SUFFICES ASSUME NEW c \in Dests, stored'[c] # 0, c # d
                   PROVE  wrong'[c] <= attempts'[c] + Cardinality(Guessing(c)')
        BY <2>9, <2>8 DEF GuessesSeen
      <3>1. wrong[c] <= attempts[c] + Cardinality(Guessing(c))
        BY <2>8 DEF GuessInv, GuessesSeen
      <3> QED
        BY <2>5, <2>7, <2>8, <3>1
    <2> QED
      BY <2>8, <2>10 DEF GuessInv, FewGuesses
  <1>9. ASSUME NEW r \in Requests, TooMany(r) PROVE GuessInv'
    <2>1. request[r].dest \in Dests
      BY <1>9, AskedAt DEF TooMany, Stages, Asked
    <2> QED
      BY <1>6, <1>9, <2>1 DEF TooMany, Done, Idle, history
  <1>10. ASSUME NEW r \in Requests, Accept(r) PROVE GuessInv'
    <2>1. request[r] \in Asked /\ request[r].dest \in Dests
      BY <1>10, AskedAt DEF Accept, Stages, Asked
    <2>2. [request[r] EXCEPT !.at = "find"] \in Asked /\ [request[r] EXCEPT !.at = "find"].at = "find"
      BY <2>1, StepTyped DEF Stages
    <2> QED
      BY <1>6, <1>10, <2>1, <2>2 DEF Accept, Step, history
  <1>11. ASSUME NEW r \in Requests, Find(r) PROVE GuessInv'
    <2>1. request[r] \in Asked
      BY <1>11, AskedAt DEF Find, Stages
    <2>2. [request[r] EXCEPT !.at = "create"] \in Asked /\ [request[r] EXCEPT !.at = "create"].at = "create"
      BY <2>1, StepTyped DEF Stages
    <2> QED
      BY <1>11, <2>2, GuessMove DEF Find, Step, Done, Idle, codes, history
  <1>12. ASSUME NEW r \in Requests, Create(r) PROVE GuessInv'
    BY <1>12, GuessMove DEF Create, Done, Idle, codes, history
  <1>13. ASSUME NEW d \in Dests, ExpireCode(d) \/ ExpireCooldown(d) PROVE GuessInv'
    BY <1>13 DEF ExpireCode, ExpireCooldown, GuessInv, FewGuesses, GuessesSeen, Guessing, TypeOK, history
  <1>14. ASSUME NEW k \in Dests \cup {Ip}, ExpireHour(k) PROVE GuessInv'
    BY <1>14 DEF ExpireHour, GuessInv, FewGuesses, GuessesSeen, Guessing
  <1>15. CASE UNCHANGED vars
    BY <1>15 DEF vars, codes, history, GuessInv, FewGuesses, GuessesSeen, Guessing
  <1> QED
    BY <1>1, <1>2, <1>3, <1>4, <1>5, <1>7, <1>8, <1>9, <1>10, <1>11, <1>12, <1>13, <1>14, <1>15 DEF Next, Handle
-----------------------------------------------------------------------------
(* Codes. *)
\* No code is stored, no counter goes back, and no request comes past its destination's limit.
LEMMA CodeMove ==
    ASSUME TypeOK, CodesSeen, NEW r \in Requests, NEW next \in Asked \cup {Idle}, Go(r, next), UNCHANGED issued,
           hits' \in [Dests \cup {Ip} -> Nat], \A d \in Dests : hits[d] <= hits'[d],
           next.at \in {"ipLimit", "store"} => r \in Passed(next.dest)
    PROVE  CodesSeen'
  <1> SUFFICES ASSUME NEW d \in Dests
               PROVE  /\ issued'[d] + Cardinality(Passed(d)') <= hits'[d] + Cardinality(Requests)
                      /\ issued'[d] + Cardinality(Passed(d)') <= DestLimit + Cardinality(Requests)
    BY DEF CodesSeen
  <1>1. Passed(d)' \in SUBSET Passed(d)
    BY SetsMove
  <1>2. Cardinality(Passed(d)') \in Nat /\ Cardinality(Passed(d)') <= Cardinality(Passed(d))
    BY <1>1, SetsTyped, FS_Subset, FS_CardinalityType
  <1>3. issued[d] \in Nat /\ hits[d] \in Nat /\ hits'[d] \in Nat /\ DestLimit \in Nat
    BY NumbersAssumption DEF TypeOK
  <1>4. /\ issued[d] + Cardinality(Passed(d)) <= hits[d] + Cardinality(Requests)
        /\ issued[d] + Cardinality(Passed(d)) <= DestLimit + Cardinality(Requests)
    BY DEF CodesSeen
  <1> QED
    BY <1>2, <1>3, <1>4, SetsTyped

\* The same for a request that is done, or was not past the limit and does not come there.
LEMMA CodeAside ==
    ASSUME TypeOK, CodesSeen, NEW r \in Requests, NEW next \in Asked \cup {Idle}, Go(r, next), UNCHANGED <<issued, hits>>,
           next.at \notin {"ipLimit", "store"}
    PROVE  CodesSeen'
  <1>1. hits \in [Dests \cup {Ip} -> Nat] /\ \A d \in Dests : hits[d] <= hits[d]
    BY DEF TypeOK
  <1> QED
    BY <1>1, CodeMove

LEMMA CodeStep == TypeOK /\ CodesSeen /\ [Next]_vars => CodesSeen'
  <1> SUFFICES ASSUME TypeOK, CodesSeen, [Next]_vars PROVE CodesSeen'
    OBVIOUS
  <1>1. ASSUME NEW r \in Requests, NEW d \in Dests, Send(r, d) PROVE CodesSeen'
    <2>1. CASE d \in cooldown
      BY <1>1, <2>1 DEF Send, CodesSeen, Passed, history
    <2>2. CASE d \notin cooldown
      <3>1. [at |-> "destLimit", dest |-> d] \in Asked
        BY DEF Asked, Stages
      <3> QED
        BY <1>1, <2>2, <3>1, CodeAside DEF Send, history
    <2> QED
      BY <2>1, <2>2
  <1>2. ASSUME NEW r \in Requests, NEW d \in Dests, NEW isRight \in BOOLEAN, Check(r, d, isRight) PROVE CodesSeen'
    <2>1. PICK next \in {"tooMany", "right", "wrong"} : Go(r, [at |-> next, dest |-> d])
      BY <1>2 DEF Check
    <2>2. [at |-> next, dest |-> d] \in Asked
      BY DEF Asked, Stages
    <2> QED
      BY <1>2, <2>1, <2>2, CodeAside DEF Check, codes
  <1>3. ASSUME NEW r \in Requests, Limit(r) PROVE CodesSeen'
    <2>1. /\ request[r] \in Asked /\ hits' \in [Dests \cup {Ip} -> Nat] /\ UNCHANGED issued
          /\ \A d \in Dests : hits[d] <= hits'[d]
      BY <1>3, LimitEffect DEF Limit, history
    <2>2. request[r].dest \in Dests
      BY <2>1 DEF Asked
    <2>3. CASE Done(r)
      BY <2>1, <2>3, CodeMove DEF Done, Idle
    <2>4. CASE request[r].at = "ipLimit" /\ Step(r, "store")
      <3> DEFINE next == [request[r] EXCEPT !.at = "store"]
      <3>1. next \in Asked /\ next.dest = request[r].dest
        BY <2>1, StepTyped DEF Stages
      <3>2. r \in Passed(next.dest)
        BY <2>4, <3>1 DEF Passed
      <3>3. Go(r, next)
        BY <2>4 DEF Step
      <3> HIDE DEF next
      <3> QED
        BY <2>1, <3>1, <3>2, <3>3, CodeMove
    \* The destination's limit lets it pass: one more in Passed, and its counter one higher.
    <2>5. CASE /\ request[r].at = "destLimit" /\ Step(r, "ipLimit")
               /\ hits[request[r].dest] + 1 <= DestLimit /\ hits'[request[r].dest] = hits[request[r].dest] + 1
      <3>1. PICK e \in Dests : e = request[r].dest
        BY <2>2
      <3>2. [request[r] EXCEPT !.at = "ipLimit"] \in Asked /\ [request[r] EXCEPT !.at = "ipLimit"].at = "ipLimit"
            /\ [request[r] EXCEPT !.at = "ipLimit"].dest = e
        BY <2>1, <3>1, StepTyped DEF Stages
      <3>3. \A d \in Dests : r \notin Passed(d)
        BY <2>5 DEF Passed
      <3>4. \A d \in Dests : Passed(d)' = IF d = e THEN Passed(d) \cup {r} ELSE Passed(d)
        <4>1. \A d \in Dests : Passed(d)' = IF e = d THEN Passed(d) \cup {r} ELSE Passed(d) \ {r}
          BY <2>5, <3>2, SetsMove DEF Step
        <4> QED
          BY <3>3, <4>1
      <3>5. Cardinality(Passed(e)') = Cardinality(Passed(e)) + 1
        BY <3>3, <3>4, SetsTyped, FS_AddElement
      <3> SUFFICES ASSUME NEW d \in Dests
                   PROVE  /\ issued'[d] + Cardinality(Passed(d)') <= hits'[d] + Cardinality(Requests)
                          /\ issued'[d] + Cardinality(Passed(d)') <= DestLimit + Cardinality(Requests)
        BY DEF CodesSeen
      <3>6. issued[d] \in Nat /\ hits[d] \in Nat /\ hits'[d] \in Nat /\ DestLimit \in Nat /\ hits[d] <= hits'[d]
        BY <2>1, NumbersAssumption DEF TypeOK
      <3>7. /\ issued[d] + Cardinality(Passed(d)) <= hits[d] + Cardinality(Requests)
            /\ issued[d] + Cardinality(Passed(d)) <= DestLimit + Cardinality(Requests)
        BY DEF CodesSeen
      <3>8. CASE d = e
        BY <2>1, <2>5, <3>1, <3>5, <3>6, <3>7, <3>8, SetsTyped
      <3>9. CASE d # e
        BY <2>1, <3>4, <3>6, <3>7, <3>9, SetsTyped
      <3> QED
        BY <3>8, <3>9
    <2> QED
      BY <1>3, <2>3, <2>4, <2>5, LimitEffect
  <1>4. ASSUME NEW r \in Requests, Store(r) PROVE CodesSeen'
    <2>1. request[r] \in Asked /\ request[r].dest \in Dests /\ request[r].at = "store"
      BY <1>4, AskedAt DEF Store, Stages, Asked
    <2>2. PICK e \in Dests : e = request[r].dest
      BY <2>1
    <2>3. [request[r] EXCEPT !.at = "deliver"] \in Asked /\ [request[r] EXCEPT !.at = "deliver"].at = "deliver"
      BY <2>1, StepTyped DEF Stages
    <2>4. \A d \in Dests : Passed(d)' = Passed(d) \ {r}
      BY <1>4, <2>3, SetsMove DEF Store, Step
    <2>5. r \in Passed(e) /\ \A d \in Dests : d # e => r \notin Passed(d)
      BY <2>1, <2>2 DEF Passed
    <2>6. Cardinality(Passed(e)') = Cardinality(Passed(e)) - 1
      BY <2>4, <2>5, SetsTyped, FS_RemoveElement
    <2>7. issued' = [issued EXCEPT ![e] = @ + 1] /\ UNCHANGED hits
      BY <1>4, <2>2 DEF Store
    <2> SUFFICES ASSUME NEW d \in Dests
                 PROVE  /\ issued'[d] + Cardinality(Passed(d)') <= hits'[d] + Cardinality(Requests)
                        /\ issued'[d] + Cardinality(Passed(d)') <= DestLimit + Cardinality(Requests)
      BY DEF CodesSeen
    <2>8. issued \in [Dests -> Nat] /\ issued[d] \in Nat /\ hits[d] \in Nat /\ DestLimit \in Nat
      BY NumbersAssumption DEF TypeOK
    <2>9. /\ issued[d] + Cardinality(Passed(d)) <= hits[d] + Cardinality(Requests)
          /\ issued[d] + Cardinality(Passed(d)) <= DestLimit + Cardinality(Requests)
      BY DEF CodesSeen
    <2>10. CASE d = e
      <3>1. issued'[d] = issued[d] + 1
        BY <2>7, <2>8, <2>10
      <3> QED
        BY <2>6, <2>7, <2>8, <2>9, <2>10, <3>1, SetsTyped
    <2>11. CASE d # e
      <3>1. issued'[d] = issued[d] /\ Passed(d)' = Passed(d)
        BY <2>4, <2>5, <2>7, <2>8, <2>11
      <3> QED
        BY <2>7, <2>9, <3>1
    <2> QED
      BY <2>10, <2>11
  <1>5. ASSUME NEW r \in Requests, Delivered(r) \/ NotDelivered(r) \/ TooMany(r) \/ Create(r) PROVE CodesSeen'
    BY <1>5, CodeAside DEF Delivered, NotDelivered, TooMany, Create, Done, Idle, codes, history
  <1>6. ASSUME NEW r \in Requests, Count(r) PROVE CodesSeen'
    <2>1. request[r] \in Asked
      BY <1>6, AskedAt DEF Count, Stages
    <2>2. [request[r] EXCEPT !.at = "tooMany"] \in Asked /\ [request[r] EXCEPT !.at = "tooMany"].at = "tooMany"
      BY <2>1, StepTyped DEF Stages
    <2> QED
      BY <1>6, <2>2, CodeAside DEF Count, Step, Done, Idle, history
  <1>7. ASSUME NEW r \in Requests, Accept(r) PROVE CodesSeen'
    <2>1. request[r] \in Asked
      BY <1>7, AskedAt DEF Accept, Stages
    <2>2. [request[r] EXCEPT !.at = "find"] \in Asked /\ [request[r] EXCEPT !.at = "find"].at = "find"
      BY <2>1, StepTyped DEF Stages
    <2> QED
      BY <1>7, <2>2, CodeAside DEF Accept, Step, history
  <1>8. ASSUME NEW r \in Requests, Find(r) PROVE CodesSeen'
    <2>1. request[r] \in Asked
      BY <1>8, AskedAt DEF Find, Stages
    <2>2. [request[r] EXCEPT !.at = "create"] \in Asked /\ [request[r] EXCEPT !.at = "create"].at = "create"
      BY <2>1, StepTyped DEF Stages
    <2> QED
      BY <1>8, <2>2, CodeAside DEF Find, Step, Done, Idle, codes, history
  <1>9. ASSUME NEW d \in Dests, ExpireCode(d) \/ ExpireCooldown(d) PROVE CodesSeen'
    BY <1>9 DEF ExpireCode, ExpireCooldown, CodesSeen, Passed, history
  \* A new hour: whoever passed in the hour before is one of the requests.
  <1>10. ASSUME NEW k \in Dests \cup {Ip}, ExpireHour(k) PROVE CodesSeen'
    <2> SUFFICES ASSUME NEW d \in Dests
                 PROVE  /\ issued'[d] + Cardinality(Passed(d)') <= hits'[d] + Cardinality(Requests)
                        /\ issued'[d] + Cardinality(Passed(d)') <= DestLimit + Cardinality(Requests)
      BY DEF CodesSeen
    <2>1. Passed(d)' = Passed(d)
      BY <1>10 DEF ExpireHour, Passed
    <2>2. CASE d = k
      <3>1. issued'[d] = 0 /\ hits'[d] = 0
        BY <1>10, <2>2, KeysAssumption DEF ExpireHour, TypeOK
      <3> QED
        BY <2>1, <3>1, SetsTyped, NumbersAssumption
    <2>3. CASE d # k
      <3>1. issued'[d] = issued[d] /\ hits'[d] = hits[d]
        BY <1>10, <2>3 DEF ExpireHour, TypeOK
      <3> QED
        BY <2>1, <3>1 DEF CodesSeen
    <2> QED
      BY <2>2, <2>3
  <1>11. CASE UNCHANGED vars
    BY <1>11 DEF vars, codes, history, CodesSeen, Passed
  <1> QED
    BY <1>1, <1>2, <1>3, <1>4, <1>5, <1>6, <1>7, <1>8, <1>9, <1>10, <1>11 DEF Next, Handle
-----------------------------------------------------------------------------
LEMMA Invariant == Spec => []Inv
  <1>1. Init => Inv
    <2> SUFFICES ASSUME Init PROVE Inv
      OBVIOUS
    <2>1. \A d \in Dests : Guessing(d) = {} /\ Passed(d) = {}
      BY DEF Init, Guessing, Passed, Idle
    <2>2. \A d \in Dests : wrong[d] = 0 /\ attempts[d] = 0 /\ issued[d] = 0 /\ hits[d] = 0
      BY DEF Init
    <2>3. FewGuesses
      BY <2>2, NumbersAssumption, RequestsAssumption, FS_CardinalityType DEF FewGuesses
    <2>4. GuessesSeen /\ CodesSeen
      <3>1. \A d \in Dests : Cardinality(Guessing(d)) = 0 /\ Cardinality(Passed(d)) = 0
        BY <2>1, FS_EmptySet
      <3>2. Cardinality(Requests) \in Nat /\ DestLimit \in Nat
        BY NumbersAssumption, RequestsAssumption, FS_CardinalityType
      <3> QED
        BY <2>2, <3>1, <3>2 DEF GuessesSeen, CodesSeen
    <2> QED
      BY <2>3, <2>4, TypeInit DEF Inv, GuessInv
  <1>2. Inv /\ [Next]_vars => Inv'
    BY TypeStep, GuessStep, CodeStep DEF Inv
  <1> QED
    BY <1>1, <1>2, PTL DEF Spec

\* Codes, counters and requests keep their form (otp.ts, rateLimit.ts, auth.ts), for any number
\* of destinations and requests.
THEOREM TypeCorrect == Spec => []TypeOK
  <1>1. Inv => TypeOK
    BY DEF Inv
  <1> QED
    BY <1>1, Invariant, PTL

\* However many requests check a code at once, and however resends, expiries and deletions
\* interleave with them, a code is guessed wrong at most the allowed times and once more for each
\* of the other requests (check).
THEOREM FewGuessesInvariant == Spec => []FewGuesses
  <1>1. Inv => FewGuesses
    BY DEF Inv, GuessInv
  <1> QED
    BY <1>1, Invariant, PTL

\* In an hour a destination gets at most the codes of the limit and one for each request that
\* had passed the limit before (issue, enforceLimit), for any limits, failures and expiries.
THEOREM FewCodesInvariant == Spec => []FewCodes
  <1>1. Inv => FewCodes
    <2> SUFFICES ASSUME Inv, NEW d \in Dests PROVE issued[d] <= DestLimit + Cardinality(Requests)
      BY DEF FewCodes
    <2>1. issued[d] + Cardinality(Passed(d)) <= DestLimit + Cardinality(Requests) /\ issued[d] \in Nat
      BY DEF Inv, CodesSeen, TypeOK
    <2> QED
      BY <2>1, SetsTyped, NumbersAssumption
  <1> QED
    BY <1>1, Invariant, PTL
=============================================================================
