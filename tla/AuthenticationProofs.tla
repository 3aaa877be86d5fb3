-------------------------- MODULE AuthenticationProofs --------------------------
(***************************************************************************)
(* Proofs about human login and the keys of agents, for any attempts,      *)
(* addresses, updates, requests and limits: no failure is lost by the      *)
(* compare-and-swap of the counter, an address stays below twice its limit *)
(* in any window, a revocation is complete and nothing revives a session,  *)
(* and a key that was handed out is known to every gateway.                *)
(***************************************************************************)
EXTENDS MCAuthentication, FiniteSetTheorems, WellFoundedInduction, TLAPS

\* What the constants are.
LEMMA Parameters ==
  /\ IpLimit \in Nat /\ IpLimit > 0 /\ MaxTracked \in Nat /\ MaxTracked > 0
  /\ AccountLimit \in Nat /\ AccountLimit > 0 /\ MaxTries \in Nat /\ MaxTries > 0
  /\ IpWindow \in Nat /\ AccountWindow \in Nat
  /\ LockBase \in Nat /\ LockBase > 0 /\ LockCap \in Nat /\ LockCap > 0
  /\ Ttl \in Nat /\ IdleTimeout \in Nat /\ MaxTime \in Nat
BY LimitAssumption, TimeAssumption, LockAssumption

\* Powers of two are positive: a set of n members has as many subsets as 2^n, and at
\* least one.
LEMMA PowerIsPositive ==
  ASSUME NEW n \in Nat
  PROVE  2 ^ n \in Nat /\ 2 ^ n > 0
<1>1. IsFiniteSet(1 .. n) /\ Cardinality(1 .. n) = n
  BY FS_Interval
<1>2. IsFiniteSet(SUBSET (1 .. n)) /\ Cardinality(SUBSET (1 .. n)) = 2 ^ n
  BY <1>1, FS_SUBSET
<1>3. Cardinality(SUBSET (1 .. n)) \in Nat
  BY <1>2, FS_CardinalityType
<1>4. {} \in SUBSET (1 .. n)
  OBVIOUS
<1>5. Cardinality(SUBSET (1 .. n)) # 0
  BY <1>2, <1>4, FS_EmptySet
<1>. QED
  BY <1>2, <1>3, <1>5

\* A lock that is due has a length.
LEMMA BackoffIsPositive ==
  ASSUME NEW count \in Nat, count >= AccountLimit
  PROVE  Backoff(count) \in Nat /\ Backoff(count) > 0
<1>. DEFINE power == 2 ^ (count - AccountLimit)
<1>1. power \in Nat /\ power > 0
  BY Parameters, PowerIsPositive
<1>. HIDE DEF power
<1>2. LockBase * power \in Nat /\ LockBase * power > 0
  BY <1>1, Parameters
<1>3. Backoff(count) = IF LockBase * power < LockCap THEN LockBase * power ELSE LockCap
  BY DEF Backoff, power
<1>. QED
  BY <1>2, <1>3, Parameters

\* What a failure makes of a counter.
LEMMA FailureTypes ==
  ASSUME NEW old \in Counter, NEW now \in Nat
  PROVE  /\ Failure(old, now) \in Counter
         /\ Failure(old, now).count = IF Fresh(old, now) THEN 1 ELSE old.count + 1
         /\ Failure(old, now).count > 0
         /\ Failure(old, now).count >= AccountLimit => Failure(old, now).locked > 0
<1>. DEFINE count == IF Fresh(old, now) THEN 1 ELSE old.count + 1
            window == IF Fresh(old, now) THEN now ELSE old.window
            locked == IF count >= AccountLimit THEN now + Backoff(count) ELSE 0
<1>1. count \in Nat /\ count > 0 /\ window \in Nat
  BY DEF Counter
<1>2. locked \in Nat /\ (count >= AccountLimit => locked > 0)
  <2>. HIDE DEF count
  <2>1. CASE count >= AccountLimit
    BY <1>1, <2>1, BackoffIsPositive
  <2>2. CASE ~(count >= AccountLimit)
    BY <2>2
  <2>. QED
    BY <2>1, <2>2
<1>3. Failure(old, now) = [count |-> count, window |-> window, locked |-> locked]
  BY DEF Failure
<1>4. count = IF Fresh(old, now) THEN 1 ELSE old.count + 1
  OBVIOUS
<1>. HIDE DEF count, window, locked
<1>. QED
  BY <1>1, <1>2, <1>3, <1>4 DEF Counter

\* Some member of a set has the least of the numbers its members have.
LEMMA SomeIsLeast ==
  ASSUME NEW S, S # {}, NEW f, \A x \in S : f[x] \in Nat
  PROVE  \E x \in S : \A y \in S : f[x] <= f[y]
<1>. DEFINE T == {f[x] : x \in S}
            R == OpToRel(<, Nat)
<1>1. T \subseteq Nat /\ T # {}
  OBVIOUS
<1>2. \A m, n \in Nat : m < n => <<m, n>> \in R
  BY Zenon DEF OpToRel
<1>3. IsWellFoundedOn(R, Nat)
  BY NatLessThanWellFounded
<1>4. PICK n \in T : \A m \in T : ~(<<m, n>> \in R)
  <2>. HIDE DEF T, R
  <2>. QED
    BY <1>1, <1>3, WFMin
<1>5. ASSUME NEW m \in T PROVE n <= m
  <2>. HIDE DEF T, R
  <2>1. m \in Nat /\ n \in Nat
    BY <1>1
  <2>2. ~(<<m, n>> \in R)
    BY <1>4
  <2>3. ~(m < n)
    BY <1>2, <2>1, <2>2
  <2>. QED
    BY <2>1, <2>3
<1>. QED
  BY <1>5

-----------------------------------------------------------------------------
(* The throttle *)

\* A bucket that is charged.
LEMMA ChargedTypes ==
  ASSUME TypeOK, IsFiniteSet(admitted), NEW ip \in Ip
  PROVE  /\ Charged(ip) \in Bucket /\ Charged(ip) # NoBucket
         /\ Charged(ip).count = IF Open(ip) THEN throttle[ip].count + 1 ELSE 1
         /\ Charged(ip).started = IF Open(ip) THEN throttle[ip].started ELSE clock
<1>1. Cardinality(admitted) \in Nat
  BY FS_CardinalityType
<1>2. throttle[ip] \in Bucket /\ clock \in Nat
  BY DEF TypeOK
<1>. QED
  BY <1>1, <1>2 DEF Charged, Bucket, NoBucket

\* At most one bucket is given up, of another address, and only by a full table.
LEMMA EvictedOfFull ==
  ASSUME TypeOK, NEW ip \in Ip
  PROVE  \/ Evicted(ip) = {} /\ (ip \in Tracked \/ Cardinality(Tracked) < MaxTracked)
         \/ /\ ip \notin Tracked /\ Cardinality(Tracked) = MaxTracked
            /\ \E old \in Tracked : Evicted(ip) = {old}
<1>1. CASE ip \in Tracked \/ Cardinality(Tracked) < MaxTracked
  BY <1>1 DEF Evicted
<1>2. CASE ip \notin Tracked /\ ~(Cardinality(Tracked) < MaxTracked)
  <2>. DEFINE f == [o \in Tracked |-> throttle[o].last]
              Least(old) == \A other \in Tracked : throttle[old].last <= throttle[other].last
  <2>1. IsFiniteSet(Tracked) /\ Cardinality(Tracked) <= MaxTracked /\ MaxTracked \in Nat
        /\ MaxTracked > 0
    BY Parameters DEF TypeOK
  <2>2. Cardinality(Tracked) \in Nat
    BY <2>1, FS_CardinalityType
  <2>3. Cardinality(Tracked) = MaxTracked /\ Tracked # {}
    BY <1>2, <2>1, <2>2, FS_EmptySet
  <2>4. \A o \in Tracked : f[o] \in Nat
    BY DEF TypeOK, Tracked, Bucket
  <2>5. \E old \in Tracked : \A other \in Tracked : f[old] <= f[other]
    <3>. HIDE DEF f
    <3>. QED
      BY <2>3, <2>4, SomeIsLeast
  <2>6. \E old \in Tracked : Least(old)
    BY <2>5
  <2>7. (CHOOSE old \in Tracked : Least(old)) \in Tracked
    <3>. HIDE DEF Least
    <3>. QED
      BY <2>6
  <2>8. Evicted(ip) = {CHOOSE old \in Tracked : Least(old)}
    BY <1>2 DEF Evicted
  <2>. HIDE DEF Least
  <2>. QED
    BY <1>2, <2>3, <2>7, <2>8
<1>. QED
  BY <1>1, <1>2

\* The table after an attempt was counted.
LEMMA RecordTypes ==
  ASSUME TypeOK, IsFiniteSet(admitted), NEW ip \in Ip, Record(ip)
  PROVE  /\ throttle' \in [Ip -> Bucket]
         /\ evicted \subseteq evicted' /\ evicted' \subseteq Ip
         /\ (IsFiniteSet(Tracked))' /\ (Cardinality(Tracked) <= MaxTracked)'
         /\ throttle'[ip] = Charged(ip)
         /\ \A other \in Ip \ {ip} : other \in evicted' \/ throttle'[other] = throttle[other]
<1>1. Evicted(ip) \subseteq Tracked \ {ip} /\ Tracked \subseteq Ip
  BY EvictedOfFull, Zenon DEF Tracked
<1>2. NoBucket \in Bucket /\ Charged(ip) \in Bucket /\ Charged(ip) # NoBucket
  BY ChargedTypes DEF NoBucket, Bucket
<1>3. throttle' \in [Ip -> Bucket]
  BY <1>1, <1>2 DEF Record, TypeOK
<1>4. throttle'[ip] = Charged(ip) /\ ip \notin Evicted(ip)
  BY <1>1 DEF Record
<1>5. \A other \in Ip \ {ip} : throttle'[other] = IF other \in Evicted(ip) THEN NoBucket
                                                  ELSE throttle[other]
  BY DEF Record
<1>6. evicted' = evicted \cup Evicted(ip) /\ evicted \subseteq Ip
  BY DEF Record, TypeOK
<1>7. Tracked' = (Tracked \cup {ip}) \ Evicted(ip)
  <2>1. \A o \in Ip : (o \in Tracked' <=> o \in (Tracked \cup {ip}) \ Evicted(ip))
    BY <1>1, <1>2, <1>4, <1>5 DEF Tracked
  <2>2. Tracked' \subseteq Ip
    BY DEF Tracked
  <2>. QED
    BY <1>1, <2>1, <2>2
<1>8. IsFiniteSet(Tracked') /\ Cardinality(Tracked') <= MaxTracked
  <2>1. IsFiniteSet(Tracked) /\ Cardinality(Tracked) <= MaxTracked /\ MaxTracked \in Nat
    BY Parameters DEF TypeOK
  <2>2. Cardinality(Tracked) \in Nat
    BY <2>1, FS_CardinalityType
  <2>3. /\ IsFiniteSet(Tracked \cup {ip})
        /\ Cardinality(Tracked \cup {ip}) =
             IF ip \in Tracked THEN Cardinality(Tracked) ELSE Cardinality(Tracked) + 1
    BY <2>1, FS_AddElement
  <2>4. CASE Evicted(ip) = {} /\ (ip \in Tracked \/ Cardinality(Tracked) < MaxTracked)
    <3>1. Tracked' = Tracked \cup {ip}
      BY <1>7, <2>4
    <3>. QED
      BY <2>1, <2>2, <2>3, <2>4, <3>1
  <2>5. ASSUME ip \notin Tracked, Cardinality(Tracked) = MaxTracked,
               NEW old \in Tracked, Evicted(ip) = {old}
        PROVE  IsFiniteSet(Tracked') /\ Cardinality(Tracked') <= MaxTracked
    <3>1. /\ IsFiniteSet((Tracked \cup {ip}) \ {old})
          /\ Cardinality((Tracked \cup {ip}) \ {old}) = Cardinality(Tracked \cup {ip}) - 1
      BY <2>3, <2>5, FS_RemoveElement
    <3>2. Tracked' = (Tracked \cup {ip}) \ {old}
      BY <1>7, <2>5
    <3>. QED
      BY <2>1, <2>2, <2>3, <2>5, <3>1, <3>2
  <2>. QED
    BY <2>4, <2>5, EvictedOfFull
<1>. QED
  BY <1>1, <1>3, <1>4, <1>5, <1>6, <1>8

-----------------------------------------------------------------------------
(* What a step does to each part of the state *)

\* An attempt goes on, once let in or refused it stays so, and what it was when it
\* began it remains.
GoesOn(old, new) ==
  /\ new \in AttemptFrame
  /\ old.pc \in {"in", "refused"} => new = old
  /\ old.pc # "idle" => new.pc # "idle" /\ new.ip = old.ip /\ new.now = old.now
  /\ new.counter \in {old.counter, counter}

\* A failure that is charged to the counter, by a write that found it as it was read.
Charges(a) == /\ attempt[a].pc = "write" /\ CounterUnchanged(attempt[a].counter)
              /\ WriteCounter(a)

\* The steps of one attempt move that attempt.
LEMMA LoginMoves ==
  ASSUME TypeOK, NEW a \in Attempt,
         LoginStep(a) \/ \E ip \in Ip, p \in Password : Begin(a, ip, p)
  PROVE  /\ GoesOn(attempt[a], attempt'[a])
         /\ attempt' = [attempt EXCEPT ![a] = attempt'[a]]
<1>. USE DEF GoesOn, AttemptFrame, vars
<1>1. attempt \in [Attempt -> AttemptFrame] /\ counter \in Counter /\ user \in UserRecord
      /\ clock \in Nat
  BY DEF TypeOK
<1>2. CASE CheckLockout(a)
  BY <1>1, <1>2 DEF CheckLockout, Goto
<1>3. CASE Verify(a)
  BY <1>1, <1>3 DEF Verify
<1>4. CASE ReadCounter(a)
  BY <1>1, <1>4 DEF ReadCounter
<1>5. CASE WriteCounter(a)
  <2>1. attempt[a].pc = "write" /\ attempt[a].tries + 1 \in Nat
    BY <1>1, <1>5 DEF WriteCounter
  <2>2. CASE CounterUnchanged(attempt[a].counter)
    BY <1>1, <1>5, <2>1, <2>2 DEF WriteCounter, Goto
  <2>3. CASE ~CounterUnchanged(attempt[a].counter)
    <3>. DEFINE new == [attempt[a] EXCEPT !.pc = IF attempt[a].tries + 1 < MaxTries
                                                 THEN "failed" ELSE "refused",
                                          !.tries = @ + 1]
    <3>1. attempt' = [attempt EXCEPT ![a] = new]
      BY <1>5, <2>3 DEF WriteCounter
    <3>2. GoesOn(attempt[a], new)
      BY <1>1, <2>1
    <3>. HIDE DEF new
    <3>. QED
      BY <1>1, <3>1, <3>2
  <2>. QED
    BY <2>2, <2>3
<1>6. CASE ClearFailures(a)
  BY <1>1, <1>6 DEF ClearFailures, Goto
<1>7. CASE Rehash(a)
  BY <1>1, <1>7 DEF Rehash, Goto
<1>8. CASE Mint(a)
  BY <1>1, <1>8 DEF Mint, Goto
<1>9. ASSUME NEW ip \in Ip, NEW p \in Password, Begin(a, ip, p)
      PROVE  /\ GoesOn(attempt[a], attempt'[a])
             /\ attempt' = [attempt EXCEPT ![a] = attempt'[a]]
  <2>. DEFINE new == [attempt[a] EXCEPT !.pc = IF Allow(ip) THEN "lockout" ELSE "refused",
                                        !.ip = ip, !.password = p, !.now = clock]
  <2>1. attempt' = [attempt EXCEPT ![a] = new] /\ attempt[a].pc = "idle"
    BY <1>9 DEF Begin
  <2>2. GoesOn(attempt[a], new)
    BY <1>1, <2>1
  <2>. HIDE DEF new
  <2>. QED
    BY <1>1, <2>1, <2>2
<1>. QED
  BY <1>2, <1>3, <1>4, <1>5, <1>6, <1>7, <1>8, <1>9 DEF LoginStep

\* Every attempt goes on, in any step.
LEMMA AttemptsGoOn ==
  ASSUME TypeOK, [Next]_vars
  PROVE  /\ attempt' \in [Attempt -> AttemptFrame]
         /\ \A a \in Attempt : GoesOn(attempt[a], attempt'[a])
<1>0. attempt \in [Attempt -> AttemptFrame]
  BY DEF TypeOK
<1>1. CASE attempt' = attempt
  BY <1>0, <1>1 DEF GoesOn
<1>2. ASSUME NEW a \in Attempt,
             LoginStep(a) \/ \E ip \in Ip, p \in Password : Begin(a, ip, p)
      PROVE  /\ attempt' \in [Attempt -> AttemptFrame]
             /\ \A b \in Attempt : GoesOn(attempt[b], attempt'[b])
  <2>1. GoesOn(attempt[a], attempt'[a]) /\ attempt' = [attempt EXCEPT ![a] = attempt'[a]]
    BY <1>2, LoginMoves, Zenon
  <2>2. attempt'[a] \in AttemptFrame
    BY <2>1 DEF GoesOn
  <2>. QED
    BY <1>0, <2>1, <2>2 DEF GoesOn
<1>. QED
  BY <1>1, <1>2 DEF Next, vars, frames, UpdateUser, ChangePassword, StartUpdate, PutUser,
                    RevokeUserSessions, RevokeOne, ReadUser, Touch, ReadSession, Logout,
                    UnlockUser, Tick

\* The table and what was admitted change only as an attempt begins.
LEMMA TableSteps ==
  ASSUME [Next]_vars
  PROVE  \/ UNCHANGED <<table, admitted>> /\ clock' = clock
         \/ UNCHANGED <<table, admitted>> /\ clock' = clock + 1 /\ clock < MaxTime
         \/ \E a \in Attempt, ip \in Ip, p \in Password :
              /\ Begin(a, ip, p) /\ Allow(ip) /\ Record(ip)
              /\ admitted' = admitted \cup {a} /\ clock' = clock
BY DEF Next, vars, table, LoginStep, CheckLockout, Verify, ReadCounter, WriteCounter,
       ClearFailures, Rehash, Mint, Begin, UpdateUser, ChangePassword, StartUpdate, PutUser,
       RevokeUserSessions, RevokeOne, ReadUser, Touch, ReadSession, Logout, UnlockUser, Tick

\* The counter changes as a failure is charged to it, or is cleared.
LEMMA CounterSteps ==
  ASSUME [Next]_vars
  PROVE  \/ UNCHANGED <<counter, misses>>
         \/ counter' = NoCounter /\ misses' = {}
         \/ \E a \in Attempt : Charges(a)
BY DEF Next, vars, table, LoginStep, CheckLockout, Verify, ReadCounter, WriteCounter,
       ClearFailures, Rehash, Mint, Begin, UpdateUser, ChangePassword, StartUpdate, PutUser,
       RevokeUserSessions, RevokeOne, ReadUser, Touch, ReadSession, Logout, UnlockUser, Tick,
       Charges

\* A session lasts: once minted it is one, once revoked it is revoked.
Lasts(a) == /\ session[a].issued => session'[a].issued
            /\ session'[a].issued => session[a].issued \/ attempt'[a].pc = "in"
            /\ session'[a].revoked => session'[a].issued
            /\ session[a].revoked => session'[a].revoked

\* Every session lasts, in any step.
LEMMA SessionsLast ==
  ASSUME TypeOK, SessionsAreMinted, RevocationsProceed, [Next]_vars
  PROVE  session' \in [Attempt -> AuthSession] /\ \A a \in Attempt : Lasts(a)
<1>. USE DEF Lasts, AuthSession
<1>1. session \in [Attempt -> AuthSession] /\ attempt \in [Attempt -> AttemptFrame]
      /\ \A a \in Attempt : session[a].revoked => session[a].issued
  BY DEF TypeOK, SessionsAreMinted
<1>2. CASE session' = session
  BY <1>1, <1>2
<1>3. ASSUME NEW a \in Attempt, Mint(a)
      PROVE  session' \in [Attempt -> AuthSession] /\ \A b \in Attempt : Lasts(b)
  <2>1. attempt[a].now \in Nat /\ attempt[a].now + Ttl \in Nat /\ attempt[a].pc = "mint"
    BY <1>1, <1>3, Parameters DEF AttemptFrame, Mint
  <2>2. ~session[a].issued /\ attempt'[a].pc = "in"
    BY <1>1, <1>3, <2>1 DEF SessionsAreMinted, Mint, Goto, AttemptFrame
  <2>. QED
    BY <1>1, <1>3, <2>1, <2>2 DEF Mint
<1>4. ASSUME NEW u \in Use, Touch(u)
      PROVE  session' \in [Attempt -> AuthSession] /\ \A b \in Attempt : Lasts(b)
  <2>1. use[u].now \in Nat /\ use[u].of \in Attempt
    BY DEF TypeOK, UseFrame
  <2>. QED
    BY <1>1, <1>4, <2>1 DEF Touch, Touched
<1>5. ASSUME NEW a \in Attempt, session[a].issued, Revoke(a)
      PROVE  session' \in [Attempt -> AuthSession] /\ \A b \in Attempt : Lasts(b)
  BY <1>1, <1>5 DEF Revoke
<1>6. ASSUME NEW d \in Update, RevokeOne(d)
      PROVE  session' = session \/ \E a \in Attempt : session[a].issued /\ Revoke(a)
  <2>1. \A a \in update[d].todo : a \in Attempt /\ session[a].issued
    BY DEF RevocationsProceed, TypeOK, UpdateFrame
  <2>. QED
    BY <1>6, <2>1 DEF RevokeOne
<1>. QED
  BY <1>2, <1>3, <1>4, <1>5, <1>6
     DEF Next, vars, LoginStep, CheckLockout, Verify, ReadCounter, WriteCounter,
         ClearFailures, Rehash, Begin, UpdateUser, ChangePassword, StartUpdate, PutUser,
         RevokeUserSessions, ReadUser, ReadSession, Logout, UnlockUser, Tick

\* An update that goes on: what it has found is revoked or left to do.
Proceeds(old, new) ==
  /\ new \in UpdateFrame
  /\ \/ new.scanned = old.scanned /\ new.todo = old.todo /\ new.pc # "done"
     \/ new.scanned = old.scanned /\ new.todo = old.todo /\ new.pc = old.pc
     \/ /\ new.scanned = new.todo /\ new.pc = "revoke"
        /\ \A a \in new.scanned : session'[a].issued
     \/ /\ new.scanned = old.scanned /\ new.pc = "revoke"
        /\ \E a \in old.todo : new.todo = old.todo \ {a} /\ session'[a].revoked
     \/ new.scanned = old.scanned /\ new.todo = old.todo /\ new.todo = {}

\* A step of an update moves that update.
LEMMA UpdateMoves ==
  ASSUME TypeOK, NEW d \in Update,
         UpdateUser(d) \/ ChangePassword(d) \/ PutUser(d) \/ RevokeUserSessions(d)
         \/ RevokeOne(d)
  PROVE  /\ Proceeds(update[d], update'[d])
         /\ update' = [update EXCEPT ![d] = update'[d]]
<1>. USE DEF Proceeds, UpdateFrame
<1>1. /\ update \in [Update -> UpdateFrame] /\ user \in UserRecord
      /\ session \in [Attempt -> AuthSession]
  BY DEF TypeOK
<1>2. ASSUME NEW new \in UserRecord, NEW keep \in SUBSET Attempt, StartUpdate(d, new, keep)
      PROVE  /\ Proceeds(update[d], update'[d])
             /\ update' = [update EXCEPT ![d] = update'[d]]
  BY <1>1, <1>2 DEF StartUpdate
<1>3. Disabled(user) \in UserRecord /\ NewPassword(user) \in UserRecord
  BY <1>1 DEF Disabled, NewPassword, UserRecord, Password
<1>4. CASE UpdateUser(d)
  BY <1>2, <1>3, <1>4 DEF UpdateUser
<1>5. CASE ChangePassword(d)
  BY <1>2, <1>3, <1>5 DEF ChangePassword
<1>6. CASE PutUser(d)
  BY <1>1, <1>6 DEF PutUser
<1>7. CASE RevokeUserSessions(d)
  <2>. DEFINE found == {a \in Attempt : session[a].issued /\ ~session[a].revoked}
                         \ update[d].keep
              new == [update[d] EXCEPT !.pc = "revoke", !.todo = found, !.scanned = found]
  <2>1. update' = [update EXCEPT ![d] = new] /\ session' = session
    BY <1>7 DEF RevokeUserSessions
  <2>2. found \in SUBSET Attempt /\ \A a \in found : session[a].issued
    OBVIOUS
  <2>3. new \in UpdateFrame /\ new.pc = "revoke" /\ new.todo = found /\ new.scanned = found
    BY <1>1, <2>2
  <2>. HIDE DEF new, found
  <2>. QED
    BY <1>1, <2>1, <2>2, <2>3
<1>8. CASE RevokeOne(d)
  <2>1. ASSUME NEW a \in update[d].todo, Revoke(a),
               update' = [update EXCEPT ![d].todo = Remaining(d, a)], update[d].pc = "revoke"
        PROVE  /\ Proceeds(update[d], update'[d])
               /\ update' = [update EXCEPT ![d] = update'[d]]
    <3>1. a \in Attempt /\ Remaining(d, a) \in SUBSET Attempt
      BY <1>1 DEF Remaining
    <3>2. session'[a].revoked
      BY <1>1, <2>1, <3>1 DEF Revoke, AuthSession
    <3>. QED
      BY <1>1, <2>1, <3>1, <3>2 DEF Remaining
  <2>2. ASSUME update[d].todo = {}, update' = [update EXCEPT ![d].pc = "done"]
        PROVE  /\ Proceeds(update[d], update'[d])
               /\ update' = [update EXCEPT ![d] = update'[d]]
    BY <1>1, <2>2
  <2>. QED
    BY <1>8, <2>1, <2>2 DEF RevokeOne
<1>. QED
  BY <1>4, <1>5, <1>6, <1>7, <1>8

\* Every update goes on, in any step.
LEMMA UpdatesProceed ==
  ASSUME TypeOK, [Next]_vars
  PROVE  /\ update' \in [Update -> UpdateFrame]
         /\ \A d \in Update : Proceeds(update[d], update'[d])
<1>0. update \in [Update -> UpdateFrame]
  BY DEF TypeOK
<1>1. CASE update' = update
  BY <1>0, <1>1 DEF Proceeds
<1>2. ASSUME NEW d \in Update,
             UpdateUser(d) \/ ChangePassword(d) \/ PutUser(d) \/ RevokeUserSessions(d)
             \/ RevokeOne(d)
      PROVE  /\ update' \in [Update -> UpdateFrame]
             /\ \A e \in Update : Proceeds(update[e], update'[e])
  <2>1. Proceeds(update[d], update'[d]) /\ update' = [update EXCEPT ![d] = update'[d]]
    BY <1>2, UpdateMoves
  <2>2. update'[d] \in UpdateFrame
    BY <2>1 DEF Proceeds
  <2>3. \A e \in Update \ {d} : update'[e] = update[e]
    BY <1>0, <2>1
  <2>. QED
    BY <1>0, <2>1, <2>2, <2>3 DEF Proceeds
<1>. QED
  BY <1>1, <1>2
     DEF Next, vars, frames, LoginStep, CheckLockout, Verify, ReadCounter, WriteCounter,
         ClearFailures, Rehash, Mint, Begin, ReadUser, Touch, ReadSession, Logout,
         UnlockUser, Tick

\* What a request has read is of its type.
LEMMA UseTypes ==
  ASSUME TypeOK, [Next]_vars
  PROVE  use' \in [Use -> UseFrame]
<1>. USE DEF UseFrame
<1>1. /\ use \in [Use -> UseFrame] /\ session \in [Attempt -> AuthSession] /\ clock \in Nat
  BY DEF TypeOK
<1>2. ASSUME NEW u \in Use, NEW a \in Attempt, ReadSession(u, a)
      PROVE  use' \in [Use -> UseFrame]
  BY <1>1, <1>2 DEF ReadSession
<1>3. ASSUME NEW u \in Use, ReadUser(u)
      PROVE  use' \in [Use -> UseFrame]
  BY <1>1, <1>3 DEF ReadUser
<1>4. ASSUME NEW u \in Use, Touch(u)
      PROVE  use' \in [Use -> UseFrame]
  BY <1>1, <1>4 DEF Touch
<1>. QED
  BY <1>1, <1>2, <1>3, <1>4
     DEF Next, vars, frames, LoginStep, CheckLockout, Verify, ReadCounter, WriteCounter,
         ClearFailures, Rehash, Mint, Begin, UpdateUser, ChangePassword, StartUpdate, PutUser,
         RevokeUserSessions, RevokeOne, Logout, UnlockUser, Tick

\* What is put as the user's record is one.
LEMMA UserTypes ==
  ASSUME TypeOK, [Next]_vars
  PROVE  user' \in UserRecord
<1>1. /\ user \in UserRecord /\ \A a \in Attempt : attempt[a].user \in UserRecord
      /\ \A d \in Update : update[d].user \in UserRecord
  BY DEF TypeOK, AttemptFrame, UpdateFrame
<1>2. \/ user' = user
      \/ \E a \in Attempt : user' = [attempt[a].user EXCEPT !.weak = FALSE]
      \/ \E d \in Update : user' = update[d].user
  BY DEF Next, vars, LoginStep, CheckLockout, Verify, ReadCounter, WriteCounter,
         ClearFailures, Rehash, Mint, Begin, UpdateUser, ChangePassword, StartUpdate, PutUser,
         RevokeUserSessions, RevokeOne, ReadUser, Touch, ReadSession, Logout, UnlockUser, Tick
<1>. QED
  BY <1>1, <1>2 DEF UserRecord

\* A failure that is charged.
LEMMA ChargesWhat ==
  ASSUME TypeOK, NEW a \in Attempt, Charges(a)
  PROVE  /\ attempt[a].counter \in Counter /\ attempt[a].now \in Nat
         /\ counter' = Failure(attempt[a].counter, attempt[a].now) /\ counter' \in Counter
         /\ misses' = IF Fresh(counter, attempt[a].now) THEN {a} ELSE misses \cup {a}
         /\ attempt[a].pc = "write" /\ attempt' = [attempt EXCEPT ![a].pc = "refused"]
         /\ counter.count = attempt[a].counter.count
         /\ counter.window = attempt[a].counter.window
<1>1. attempt[a].counter \in Counter /\ attempt[a].now \in Nat
  BY DEF TypeOK, AttemptFrame
<1>2. counter' = Failure(attempt[a].counter, attempt[a].now)
  BY DEF Charges, WriteCounter
<1>. QED
  BY <1>1, <1>2, FailureTypes DEF Charges, WriteCounter, CounterUnchanged, Goto

\* Types are kept.
LEMMA TypeStep ==
  ASSUME TypeOK, IsFiniteSet(admitted), SessionsAreMinted, RevocationsProceed, [Next]_vars
  PROVE  TypeOK'
<1>1. clock' \in 0 .. MaxTime
  BY TableSteps, Parameters DEF TypeOK
<1>2. /\ throttle' \in [Ip -> Bucket] /\ evicted' \subseteq Ip
      /\ (IsFiniteSet(Tracked))' /\ (Cardinality(Tracked) <= MaxTracked)'
  <2>1. CASE UNCHANGED table
    BY <2>1 DEF TypeOK, table, Tracked
  <2>2. ASSUME NEW ip \in Ip, Record(ip)
        PROVE  /\ throttle' \in [Ip -> Bucket] /\ evicted' \subseteq Ip
               /\ (IsFiniteSet(Tracked))' /\ (Cardinality(Tracked) <= MaxTracked)'
    BY <2>2, RecordTypes
  <2>. QED
    BY <2>1, <2>2, TableSteps, Zenon
<1>3. admitted' \subseteq Attempt
  BY TableSteps DEF TypeOK
<1>4. counter' \in Counter /\ misses' \subseteq Attempt
  <2>1. CASE UNCHANGED <<counter, misses>>
    BY <2>1 DEF TypeOK
  <2>2. CASE counter' = NoCounter /\ misses' = {}
    BY <2>2 DEF Counter, NoCounter
  <2>3. ASSUME NEW a \in Attempt, Charges(a)
        PROVE  counter' \in Counter /\ misses' \subseteq Attempt
    BY <2>3, ChargesWhat DEF TypeOK
  <2>. QED
    BY <2>1, <2>2, <2>3, CounterSteps
<1>5. attempt' \in [Attempt -> AttemptFrame]
  BY AttemptsGoOn
<1>6. session' \in [Attempt -> AuthSession]
  BY SessionsLast
<1>7. update' \in [Update -> UpdateFrame]
  BY UpdatesProceed
<1>. QED
  BY <1>1, <1>2, <1>3, <1>4, <1>5, <1>6, <1>7, UseTypes, UserTypes, Zenon DEF TypeOK

-----------------------------------------------------------------------------
(* The parts of the invariant are kept *)

\* The counter agrees with the failures, whoever reads and writes it in between.
LEMMA CountersStep ==
  ASSUME TypeOK, CountersAgree, [Next]_vars
  PROVE  CountersAgree'
<1>1. \A a \in Attempt : /\ attempt'[a].counter = attempt[a].counter
                            \/ attempt'[a].counter = counter
                         /\ attempt[a].pc = "refused" => attempt'[a].pc = "refused"
  BY AttemptsGoOn DEF GoesOn
<1>2. \A a \in Attempt : attempt'[a].counter.count = 0 => attempt'[a].counter = NoCounter
  BY <1>1 DEF CountersAgree
<1>3. CASE UNCHANGED <<counter, misses>>
  BY <1>1, <1>2, <1>3 DEF CountersAgree
<1>4. CASE counter' = NoCounter /\ misses' = {}
  BY <1>2, <1>4, FS_EmptySet, Parameters DEF CountersAgree, NoCounter
<1>5. ASSUME NEW a \in Attempt, Charges(a)
      PROVE  CountersAgree'
  <2>. DEFINE old == attempt[a].counter
              now == attempt[a].now
  <2>1. /\ old \in Counter /\ now \in Nat /\ counter' = Failure(old, now)
        /\ misses' = IF Fresh(counter, now) THEN {a} ELSE misses \cup {a}
        /\ attempt[a].pc = "write" /\ attempt'[a].pc = "refused"
        /\ counter.count = old.count /\ counter.window = old.window
    BY <1>5, ChargesWhat DEF TypeOK, AttemptFrame
  <2>2. (Fresh(counter, now) <=> Fresh(old, now))
    BY <2>1 DEF CountersAgree, Fresh, NoCounter
  <2>3. a \notin misses
    BY <2>1 DEF CountersAgree
  <2>4. /\ counter'.count = IF Fresh(old, now) THEN 1 ELSE old.count + 1
        /\ counter'.count > 0
        /\ counter'.count >= AccountLimit => counter'.locked > 0
    BY <2>1, FailureTypes
  <2>5. IsFiniteSet(misses') /\ Cardinality(misses') = counter'.count
    <3>1. CASE Fresh(counter, now)
      BY <2>1, <2>2, <2>4, <3>1, FS_Singleton
    <3>2. CASE ~Fresh(counter, now)
      <4>1. IsFiniteSet(misses) /\ Cardinality(misses) = old.count
        BY <2>1 DEF CountersAgree
      <4>2. IsFiniteSet(misses \cup {a}) /\ Cardinality(misses \cup {a}) = old.count + 1
        BY <2>3, <4>1, FS_AddElement
      <4>. QED
        BY <2>1, <2>2, <2>4, <3>2, <4>2
    <3>. QED
      BY <3>1, <3>2
  <2>6. \A b \in Attempt : b \in misses' => attempt'[b].pc = "refused"
    BY <1>1, <2>1 DEF CountersAgree
  <2>7. ~(counter'.count = 0)
    BY <2>4
  <2>. HIDE DEF old, now
  <2>. QED
    BY <1>2, <2>4, <2>5, <2>6, <2>7 DEF CountersAgree
<1>. QED
  BY <1>3, <1>4, <1>5, CounterSteps

\* A session is of an attempt that is in.
LEMMA SessionsStep ==
  ASSUME TypeOK, SessionsAreMinted, RevocationsProceed, [Next]_vars
  PROVE  SessionsAreMinted'
<1>1. \A a \in Attempt : Lasts(a) /\ GoesOn(attempt[a], attempt'[a])
  BY SessionsLast, AttemptsGoOn
<1>2. \A a \in Attempt : attempt[a].pc = "in" => attempt'[a].pc = "in"
  BY <1>1 DEF GoesOn
<1>. QED
  BY <1>1, <1>2 DEF SessionsAreMinted, Lasts

\* What a revocation found stays found.
LEMMA RevocationsStep ==
  ASSUME TypeOK, SessionsAreMinted, RevocationsProceed, [Next]_vars
  PROVE  RevocationsProceed'
<1>1. \A a \in Attempt : Lasts(a)
  BY SessionsLast
<1>2. update' \in [Update -> UpdateFrame]
  BY UpdatesProceed
<1>3. ASSUME NEW d \in Update
      PROVE  /\ \A a \in update'[d].scanned :
                  session'[a].issued /\ (session'[a].revoked \/ a \in update'[d].todo)
             /\ update'[d].todo \subseteq update'[d].scanned
             /\ update'[d].pc = "done" => update'[d].todo = {}
  <2>1. /\ \A a \in update[d].scanned :
             session[a].issued /\ (session[a].revoked \/ a \in update[d].todo)
        /\ update[d].todo \subseteq update[d].scanned /\ update[d].scanned \subseteq Attempt
        /\ update[d].pc = "done" => update[d].todo = {}
    BY DEF RevocationsProceed, TypeOK, UpdateFrame
  <2>2. Proceeds(update[d], update'[d])
    BY UpdatesProceed
  <2>. QED
    BY <1>1, <2>1, <2>2 DEF Proceeds, Lasts
<1>. QED
  BY <1>3 DEF RevocationsProceed

\* What is counted of an address.
IsCounted(ip) == IF throttle[ip] = NoBucket THEN From(ip) = {}
                 ELSE IpWindow > 0 => Counts(ip)

\* The numbers in the counts are numbers.
LEMMA CountTypes ==
  ASSUME TypeOK, NEW ip \in Ip
  PROVE  /\ throttle[ip] \in Bucket /\ throttle[ip].started \in Nat
         /\ throttle[ip].count \in Nat /\ clock \in Nat
         /\ From(ip) \subseteq Attempt /\ \A a \in From(ip) : attempt[a].now \in Nat
BY DEF TypeOK, AttemptFrame, Bucket, From

\* An address of which no attempt is admitted stays counted as time passes.
LEMMA StaysCounted ==
  ASSUME TypeOK, NEW ip \in Ip, IsCounted(ip), throttle'[ip] = throttle[ip],
         clock' \in Nat, clock' >= clock,
         \A a \in Attempt : (a \in admitted /\ attempt[a].ip = ip
                               <=> a \in admitted' /\ attempt'[a].ip = ip),
         \A a \in admitted : attempt'[a].now = attempt[a].now,
         admitted \subseteq Attempt, admitted' \subseteq Attempt
  PROVE  IsCounted(ip)'
<1>1. From(ip)' = From(ip)
  BY DEF From
<1>2. Current(ip)' = Current(ip) /\ Previous(ip)' = Previous(ip)
  <2>1. \A a \in From(ip) : attempt'[a].now = attempt[a].now
    BY DEF From
  <2>. QED
    BY <1>1, <2>1 DEF Current, Previous
<1>3. \A a \in Current(ip) : attempt'[a].now = attempt[a].now
  BY DEF Current, From
<1>4. Counts(ip) => Counts(ip)'
  BY <1>2, <1>3, CountTypes DEF Counts
<1>. QED
  BY <1>1, <1>4 DEF IsCounted

\* What an attempt that is admitted is, and that the others are what they were.
LEMMA BeginsWhat ==
  ASSUME TypeOK, AddressesAreCounted, NEW a \in Attempt, NEW ip \in Ip, NEW p \in Password,
         Begin(a, ip, p), Allow(ip)
  PROVE  /\ a \notin admitted /\ attempt'[a].pc = "lockout"
         /\ attempt'[a].ip = ip /\ attempt'[a].now = clock
         /\ \A b \in Attempt \ {a} : attempt'[b] = attempt[b]
BY DEF Begin, AddressesAreCounted, TypeOK, AttemptFrame

\* An address of which an attempt is admitted is counted again, within its window or
\* at the start of a new one.
LEMMA CountsOneMore ==
  ASSUME TypeOK, AddressesAreCounted, NEW a \in Attempt, NEW ip \in Ip, NEW p \in Password,
         Begin(a, ip, p), Allow(ip), Record(ip), admitted' = admitted \cup {a},
         clock' = clock, ip \notin evicted
  PROVE  IsCounted(ip)'
<1>. DEFINE old == throttle[ip]
<1>1. /\ a \notin admitted /\ attempt'[a].ip = ip /\ attempt'[a].now = clock
      /\ \A b \in Attempt \ {a} : attempt'[b] = attempt[b]
  BY BeginsWhat
<1>2. admitted \subseteq Attempt /\ IsFiniteSet(admitted) /\ IsCounted(ip)
  BY DEF TypeOK, AddressesAreCounted, IsCounted
<1>3. /\ throttle'[ip] # NoBucket
      /\ throttle'[ip].count = IF Open(ip) THEN old.count + 1 ELSE 1
      /\ throttle'[ip].started = IF Open(ip) THEN old.started ELSE clock
  <2>1. throttle'[ip] = Charged(ip)
    BY <1>2, RecordTypes
  <2>. QED
    BY <1>2, <2>1, ChargedTypes
<1>4. /\ clock \in Nat /\ old.started \in Nat /\ old.count \in Nat
      /\ From(ip) \subseteq Attempt /\ \A b \in From(ip) : attempt[b].now \in Nat
  BY CountTypes
<1>5. /\ From(ip)' = From(ip) \cup {a} /\ a \notin From(ip)
      /\ \A b \in From(ip) : attempt'[b] = attempt[b]
  BY <1>1, <1>2 DEF From
<1>6. IsFiniteSet(From(ip)) /\ IsFiniteSet(Current(ip))
  <2>1. From(ip) \in SUBSET admitted
    BY DEF From
  <2>2. IsFiniteSet(From(ip))
    BY <1>2, <2>1, FS_Subset
  <2>3. Current(ip) \in SUBSET From(ip)
    BY DEF Current
  <2>. QED
    BY <2>2, <2>3, FS_Subset
<1>7. IpLimit \in Nat /\ IpLimit > 0 /\ IpWindow \in Nat
  BY Parameters
<1>. SUFFICES ASSUME IpWindow > 0 PROVE Counts(ip)'
  BY <1>3 DEF IsCounted
<1>8. CASE Open(ip)
  <2>1. Counts(ip) /\ throttle'[ip].started = old.started /\ old.started <= clock
    BY <1>2, <1>3, <1>8 DEF Open, IsCounted, Counts
  <2>2. Current(ip)' = Current(ip) \cup {a} /\ a \notin Current(ip)
    BY <1>1, <1>4, <1>5, <2>1 DEF Current
  <2>3. Previous(ip)' = Previous(ip)
    BY <1>1, <1>4, <1>5, <2>1 DEF Previous
  <2>4. Cardinality(Current(ip)') = old.count + 1
    BY <1>6, <2>1, <2>2, FS_AddElement DEF Counts
  <2>5. old.count + 1 <= IpLimit /\ clock < old.started + IpWindow
    BY <1>4, <1>7, <1>8 DEF Allow, Open
  <2>6. /\ \E b \in Current(ip) : attempt[b].now = old.started
        /\ \A b \in Current(ip) : attempt[b].now < old.started + IpWindow
    BY <2>1 DEF Counts
  <2>7. \A b \in Current(ip) : attempt'[b] = attempt[b]
    BY <1>5 DEF Current
  <2>8. /\ \E b \in Current(ip)' : attempt'[b].now = old.started
        /\ \A b \in Current(ip)' : attempt'[b].now < old.started + IpWindow
    BY <1>1, <2>2, <2>5, <2>6, <2>7
  <2>9. Cardinality(Previous(ip)') < IpLimit
    BY <2>1, <2>3 DEF Counts
  <2>. QED
    BY <1>3, <1>8, <2>1, <2>4, <2>5, <2>8, <2>9 DEF Counts
<1>9. CASE ~Open(ip)
  <2>1. throttle'[ip].started = clock /\ throttle'[ip].count = 1
    BY <1>3, <1>9
  <2>2. \A b \in From(ip) : attempt[b].now < clock
    BY <1>2, <1>4, <1>7, <1>9 DEF Open, IsCounted, Counts, Current
  <2>3. Current(ip)' = {a}
    BY <1>1, <1>4, <1>5, <2>1, <2>2 DEF Current
  <2>4. Cardinality(Previous(ip)') < IpLimit
    <3>1. Previous(ip)' = {b \in From(ip) : attempt[b].now > clock - IpWindow}
      BY <1>1, <1>4, <1>5, <2>1, <2>2 DEF Previous
    <3>2. CASE old = NoBucket
      <4>1. Previous(ip)' = {}
        BY <1>2, <3>1, <3>2 DEF IsCounted
      <4>. QED
        BY <1>7, <4>1, FS_EmptySet
    <3>3. CASE old # NoBucket
      <4>1. Counts(ip) /\ clock - IpWindow >= old.started
        BY <1>2, <1>4, <1>7, <1>9, <3>3 DEF IsCounted, Open
      <4>2. PICK first \in Current(ip) : attempt[first].now = old.started
        BY <4>1 DEF Counts
      <4>3. Previous(ip)' \in SUBSET (Current(ip) \ {first})
        BY <1>4, <1>7, <3>1, <4>1, <4>2 DEF Current
      <4>4. /\ IsFiniteSet(Current(ip) \ {first})
            /\ Cardinality(Current(ip) \ {first}) = old.count - 1
        BY <1>6, <4>1, <4>2, FS_RemoveElement DEF Counts
      <4>5. /\ IsFiniteSet(Previous(ip)')
            /\ Cardinality(Previous(ip)') <= Cardinality(Current(ip) \ {first})
        BY <4>3, <4>4, FS_Subset
      <4>6. Cardinality(Previous(ip)') \in Nat
        BY <4>5, FS_CardinalityType
      <4>. QED
        BY <1>4, <1>7, <4>1, <4>4, <4>5, <4>6 DEF Counts
    <3>. QED
      BY <3>2, <3>3
  <2>5. Cardinality(Current(ip)') = 1
    BY <2>3, FS_Singleton
  <2>. QED
    BY <1>1, <1>4, <1>7, <2>1, <2>3, <2>4, <2>5 DEF Counts
<1>. QED
  BY <1>8, <1>9

\* Addresses stay counted, whoever else is admitted and loses or takes a bucket.
LEMMA AddressesStep ==
  ASSUME TypeOK, AddressesAreCounted, SessionsAreMinted, RevocationsProceed, [Next]_vars
  PROVE  AddressesAreCounted'
<1>0. TypeOK'
  BY TypeStep DEF AddressesAreCounted
<1>1. /\ IsFiniteSet(admitted) /\ admitted \subseteq Attempt
      /\ \A a \in admitted : attempt[a].pc # "idle" /\ attempt[a].now <= clock
      /\ \A ip \in Ip \ evicted : IsCounted(ip)
  BY DEF AddressesAreCounted, TypeOK, IsCounted
<1>2. \A a \in admitted : /\ attempt'[a].pc # "idle" /\ attempt'[a].ip = attempt[a].ip
                          /\ attempt'[a].now = attempt[a].now
  BY <1>1, AttemptsGoOn DEF GoesOn
<1>3. clock \in Nat /\ clock' \in Nat /\ clock' >= clock
      /\ \A a \in Attempt : attempt[a].now \in Nat
  <2>1. clock' = clock \/ clock' = clock + 1
    BY TableSteps
  <2>. QED
    BY <2>1 DEF TypeOK, AttemptFrame
<1>4. CASE UNCHANGED <<table, admitted>>
  <2>1. throttle' = throttle /\ evicted' = evicted /\ admitted' = admitted
    BY <1>4 DEF table
  <2>2. ASSUME NEW ip \in Ip \ evicted' PROVE IsCounted(ip)'
    BY <1>1, <1>2, <1>3, <2>1, StaysCounted
  <2>. QED
    BY <1>1, <1>2, <1>3, <2>1, <2>2 DEF AddressesAreCounted, IsCounted
<1>5. ASSUME NEW a \in Attempt, NEW ip \in Ip, NEW p \in Password,
             Begin(a, ip, p), Allow(ip), Record(ip), admitted' = admitted \cup {a},
             clock' = clock
      PROVE  AddressesAreCounted'
  <2>1. /\ a \notin admitted /\ attempt'[a].pc = "lockout" /\ attempt'[a].ip = ip
        /\ attempt'[a].now = clock
    BY <1>5, BeginsWhat
  <2>2. IsFiniteSet(admitted')
    BY <1>1, <1>5, FS_AddElement
  <2>3. /\ evicted \subseteq evicted'
        /\ \A o \in Ip \ {ip} : o \in evicted' \/ throttle'[o] = throttle[o]
    BY <1>1, <1>5, RecordTypes
  <2>4. ASSUME NEW o \in Ip \ evicted' PROVE IsCounted(o)'
    <3>1. CASE o = ip
      BY <1>5, <2>3, <3>1, CountsOneMore
    <3>2. CASE o # ip
      <4>1. throttle'[o] = throttle[o] /\ IsCounted(o)
        BY <1>1, <2>3, <3>2
      <4>2. \A b \in Attempt : (b \in admitted /\ attempt[b].ip = o
                                  <=> b \in admitted' /\ attempt'[b].ip = o)
        BY <1>2, <1>5, <2>1, <3>2
      <4>3. admitted' \subseteq Attempt
        BY <1>1, <1>5
      <4>. QED
        BY <1>1, <1>2, <1>3, <4>1, <4>2, <4>3, StaysCounted
    <3>. QED
      BY <3>1, <3>2
  <2>5. \A b \in admitted' : attempt'[b].pc # "idle" /\ attempt'[b].now <= clock'
    BY <1>1, <1>2, <1>3, <1>5, <2>1
  <2>. QED
    BY <2>2, <2>4, <2>5 DEF AddressesAreCounted, IsCounted
<1>. QED
  BY <1>4, <1>5, TableSteps

-----------------------------------------------------------------------------
(* Invariance, and what follows from it *)

\* At first nothing has happened.
LEMMA GuardedInit == Init => Guarded
<1>. SUFFICES ASSUME Init PROVE Guarded
  OBVIOUS
<1>1. TypeOK
  <2>1. Tracked = {}
    BY DEF Init, Tracked
  <2>2. IsFiniteSet(Tracked) /\ Cardinality(Tracked) <= MaxTracked
    BY <2>1, FS_EmptySet, Parameters
  <2>3. user \in UserRecord /\ counter \in Counter /\ clock \in 0 .. MaxTime
    <3>1. user \in UserRecord
      <4>1. user \in TheUsers
        BY DEF Init
      <4>. QED
        BY <4>1 DEF TheUsers, UserRecord, Password
    <3>2. counter \in Counter
      BY DEF Init, Counter, NoCounter
    <3>3. clock \in 0 .. MaxTime
      BY Parameters DEF Init
    <3>. QED
      BY <3>1, <3>2, <3>3
  <2>4. attempt \in [Attempt -> AttemptFrame]
    BY <2>3 DEF Init, AttemptFrame, Password, Counter, NoCounter
  <2>5. update \in [Update -> UpdateFrame]
    BY <2>3 DEF Init, UpdateFrame
  <2>6. NoSession \in AuthSession
    BY DEF NoSession, AuthSession
  <2>7. use \in [Use -> UseFrame] /\ session \in [Attempt -> AuthSession]
    BY <2>6 DEF Init, UseFrame
  <2>. QED
    BY <2>2, <2>3, <2>4, <2>5, <2>7 DEF Init, TypeOK, Bucket, NoBucket
<1>2. CountersAgree
  BY FS_EmptySet, Parameters DEF Init, CountersAgree, NoCounter
<1>3. AddressesAreCounted
  BY FS_EmptySet DEF Init, AddressesAreCounted, From
<1>4. SessionsAreMinted
  BY DEF Init, SessionsAreMinted, NoSession
<1>5. RevocationsProceed
  BY DEF Init, RevocationsProceed
<1>. QED
  BY <1>1, <1>2, <1>3, <1>4, <1>5 DEF Guarded

\* No step breaks the invariant.
LEMMA GuardedStep == Guarded /\ [Next]_vars => Guarded'
<1>. SUFFICES ASSUME Guarded, [Next]_vars PROVE Guarded'
  OBVIOUS
<1>1. /\ TypeOK /\ CountersAgree /\ AddressesAreCounted /\ SessionsAreMinted
      /\ RevocationsProceed
  BY DEF Guarded
<1>2. IsFiniteSet(admitted)
  BY <1>1 DEF AddressesAreCounted
<1>3. TypeOK'
  BY <1>1, <1>2, TypeStep
<1>4. CountersAgree'
  BY <1>1, CountersStep
<1>5. AddressesAreCounted'
  BY <1>1, AddressesStep
<1>6. SessionsAreMinted' /\ RevocationsProceed'
  BY <1>1, SessionsStep, RevocationsStep
<1>. QED
  BY <1>3, <1>4, <1>5, <1>6 DEF Guarded

\* The throttle, the counter, the sessions and the revocations agree with what the
\* attempts and the updates have done, in every reachable state (throttle, durable
\* counter, SessionService and the user routes).
THEOREM GuardedHolds == Spec => []Guarded
<1>1. Init => Guarded
  BY GuardedInit
<1>2. Guarded /\ [Next]_vars => Guarded'
  BY GuardedStep
<1>. QED
  BY <1>1, <1>2, PTL DEF Spec

\* record_login_failure: however many logins fail and clear at once, the counter is of
\* all failures since it was cleared or its window began, and locks at the limit.
THEOREM FailuresCounted == Spec => []FailuresAreCounted
<1>1. Guarded => FailuresAreCounted
  BY DEF Guarded, CountersAgree, FailuresAreCounted
<1>. QED
  BY <1>1, GuardedHolds, PTL

\* LoginThrottle: an address that never lost its bucket gets less than twice the limit
\* through in any span as long as a window, for any limit, window and table size.
THEOREM AddressThrottled == Spec => []AddressIsThrottled
<1>1. ASSUME Guarded PROVE AddressIsThrottled
  <2>. SUFFICES ASSUME NEW ip \in Ip \ evicted
                PROVE  Cardinality({a \in admitted : /\ attempt[a].ip = ip
                                      /\ attempt[a].now > clock - IpWindow}) < 2 * IpLimit
    BY DEF AddressIsThrottled
  <2>. DEFINE recent == {a \in admitted : /\ attempt[a].ip = ip
                                          /\ attempt[a].now > clock - IpWindow}
  <2>1. /\ TypeOK /\ IsFiniteSet(admitted) /\ \A a \in admitted : attempt[a].now <= clock
        /\ IsCounted(ip)
    BY <1>1 DEF Guarded, AddressesAreCounted, IsCounted
  <2>2. /\ clock \in Nat /\ throttle[ip].started \in Nat /\ throttle[ip].count \in Nat
        /\ \A a \in From(ip) : attempt[a].now \in Nat
        /\ IpLimit \in Nat /\ IpLimit > 0 /\ IpWindow \in Nat
    BY <2>1, CountTypes, Parameters
  <2>3. recent \subseteq From(ip)
    BY DEF From
  <2>4. CASE throttle[ip] = NoBucket \/ IpWindow = 0
    <3>1. recent = {}
      BY <2>1, <2>2, <2>3, <2>4 DEF IsCounted, From
    <3>2. Cardinality(recent) = 0
      BY <3>1, FS_EmptySet
    <3>. HIDE DEF recent
    <3>3. Cardinality(recent) < 2 * IpLimit
      BY <2>2, <3>2
    <3>. QED
      BY <3>3 DEF recent
  <2>5. CASE throttle[ip] # NoBucket /\ IpWindow > 0
    <3>1. Counts(ip)
      BY <2>1, <2>5 DEF IsCounted
    <3>2. recent \in SUBSET (Current(ip) \cup Previous(ip))
      BY <2>2, <2>3, <3>1 DEF Current, Previous, Counts
    <3>3. IsFiniteSet(Current(ip)) /\ IsFiniteSet(Previous(ip))
      <4>1. Current(ip) \in SUBSET admitted /\ Previous(ip) \in SUBSET admitted
        BY DEF Current, Previous, From
      <4>. QED
        BY <2>1, <4>1, FS_Subset
    <3>4. /\ IsFiniteSet(Current(ip) \cup Previous(ip))
          /\ Cardinality(Current(ip) \cup Previous(ip)) =
               Cardinality(Current(ip)) + Cardinality(Previous(ip))
               - Cardinality(Current(ip) \cap Previous(ip))
      BY <3>3, FS_Union
    <3>5. Current(ip) \cap Previous(ip) = {}
      BY <2>2 DEF Current, Previous, From
    <3>6. /\ IsFiniteSet(recent)
          /\ Cardinality(recent) <= Cardinality(Current(ip) \cup Previous(ip))
      <4>. HIDE DEF recent
      <4>. QED
        BY <3>2, <3>4, FS_Subset
    <3>7. /\ Cardinality(recent) \in Nat /\ Cardinality(Previous(ip)) \in Nat
          /\ Cardinality(Current(ip) \cap Previous(ip)) = 0
          /\ Cardinality(Current(ip)) = throttle[ip].count
          /\ throttle[ip].count <= IpLimit /\ Cardinality(Previous(ip)) < IpLimit
      <4>. HIDE DEF recent
      <4>. QED
        BY <3>1, <3>3, <3>5, <3>6, FS_CardinalityType, FS_EmptySet DEF Counts
    <3>. HIDE DEF recent
    <3>8. Cardinality(recent) < 2 * IpLimit
      BY <2>2, <3>4, <3>6, <3>7
    <3>. QED
      BY <3>8 DEF recent
  <2>6. IpWindow = 0 \/ IpWindow > 0
    BY <2>2
  <2>. QED
    BY <2>4, <2>5, <2>6
<1>. QED
  BY <1>1, GuardedHolds, PTL

\* revoke_user_sessions: a revocation that is done has revoked what it found, though
\* others revoke, touch and log out of the same sessions.
THEOREM RevocationComplete == Spec => []RevocationIsComplete
<1>1. Guarded => RevocationIsComplete
  BY DEF Guarded, RevocationsProceed, RevocationIsComplete
<1>. QED
  BY <1>1, GuardedHolds, PTL

\* touch_auth_session: no request, login or update makes a revoked session live again.
THEOREM RevokedStays == Spec => RevokedStaysRevoked
<1>1. Guarded /\ [Next]_vars
        => [\A a \in Attempt : session[a].revoked => session'[a].revoked]_vars
  <2>. SUFFICES ASSUME Guarded, [Next]_vars
                PROVE  \A a \in Attempt : session[a].revoked => session'[a].revoked
    OBVIOUS
  <2>1. \A a \in Attempt : Lasts(a)
    BY SessionsLast DEF Guarded
  <2>. QED
    BY <2>1 DEF Lasts
<1>. QED
  BY <1>1, GuardedHolds, PTL DEF Spec, RevokedStaysRevoked

-----------------------------------------------------------------------------
(* Keys and accounts *)

\* What a job is by where it stands.
LEMMA JobTypes ==
  ASSUME Keys!TypeOK, NEW g \in Gateway
  PROVE  /\ job[g] \in Keys!Job
         /\ job[g].pc \in {"persist", "return"} => job[g] \in Keys!KeyJob
         /\ job[g].pc = "create" => job[g] \in Keys!AccountJob
         /\ job[g].pc = "mark" => job[g] = [pc |-> "mark"] \/ job[g] \in Keys!KeyJob
         /\ job[g] \in Keys!KeyJob => "key" \in DOMAIN job[g] /\ job[g].key \in Key
BY DEF Keys!TypeOK, Keys!Job, Keys!Idle, Keys!KeyJob, Keys!AccountJob

\* A gateway turns to another job: keys stay stored if the one the job is about is.
LEMMA JobsKept ==
  ASSUME Keys!Kept, NEW g \in Gateway, NEW new \in Keys!Job,
         job' = [job EXCEPT ![g] = new], handed' \subseteq stored', stored \subseteq stored',
         new.pc \in {"mark", "return"} /\ "key" \in DOMAIN new => new.key \in stored'
  PROVE  job' \in [Gateway -> Keys!Job] /\ Keys!KeysAreStored'
<1>1. job' \in [Gateway -> Keys!Job]
  BY DEF Keys!Kept, Keys!TypeOK
<1>2. \A h \in Gateway : job'[h] = IF h = g THEN new ELSE job[h]
  BY DEF Keys!Kept, Keys!TypeOK
<1>3. \A h \in Gateway : job[h].pc \in {"mark", "return"} /\ "key" \in DOMAIN job[h]
                            => job[h].key \in stored
  BY DEF Keys!Kept, Keys!KeysAreStored
<1>. QED
  BY <1>1, <1>2, <1>3 DEF Keys!KeysAreStored

\* A step that leaves the accounts alone and keys stored.
LEMMA KeysMove ==
  ASSUME Keys!Kept, cache' \in [Gateway -> SUBSET Key], stored' \subseteq Key,
         handed' \subseteq Key, marker' \in BOOLEAN, email' = email, index' = index,
         job' \in [Gateway -> Keys!Job], Keys!KeysAreStored'
  PROVE  Keys!Kept'
BY DEF Keys!Kept, Keys!TypeOK, Keys!OneAccountPerEmail

\* An account is created with the entry of its address.
LEMMA AccountsStep ==
  ASSUME Keys!Kept, NEW g \in Gateway, Keys!CreateUser(g)
  PROVE  Keys!Kept'
<1>. DEFINE m == job[g].email
            u == job[g].account
<1>1. /\ Keys!TypeOK /\ job[g].pc = "create" /\ job[g] \in Keys!AccountJob
      /\ m \in Email /\ u \in Account
  BY JobTypes DEF Keys!CreateUser, Keys!AccountJob, Keys!Kept
<1>2. Keys!Idle \in Keys!Job /\ [pc |-> "mark"] \in Keys!Job
  BY DEF Keys!Job
<1>3. /\ Keys!Idle.pc = "idle" /\ ~("key" \in DOMAIN [pc |-> "mark"])
  BY DEF Keys!Idle
<1>4. cache' = cache /\ stored' = stored /\ handed' = handed /\ marker' = marker
  BY DEF Keys!CreateUser, Keys!keys
<1>5. handed \subseteq stored
  BY DEF Keys!Kept, Keys!KeysAreStored
<1>6. CASE Keys!IsNew(m, u)
  <2>1. /\ email' = [email EXCEPT ![u] = m] /\ index' = [index EXCEPT ![m] = u]
        /\ job' = [job EXCEPT ![g] = [pc |-> "mark"]]
        /\ email[u] = NoAccount /\ index[m] = NoAccount
    BY <1>6 DEF Keys!CreateUser, Keys!IsNew
  <2>2. job' \in [Gateway -> Keys!Job] /\ Keys!KeysAreStored'
    BY <1>2, <1>3, <1>4, <1>5, <2>1, JobsKept
  <2>3. /\ email \in [Account -> Email \cup {NoAccount}]
        /\ index \in [Email -> Account \cup {NoAccount}]
        /\ \A v \in Account : email[v] # NoAccount => index[email[v]] = v
    BY DEF Keys!Kept, Keys!TypeOK, Keys!OneAccountPerEmail
  <2>4. ASSUME NEW v \in Account, email'[v] # NoAccount PROVE index'[email'[v]] = v
    <3>1. CASE v = u
      BY <1>1, <2>1, <2>3, <3>1
    <3>2. CASE v # u
      <4>1. email'[v] = email[v] /\ email[v] \in Email /\ index[email[v]] = v
        BY <1>1, <2>1, <2>3, <2>4, <3>2
      <4>2. email[v] # m
        BY <2>1, <4>1, NoAccountAssumption
      <4>. QED
        BY <2>1, <2>3, <4>1, <4>2
    <3>. QED
      BY <3>1, <3>2
  <2>5. Keys!OneAccountPerEmail'
    BY <2>4 DEF Keys!OneAccountPerEmail
  <2>6. /\ email' \in [Account -> Email \cup {NoAccount}]
        /\ index' \in [Email -> Account \cup {NoAccount}]
    BY <1>1, <2>1, <2>3
  <2>. QED
    BY <1>1, <1>4, <2>2, <2>5, <2>6 DEF Keys!Kept, Keys!TypeOK
<1>7. CASE ~Keys!IsNew(m, u)
  <2>1. job' = [job EXCEPT ![g] = Keys!Idle] /\ email' = email /\ index' = index
    BY <1>7 DEF Keys!CreateUser, Keys!accounts
  <2>2. job' \in [Gateway -> Keys!Job] /\ Keys!KeysAreStored'
    BY <1>2, <1>3, <1>4, <1>5, <2>1, JobsKept
  <2>. QED
    BY <1>1, <1>4, <2>1, <2>2, KeysMove DEF Keys!TypeOK
<1>. QED
  BY <1>6, <1>7

\* No step of the gateways loses a key or gives an address to two accounts.
LEMMA KeptStep == Keys!Kept /\ Keys!Next => Keys!Kept'
<1>. SUFFICES ASSUME Keys!Kept, Keys!Next PROVE Keys!Kept'
  OBVIOUS
<1>1. /\ cache \in [Gateway -> SUBSET Key] /\ stored \subseteq Key /\ handed \subseteq Key
      /\ marker \in BOOLEAN /\ job \in [Gateway -> Keys!Job]
      /\ handed \subseteq stored /\ Keys!TypeOK
      /\ \A g \in Gateway : job[g].pc \in {"mark", "return"} /\ "key" \in DOMAIN job[g]
                              => job[g].key \in stored
  BY DEF Keys!Kept, Keys!TypeOK, Keys!KeysAreStored
<1>2. Keys!Idle \in Keys!Job /\ Keys!Idle.pc = "idle"
  BY DEF Keys!Job, Keys!Idle
<1>3. ASSUME NEW g \in Gateway, NEW k \in Key, Keys!Mint(g, k) PROVE Keys!Kept'
  <2>. DEFINE new == [pc |-> "persist", key |-> k]
  <2>1. /\ cache' = [cache EXCEPT ![g] = @ \cup {k}] /\ job' = [job EXCEPT ![g] = new]
        /\ stored' = stored /\ handed' = handed /\ marker' = marker
        /\ email' = email /\ index' = index
    BY <1>3 DEF Keys!Mint, Keys!accounts
  <2>2. new \in Keys!Job /\ ~(new.pc \in {"mark", "return"})
    BY DEF Keys!Job, Keys!KeyJob
  <2>3. job' \in [Gateway -> Keys!Job] /\ Keys!KeysAreStored'
    <3>. HIDE DEF new
    <3>. QED
      BY <1>1, <2>1, <2>2, JobsKept
  <2>. QED
    BY <1>1, <2>1, <2>3, KeysMove
<1>4. ASSUME NEW g \in Gateway, Keys!Persist(g) PROVE Keys!Kept'
  <2>. DEFINE new == [job[g] EXCEPT !.pc = "mark"]
  <2>1. /\ job' = [job EXCEPT ![g] = new] /\ stored' = stored \cup {job[g].key}
        /\ cache' = cache /\ handed' = handed /\ marker' = marker
        /\ email' = email /\ index' = index /\ job[g].pc = "persist"
    BY <1>4 DEF Keys!Persist, Keys!accounts
  <2>2. job[g] \in Keys!KeyJob
    BY <1>1, <2>1, JobTypes
  <2>3. new \in Keys!KeyJob /\ new.key = job[g].key /\ job[g].key \in Key
    BY <2>2 DEF Keys!KeyJob
  <2>4. new \in Keys!Job
    BY <2>3 DEF Keys!Job
  <2>5. job' \in [Gateway -> Keys!Job] /\ Keys!KeysAreStored'
    <3>. HIDE DEF new
    <3>. QED
      BY <1>1, <2>1, <2>3, <2>4, JobsKept
  <2>. QED
    BY <1>1, <2>1, <2>3, <2>5, KeysMove
<1>5. ASSUME NEW g \in Gateway, Keys!MarkCredentials(g) PROVE Keys!Kept'
  <2>. DEFINE new == IF "key" \in DOMAIN job[g] THEN [job[g] EXCEPT !.pc = "return"]
                     ELSE Keys!Idle
  <2>1. /\ job' = [job EXCEPT ![g] = new] /\ stored' = stored
        /\ cache' = cache /\ handed' = handed /\ marker' = TRUE
        /\ email' = email /\ index' = index /\ job[g].pc = "mark"
    BY <1>1, <1>5 DEF Keys!MarkCredentials, Keys!accounts, Keys!keys
  <2>2. /\ new \in Keys!Job
        /\ new.pc \in {"mark", "return"} /\ "key" \in DOMAIN new => new.key \in stored
    <3>1. CASE "key" \in DOMAIN job[g]
      <4>1. job[g] \in Keys!KeyJob /\ job[g].key \in stored
        BY <1>1, <2>1, <3>1, JobTypes
      <4>2. new \in Keys!KeyJob /\ new.key = job[g].key
        BY <3>1, <4>1 DEF Keys!KeyJob
      <4>. QED
        BY <4>1, <4>2 DEF Keys!Job
    <3>2. CASE ~("key" \in DOMAIN job[g])
      BY <1>2, <3>2
    <3>. QED
      BY <3>1, <3>2
  <2>3. job' \in [Gateway -> Keys!Job] /\ Keys!KeysAreStored'
    <3>. HIDE DEF new
    <3>. QED
      BY <1>1, <2>1, <2>2, JobsKept
  <2>. QED
    BY <1>1, <2>1, <2>3, KeysMove
<1>6. ASSUME NEW g \in Gateway, Keys!HandOut(g) PROVE Keys!Kept'
  <2>1. /\ job' = [job EXCEPT ![g] = Keys!Idle] /\ stored' = stored
        /\ cache' = cache /\ handed' = handed \cup {job[g].key} /\ marker' = marker
        /\ email' = email /\ index' = index /\ job[g].pc = "return"
    BY <1>6 DEF Keys!HandOut, Keys!accounts
  <2>2. "key" \in DOMAIN job[g] /\ job[g].key \in Key /\ job[g].key \in stored
    BY <1>1, <2>1, JobTypes
  <2>3. job' \in [Gateway -> Keys!Job] /\ Keys!KeysAreStored'
    BY <1>1, <1>2, <2>1, <2>2, JobsKept
  <2>. QED
    BY <1>1, <2>1, <2>2, <2>3, KeysMove
<1>7. ASSUME NEW g \in Gateway, NEW k \in Key, Keys!Resolve(g, k) PROVE Keys!Kept'
  <2>1. /\ cache' = [cache EXCEPT ![g] = @ \cup {k}] /\ job' = job
        /\ stored' = stored /\ handed' = handed /\ marker' = marker
        /\ email' = email /\ index' = index
    BY <1>7 DEF Keys!Resolve, Keys!accounts
  <2>2. Keys!KeysAreStored'
    BY <1>1, <2>1 DEF Keys!KeysAreStored
  <2>. QED
    BY <1>1, <2>1, <2>2, KeysMove
<1>8. ASSUME NEW g \in Gateway, NEW m \in Email,
             Keys!SeedBootstrapAdmin(g, m) \/ Keys!RequestUser(g, m)
      PROVE  Keys!Kept'
  <2>1. PICK u \in Account : job' = [job EXCEPT ![g] = [pc |-> "create", email |-> m,
                                                        account |-> u]]
    BY <1>8 DEF Keys!SeedBootstrapAdmin, Keys!RequestUser, Keys!Unborn
  <2>. DEFINE new == [pc |-> "create", email |-> m, account |-> u]
  <2>2. /\ cache' = cache /\ stored' = stored /\ handed' = handed /\ marker' = marker
        /\ email' = email /\ index' = index
    BY <1>8 DEF Keys!SeedBootstrapAdmin, Keys!RequestUser, Keys!accounts, Keys!keys
  <2>3. new \in Keys!Job /\ ~(new.pc \in {"mark", "return"})
    BY DEF Keys!Job, Keys!AccountJob
  <2>4. job' \in [Gateway -> Keys!Job] /\ Keys!KeysAreStored'
    <3>1. job' = [job EXCEPT ![g] = new]
      BY <2>1
    <3>. HIDE DEF new
    <3>. QED
      BY <1>1, <2>2, <2>3, <3>1, JobsKept
  <2>. QED
    BY <1>1, <2>2, <2>4, KeysMove
<1>9. ASSUME NEW g \in Gateway, Keys!Restart(g) PROVE Keys!Kept'
  <2>1. /\ cache' = [cache EXCEPT ![g] = {}] /\ job' = [job EXCEPT ![g] = Keys!Idle]
        /\ stored' = stored /\ handed' = handed /\ marker' = marker
        /\ email' = email /\ index' = index
    BY <1>9 DEF Keys!Restart, Keys!accounts
  <2>2. job' \in [Gateway -> Keys!Job] /\ Keys!KeysAreStored'
    BY <1>1, <1>2, <2>1, JobsKept
  <2>. QED
    BY <1>1, <2>1, <2>2, KeysMove
<1>. QED
  BY <1>3, <1>4, <1>5, <1>6, <1>7, <1>8, <1>9, AccountsStep, Zenon DEF Keys!Next

\* Keys, jobs and accounts agree in every reachable state (issue_agent_key,
\* put_api_key, create_user, seed_bootstrap_admin).
THEOREM KeptHolds == MCSpec => []KeysKept
<1>1. MCInit => Keys!Kept
  <2>1. Keys!Init => Keys!Kept
    <3>1. Keys!Idle \in Keys!Job /\ Keys!Idle.pc = "idle"
      BY DEF Keys!Job, Keys!Idle
    <3>. SUFFICES ASSUME Keys!Init PROVE Keys!Kept
      OBVIOUS
    <3>2. \A g \in Gateway : job[g] = Keys!Idle
      BY DEF Keys!Init
    <3>3. Keys!KeysAreStored
      BY <3>1, <3>2 DEF Keys!Init, Keys!KeysAreStored
    <3>4. Keys!TypeOK /\ Keys!OneAccountPerEmail
      BY <3>1 DEF Keys!Init, Keys!TypeOK, Keys!OneAccountPerEmail
    <3>. QED
      BY <3>3, <3>4 DEF Keys!Kept
  <2>. QED
    BY <2>1 DEF MCInit
<1>2. Keys!Kept /\ [MCNext]_<<vars, credentials>> => Keys!Kept'
  <2>1. Keys!Kept /\ UNCHANGED credentials => Keys!Kept'
    BY DEF credentials, Keys!Kept, Keys!TypeOK, Keys!KeysAreStored, Keys!OneAccountPerEmail
  <2>. QED
    BY <2>1, KeptStep DEF MCNext
<1>. QED
  BY <1>1, <1>2, PTL DEF MCSpec, KeysKept

\* issue_agent_key: a key that a client was given is known to every gateway, whatever
\* restarts, for any number of gateways and keys.
THEOREM KeysResolve == MCSpec => []HandedKeysResolve
<1>1. KeysKept => HandedKeysResolve
  BY DEF KeysKept, HandedKeysResolve, Keys!Kept, Keys!KeysAreStored, Keys!HandedKeysResolve,
         Keys!Resolves
<1>. QED
  BY <1>1, KeptHolds, PTL

\* create_user: an address has one account, the one its entry in the index leads to.
THEOREM OneAccount == MCSpec => []OneAccountPerEmail
<1>1. KeysKept => OneAccountPerEmail
  BY DEF KeysKept, OneAccountPerEmail, Keys!Kept
<1>. QED
  BY <1>1, KeptHolds, PTL
================================================================================
