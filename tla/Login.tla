--------------------------------- MODULE Login ---------------------------------
(***************************************************************************)
(* Human login to one account: the throttle per address, the durable       *)
(* counter of failures, sessions, and what administrators do to the user.  *)
(*                                                                         *)
(* Login attempts, updates of the user record and requests that present a  *)
(* session run side by side in gateway processes; each read and each write *)
(* of the store is a step of its own.  The throttle is a table in the      *)
(* process and is consulted and charged in one step, without an await in   *)
(* between.  The user record is read whole and written back whole.         *)
(***************************************************************************)
EXTENDS Integers, FiniteSets

CONSTANTS
  Attempt,        \* login attempts; the session an attempt mints bears its name
  Ip,
  Update,         \* PATCHes of the user, password changes, revocations
  Use,            \* requests that present a session
  IpLimit, IpWindow, MaxTracked,             \* LoginThrottle
  AccountLimit, AccountWindow, LockBase, LockCap,
  MaxTries,       \* of the compare-and-swap loop: 10
  Ttl, IdleTimeout,
  MaxTime         \* bound on the clock

ASSUME LimitAssumption ==
  /\ IpLimit \in Nat \ {0} /\ MaxTracked \in Nat \ {0}
  /\ AccountLimit \in Nat \ {0} /\ MaxTries \in Nat \ {0}
ASSUME TimeAssumption ==
  {IpWindow, AccountWindow, LockBase, LockCap, Ttl, IdleTimeout, MaxTime} \subseteq Nat
\* A lock of no length would be none.  They are 60 and 900.
ASSUME LockAssumption == LockBase > 0 /\ LockCap > 0

VARIABLES
  clock,
  throttle,   \* throttle[ip]: the bucket of the address, or NoBucket
  evicted,    \* the addresses that have lost their bucket to another
  counter,    \* the account's failures, start of their window, end of the lock
  user,       \* the user record
  session,    \* session[a]: the session minted by attempt a, or NoSession
  attempt, update, use,   \* where each of them is, and what it has read
  misses,     \* the failed attempts since the counter was last cleared or reset
  admitted    \* the attempts that passed the throttle

vars == <<clock, throttle, evicted, counter, user, session, attempt, update, use, misses,
          admitted>>
table == <<throttle, evicted>>
frames == <<attempt, update, use>>

Password == {"first", "second", "wrong"}
UserRecord == [password : Password \ {"wrong"}, weak : BOOLEAN, active : BOOLEAN]
NoSession == [issued |-> FALSE, expires |-> 0, seen |-> 0, revoked |-> FALSE]
AuthSession == [issued : BOOLEAN, expires : Nat, seen : Nat, revoked : BOOLEAN]
Counter == [count : Nat, window : Nat, locked : Nat]
NoCounter == [count |-> 0, window |-> 0, locked |-> 0]
NoBucket == [count |-> 0, started |-> 0, last |-> 0]
Bucket == [count : Nat, started : Nat, last : Nat]

AttemptFrame ==
  [pc : {"idle", "lockout", "user", "failed", "write", "clear", "rehash", "mint",
         "in", "refused"},
   ip : Ip, password : Password, now : Nat, user : UserRecord,
   counter : Counter, tries : Nat]
UpdateFrame ==
  [pc : {"idle", "put", "scan", "revoke", "done"}, user : UserRecord,
   keep : SUBSET Attempt, todo : SUBSET Attempt, scanned : SUBSET Attempt]
UseFrame == [pc : {"idle", "user", "touch", "granted", "refused"},
             of : Attempt, now : Nat, session : AuthSession]

-----------------------------------------------------------------------------
(* The throttle *)

Tracked == {ip \in Ip : throttle[ip] # NoBucket}
Open(ip) == throttle[ip] # NoBucket /\ clock - throttle[ip].started < IpWindow

\* Fault: the attempt that reaches the limit is let through.
AllowOneMore(ip) == Open(ip) => throttle[ip].count <= IpLimit

Allow(ip) == Open(ip) => throttle[ip].count < IpLimit

\* The bucket moves to the end of the table: it is the one charged last.
Charged(ip) ==
  [count   |-> IF Open(ip) THEN throttle[ip].count + 1 ELSE 1,
   started |-> IF Open(ip) THEN throttle[ip].started ELSE clock,
   last    |-> Cardinality(admitted) + 1]

\* When there are too many, the bucket goes that was not charged for longest.
Evicted(ip) ==
  IF ip \in Tracked \/ Cardinality(Tracked) < MaxTracked THEN {}
  ELSE {CHOOSE old \in Tracked :
          \A other \in Tracked : throttle[old].last <= throttle[other].last}

Record(ip) ==
  /\ throttle' = [other \in Ip |-> IF other = ip THEN Charged(ip)
                                   ELSE IF other \in Evicted(ip) THEN NoBucket
                                   ELSE throttle[other]]
  /\ evicted' = evicted \cup Evicted(ip)

-----------------------------------------------------------------------------
(* Login *)

Goto(a, where) == attempt' = [attempt EXCEPT ![a].pc = where]

Begin(a, ip, password) ==
  /\ attempt[a].pc = "idle"
  /\ attempt' = [attempt EXCEPT ![a] =
                   [@ EXCEPT !.pc = IF Allow(ip) THEN "lockout" ELSE "refused",
                             !.ip = ip, !.password = password, !.now = clock]]
  /\ IF Allow(ip)
     THEN Record(ip) /\ admitted' = admitted \cup {a}
     ELSE UNCHANGED <<table, admitted>>
  /\ UNCHANGED <<clock, counter, user, session, update, use, misses>>

CheckLockout(a) ==
  /\ attempt[a].pc = "lockout"
  /\ Goto(a, IF attempt[a].now < counter.locked THEN "refused" ELSE "user")
  /\ UNCHANGED <<clock, table, counter, user, session, update, use, misses,
                 admitted>>

\* The record is read once; what follows uses this copy.
Verify(a) ==
  LET f == attempt[a]
  IN /\ f.pc = "user"
     /\ attempt' = [attempt EXCEPT ![a] =
                      [f EXCEPT !.user = user,
                                !.pc = IF user.password = f.password /\ user.active
                                       THEN "clear" ELSE "failed"]]
     /\ UNCHANGED <<clock, table, counter, user, session, update, use, misses,
                    admitted>>

\* Whether the failure of an attempt starts a new window.
Fresh(old, now) == old = NoCounter \/ now - old.window >= AccountWindow

Backoff(count) ==
  LET full == LockBase * 2 ^ (count - AccountLimit)
  IN IF full < LockCap THEN full ELSE LockCap

Failure(old, now) ==
  LET count == IF Fresh(old, now) THEN 1 ELSE old.count + 1
  IN [count |-> count,
      window |-> IF Fresh(old, now) THEN now ELSE old.window,
      locked |-> IF count >= AccountLimit THEN now + Backoff(count) ELSE 0]

ReadCounter(a) ==
  /\ attempt[a].pc = "failed"
  /\ attempt' = [attempt EXCEPT ![a] = [@ EXCEPT !.pc = "write",
                                                 !.counter = counter]]
  /\ UNCHANGED <<clock, table, counter, user, session, update, use, misses,
                 admitted>>

\* Fault: the write is not conditional on what was read.
CounterAlways(old) == TRUE

\* attribute_not_exists, or window and count as they were read
CounterUnchanged(old) ==
  counter.count = old.count /\ counter.window = old.window

WriteCounter(a) ==
  LET f == attempt[a]
  IN /\ f.pc = "write"
     /\ IF CounterUnchanged(f.counter)
        THEN /\ counter' = Failure(f.counter, f.now)
             /\ misses' = IF Fresh(counter, f.now) THEN {a} ELSE misses \cup {a}
             /\ Goto(a, "refused")
        ELSE /\ attempt' = [attempt EXCEPT ![a] =
                              [f EXCEPT !.pc = IF f.tries + 1 < MaxTries THEN "failed"
                                               ELSE "refused",
                                        !.tries = @ + 1]]
             /\ UNCHANGED <<counter, misses>>
     /\ UNCHANGED <<clock, table, user, session, update, use, admitted>>

NeedsRehash(record) == record.weak

ClearFailures(a) ==
  /\ attempt[a].pc = "clear"
  /\ counter' = NoCounter /\ misses' = {}
  /\ Goto(a, IF NeedsRehash(attempt[a].user) THEN "rehash" ELSE "mint")
  /\ UNCHANGED <<clock, table, user, session, update, use, admitted>>

Rehash(a) ==
  /\ attempt[a].pc = "rehash"
  /\ user' = [attempt[a].user EXCEPT !.weak = FALSE]
  /\ Goto(a, "mint")
  /\ UNCHANGED <<clock, table, counter, session, update, use, misses, admitted>>

Mint(a) ==
  /\ attempt[a].pc = "mint"
  /\ session' = [session EXCEPT ![a] =
                   [issued |-> TRUE, expires |-> attempt[a].now + Ttl,
                    seen |-> attempt[a].now, revoked |-> FALSE]]
  /\ Goto(a, "in")
  /\ UNCHANGED <<clock, table, counter, user, update, use, misses, admitted>>

-----------------------------------------------------------------------------
(* Requests that present a session *)

IsLive(s, now) ==
  s.issued /\ ~s.revoked /\ now < s.expires /\ now <= s.seen + IdleTimeout

ReadSession(u, a) ==
  /\ use[u].pc = "idle" /\ session[a].issued
  /\ use' = [use EXCEPT ![u] =
               [pc |-> IF IsLive(session[a], clock) THEN "user" ELSE "refused",
                of |-> a, now |-> clock, session |-> session[a]]]
  /\ UNCHANGED <<clock, table, counter, user, session, attempt, update, misses,
                 admitted>>

\* Role and status come from the user record, not from the session.
ReadUser(u) ==
  /\ use[u].pc = "user"
  /\ use' = [use EXCEPT ![u].pc = IF user.active THEN "touch" ELSE "refused"]
  /\ UNCHANGED <<clock, table, counter, user, session, attempt, update, misses,
                 admitted>>

\* Fault: the session is put back as it was read, with a new time.
TouchByPut(u) ==
  session' = [session EXCEPT ![use[u].of] =
                [use[u].session EXCEPT !.seen = use[u].now]]

\* touch_auth_session sets the one attribute.
Touched(u) == session' = [session EXCEPT ![use[u].of].seen = use[u].now]

Touch(u) ==
  /\ use[u].pc = "touch"
  /\ Touched(u)
  /\ use' = [use EXCEPT ![u].pc = "granted"]
  /\ UNCHANGED <<clock, table, counter, user, attempt, update, misses, admitted>>

Revoke(a) == session' = [session EXCEPT ![a].revoked = TRUE]

Logout(a) ==
  /\ session[a].issued /\ ~session[a].revoked
  /\ Revoke(a)
  /\ UNCHANGED <<clock, table, counter, user, frames, misses, admitted>>

-----------------------------------------------------------------------------
(* Updates of the user, each followed by the revocation of sessions *)

Disabled(record) == [record EXCEPT !.active = FALSE]
NewPassword(record) == [record EXCEPT !.password = "second", !.weak = FALSE]

\* The record an update will write, from the one it has just read.
StartUpdate(d, new, keep) ==
  /\ update[d].pc = "idle"
  /\ update' = [update EXCEPT ![d] = [@ EXCEPT !.pc = "put", !.user = new,
                                               !.keep = keep]]
  /\ UNCHANGED <<clock, table, counter, user, session, attempt, use, misses,
                 admitted>>

UpdateUser(d) == \/ StartUpdate(d, Disabled(user), {})
                 \/ StartUpdate(d, NewPassword(user), {})

\* A user changes the password in a session of their own, which is kept.
ChangePassword(d) ==
  \E a \in Attempt : /\ IsLive(session[a], clock) /\ user.active
                     /\ StartUpdate(d, NewPassword(user), {a})

PutUser(d) ==
  /\ update[d].pc = "put"
  /\ user' = update[d].user
  /\ update' = [update EXCEPT ![d].pc = "scan"]
  /\ UNCHANGED <<clock, table, counter, session, attempt, use, misses, admitted>>

\* DELETE .../sessions scans without an update.
RevokeUserSessions(d) ==
  /\ update[d].pc \in {"idle", "scan"}
  /\ LET found == {a \in Attempt : session[a].issued /\ ~session[a].revoked}
                    \ update[d].keep
     IN update' = [update EXCEPT ![d] = [@ EXCEPT !.pc = "revoke", !.todo = found,
                                                  !.scanned = found]]
  /\ UNCHANGED <<clock, table, counter, user, session, attempt, use, misses,
                 admitted>>

\* Fault: a session that someone else has revoked ends the loop.
StopAtRevoked(d, a) ==
  IF session[a].revoked THEN {} ELSE update[d].todo \ {a}

Remaining(d, a) == update[d].todo \ {a}

RevokeOne(d) ==
  /\ update[d].pc = "revoke"
  /\ \/ \E a \in update[d].todo : /\ Revoke(a)
                                  /\ update' = [update EXCEPT ![d].todo = Remaining(d, a)]
     \/ /\ update[d].todo = {}
        /\ update' = [update EXCEPT ![d].pc = "done"]
        /\ UNCHANGED session
  /\ UNCHANGED <<clock, table, counter, user, attempt, use, misses, admitted>>

UnlockUser ==
  /\ counter # NoCounter /\ Update # {}
  /\ counter' = NoCounter /\ misses' = {}
  /\ UNCHANGED <<clock, table, user, session, frames, admitted>>

Tick ==
  /\ clock < MaxTime
  /\ clock' = clock + 1
  /\ UNCHANGED <<table, counter, user, session, frames, misses, admitted>>

-----------------------------------------------------------------------------

\* The stored hash may have been made with weaker parameters than today's.
TheUsers == [password : {"first"}, weak : BOOLEAN, active : {TRUE}]

Init ==
  /\ clock = 0 /\ counter = NoCounter
  /\ throttle = [ip \in Ip |-> NoBucket] /\ evicted = {}
  /\ user \in TheUsers
  /\ session = [a \in Attempt |-> NoSession]
  /\ \E ip \in Ip :
       attempt = [a \in Attempt |->
                    [pc |-> "idle", ip |-> ip, password |-> "wrong", now |-> 0,
                     user |-> user, counter |-> NoCounter, tries |-> 0]]
  /\ update = [d \in Update |-> [pc |-> "idle", user |-> user, keep |-> {},
                                 todo |-> {}, scanned |-> {}]]
  /\ \E a \in Attempt :
       use = [u \in Use |-> [pc |-> "idle", of |-> a, now |-> 0,
                             session |-> NoSession]]
  /\ misses = {} /\ admitted = {}

LoginStep(a) == \/ CheckLockout(a) \/ Verify(a) \/ ReadCounter(a) \/ WriteCounter(a)
                \/ ClearFailures(a) \/ Rehash(a) \/ Mint(a)

Next ==
  \/ \E a \in Attempt : \/ LoginStep(a) \/ Logout(a)
                        \/ \E ip \in Ip, p \in Password : Begin(a, ip, p)
  \/ \E u \in Use : ReadUser(u) \/ Touch(u) \/ \E a \in Attempt : ReadSession(u, a)
  \/ \E d \in Update : \/ UpdateUser(d) \/ ChangePassword(d) \/ PutUser(d)
                       \/ RevokeUserSessions(d) \/ RevokeOne(d)
  \/ UnlockUser \/ Tick

Spec == Init /\ [][Next]_vars

-----------------------------------------------------------------------------
(* Properties *)

TypeOK ==
  /\ clock \in 0 .. MaxTime
  /\ throttle \in [Ip -> Bucket] /\ evicted \subseteq Ip
  /\ IsFiniteSet(Tracked) /\ Cardinality(Tracked) <= MaxTracked
  /\ counter \in Counter /\ user \in UserRecord
  /\ session \in [Attempt -> AuthSession]
  /\ attempt \in [Attempt -> AttemptFrame]
  /\ update \in [Update -> UpdateFrame]
  /\ use \in [Use -> UseFrame]
  /\ misses \subseteq Attempt /\ admitted \subseteq Attempt

\* budget_repo.py record_login_failure: a concurrent loser retries against the
\* fresh state, so that the durable counter misses no recorded failure, and the
\* account is locked as soon as they reach the limit.
FailuresAreCounted ==
  /\ counter.count = Cardinality(misses)
  /\ Cardinality(misses) >= AccountLimit => counter.locked > 0

\* An address whose bucket is not evicted gets through at most IpLimit times in
\* a window, and windows do not overlap: any span as long holds less than twice
\* as many, because the first attempt of a window is at its start.
AddressIsThrottled ==
  \A ip \in Ip \ evicted :
    Cardinality({a \in admitted : /\ attempt[a].ip = ip
                                  /\ attempt[a].now > clock - IpWindow}) < 2 * IpLimit

\* A revoked session is never live again, whoever touches it at the time.
RevokedStaysRevoked ==
  [][\A a \in Attempt : session[a].revoked => session'[a].revoked]_vars

\* A finished revocation has revoked every session it found, although others
\* revoke and touch them meanwhile.
RevocationIsComplete ==
  \A d \in Update : update[d].pc = "done" =>
    \A a \in update[d].scanned : session[a].revoked

\* auth_routes.py update_user: a demotion, disable or forced reset takes effect
\* immediately, and the record that was put stands.
EveryUpdateSticks ==
  \A d \in Update : update[d].pc \in {"scan", "revoke", "done"}
    /\ update[d].user \notin TheUsers => user = update[d].user

\* The same as long as no login reads a hash that has to be made anew, the
\* record of a lone update that was put is not written over.
UpdatesStick == (\A a \in Attempt : ~attempt[a].user.weak) => EveryUpdateSticks

\* API.md: a password change revokes every other session for the account.  After
\* it no session stands that was opened with an earlier password.
OldPasswordHoldsNoSession ==
  \A d \in Update : update[d].pc = "done" /\ update[d].user.password = "second" =>
    \A a \in Attempt \ update[d].keep :
      session[a].issued /\ attempt[a].user.password = "first" => session[a].revoked
-----------------------------------------------------------------------------
(* What the properties rest on, kept by every step *)

\* The counter, and every copy of it that was read, is of as many failures as it says.
CountersAgree ==
  /\ IsFiniteSet(misses) /\ counter.count = Cardinality(misses)
  /\ counter.count = 0 => counter = NoCounter
  /\ counter.count >= AccountLimit => counter.locked > 0
  /\ \A a \in Attempt :
       /\ attempt[a].counter.count = 0 => attempt[a].counter = NoCounter
       /\ a \in misses => attempt[a].pc = "refused"

\* Of the attempts that an address got through, those of the window that is open or
\* was last, and those that are less than a window before it.
From(ip) == {a \in admitted : attempt[a].ip = ip}
Current(ip) == {a \in From(ip) : attempt[a].now >= throttle[ip].started}
Previous(ip) == {a \in From(ip) : /\ attempt[a].now < throttle[ip].started
                                  /\ attempt[a].now > throttle[ip].started - IpWindow}

\* A window opens with an attempt, and so the one before it, if it ended just then,
\* had one of its attempts at least a window earlier.
Counts(ip) ==
  /\ throttle[ip].started <= clock
  /\ Cardinality(Current(ip)) = throttle[ip].count
  /\ throttle[ip].count <= IpLimit /\ Cardinality(Previous(ip)) < IpLimit
  /\ \E a \in Current(ip) : attempt[a].now = throttle[ip].started
  /\ \A a \in Current(ip) : attempt[a].now < throttle[ip].started + IpWindow

AddressesAreCounted ==
  /\ IsFiniteSet(admitted)
  /\ \A a \in admitted : attempt[a].pc # "idle" /\ attempt[a].now <= clock
  /\ \A ip \in Ip \ evicted : IF throttle[ip] = NoBucket THEN From(ip) = {}
                              ELSE IpWindow > 0 => Counts(ip)

\* Each attempt mints one session at most, which is then the only one of its name.
SessionsAreMinted ==
  \A a \in Attempt : /\ session[a].revoked => session[a].issued
                     /\ session[a].issued => attempt[a].pc = "in"

\* What a revocation has found is revoked or still to be.
RevocationsProceed ==
  \A d \in Update :
    /\ \A a \in update[d].scanned : /\ session[a].issued
                                    /\ session[a].revoked \/ a \in update[d].todo
    /\ update[d].todo \subseteq update[d].scanned
    /\ update[d].pc = "done" => update[d].todo = {}

\* The inductive invariant.
Guarded == /\ TypeOK
           /\ CountersAgree
           /\ AddressesAreCounted
           /\ SessionsAreMinted
           /\ RevocationsProceed
================================================================================
