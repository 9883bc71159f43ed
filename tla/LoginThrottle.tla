---------------------------- MODULE LoginThrottle ----------------------------
(***************************************************************************)
(* The brute-force throttle of password logins for one username and one    *)
(* client address (src/src/core/login_throttle.py), as                     *)
(* authenticate_password uses it (src/src/auth/service.py).                *)
(*                                                                         *)
(* The gates are read before the password is verified and the counters     *)
(* written after, each by a Redis command of its own, so concurrent        *)
(* attempts pass the gates together.  Sessions models what a login that    *)
(* succeeds does next.                                                     *)
(***************************************************************************)
EXTENDS Naturals, FiniteSets

CONSTANTS
    Attempts,        \* request slots: how many attempts run at once
    MaxFailures,     \* ThrottlePolicy.max_failures
    IpMaxFailures,   \* ThrottlePolicy.ip_max_failures
    MaxAborts        \* bound on attempts that die or meet a failing store

ASSUME PolicyAssumption ==
    /\ IsFiniteSet(Attempts)
    /\ MaxFailures \in Nat \ {0}
    /\ IpMaxFailures \in Nat \ {0}
    /\ MaxAborts \in Nat

VARIABLES
    fails,      \* login:fail:{username}, 0 if absent
    failsTTL,   \* whether that counter has a TTL
    locked,     \* login:lock:{username}
    ipFails,    \* login:ip:{ip}, 0 if absent
    ipTTL,      \* whether that counter has a TTL
    attempt,    \* attempt[r]: where attempt r stands
    guesses,    \* history: wrong passwords verified since the counter or the
                \* lock last went away
    aborts      \* attempts aborted so far

counterVars == <<fails, failsTTL, locked, ipFails, ipTTL>>
throttleVars == <<counterVars, attempt, guesses, aborts>>

AttemptPcs == {"idle", "lock", "ip", "verify", "audit", "incr", "arm", "setLock",
               "incrIp", "armIp", "reset"}

\* ip: whether the client address is known.
NoAttempt == [pc |-> "idle", ip |-> FALSE]

\* The code tells counts apart only up to max_failures, so a counter saturates
\* one above it.
Saturated == MaxFailures + 1
Increment(n) == IF n < Saturated THEN n + 1 ELSE n

\* As many wrong passwords as are verified before the lock holds: one short of
\* the limit, and one for each attempt that was already past the gate.
Bound == MaxFailures - 1 + Cardinality(Attempts)

ThrottleTypeOK ==
    /\ fails \in 0..Saturated
    /\ failsTTL \in BOOLEAN
    /\ locked \in BOOLEAN
    /\ ipFails \in Nat
    /\ ipTTL \in BOOLEAN
    /\ attempt \in [Attempts -> [pc : AttemptPcs, ip : BOOLEAN]]
    /\ guesses \in Nat
    /\ aborts \in 0..MaxAborts

ThrottleInit ==
    /\ fails = 0 /\ failsTTL = FALSE /\ locked = FALSE
    /\ ipFails = 0 /\ ipTTL = FALSE
    /\ attempt = [r \in Attempts |-> NoAttempt]
    /\ guesses = 0
    /\ aborts = 0

AttemptAt(r, pc) == attempt[r].pc = pc
EndAttempt(r) == attempt' = [attempt EXCEPT ![r] = NoAttempt]
GoOn(r, pc) ==
    IF pc = "idle" THEN EndAttempt(r) ELSE attempt' = [attempt EXCEPT ![r].pc = pc]

-----------------------------------------------------------------------------
(* The gates.                                                               *)

\* POST /auth/login.
LoginAttempt(r) ==
    /\ AttemptAt(r, "idle")
    /\ \E ip \in BOOLEAN :
          attempt' = [attempt EXCEPT ![r] = [pc |-> "lock", ip |-> ip]]
    /\ UNCHANGED <<counterVars, guesses, aborts>>

\* Mutant: the lock is not looked at.
IsLockedNever(r) ==
    /\ AttemptAt(r, "lock")
    /\ GoOn(r, IF attempt[r].ip THEN "ip" ELSE "verify")
    /\ UNCHANGED <<counterVars, guesses, aborts>>

\* A refused attempt is audited and counted nowhere.
IsLocked(r) ==
    /\ AttemptAt(r, "lock")
    /\ CASE locked -> EndAttempt(r)
         [] ~locked /\ attempt[r].ip -> GoOn(r, "ip")
         [] OTHER -> GoOn(r, "verify")
    /\ UNCHANGED <<counterVars, guesses, aborts>>

IsIpLimited(r) ==
    /\ AttemptAt(r, "ip")
    /\ IF ipFails >= IpMaxFailures THEN EndAttempt(r) ELSE GoOn(r, "verify")
    /\ UNCHANGED <<counterVars, guesses, aborts>>

\* The lookup of the user and the argon2 check.
AuthenticatePassword(r) ==
    /\ AttemptAt(r, "verify")
    /\ \/ GoOn(r, "reset") /\ UNCHANGED guesses
       \/ GoOn(r, "audit") /\ guesses' = guesses + 1
    /\ UNCHANGED <<counterVars, aborts>>

\* The failure's row in login_log, in a transaction of its own; the counters
\* come after it.
RecordLogin(r) ==
    /\ AttemptAt(r, "audit")
    /\ GoOn(r, "incr")
    /\ UNCHANGED <<counterVars, guesses, aborts>>

-----------------------------------------------------------------------------
(* record_failure.                                                          *)

AfterCount(r, count) ==
    CASE count >= MaxFailures -> "setLock"
      [] count < MaxFailures /\ attempt[r].ip -> "incrIp"
      [] OTHER -> "idle"

IncrFail(r) ==
    /\ AttemptAt(r, "incr")
    /\ fails' = Increment(fails)
    /\ GoOn(r, IF fails = 0 THEN "arm" ELSE AfterCount(r, fails + 1))
    /\ UNCHANGED <<failsTTL, locked, ipFails, ipTTL, guesses, aborts>>

\* EXPIRE by the attempt that counted 1; it does nothing to a counter that is
\* gone.
ArmFail(r) ==
    /\ AttemptAt(r, "arm")
    /\ failsTTL' = (fails > 0)
    /\ GoOn(r, AfterCount(r, 1))
    /\ UNCHANGED <<fails, locked, ipFails, ipTTL, guesses, aborts>>

SetLock(r) ==
    /\ AttemptAt(r, "setLock")
    /\ locked' = TRUE
    /\ GoOn(r, IF attempt[r].ip THEN "incrIp" ELSE "idle")
    /\ UNCHANGED <<fails, failsTTL, ipFails, ipTTL, guesses, aborts>>

\* Mutant: the window of the address starts with its second failure.
IncrIpArmLate(r) ==
    /\ AttemptAt(r, "incrIp")
    /\ ipFails' = ipFails + 1
    /\ GoOn(r, IF ipFails = 1 THEN "armIp" ELSE "idle")
    /\ UNCHANGED <<fails, failsTTL, locked, ipTTL, guesses, aborts>>

IncrIp(r) ==
    /\ AttemptAt(r, "incrIp")
    /\ ipFails' = ipFails + 1
    /\ GoOn(r, IF ipFails = 0 THEN "armIp" ELSE "idle")
    /\ UNCHANGED <<fails, failsTTL, locked, ipTTL, guesses, aborts>>

ArmIp(r) ==
    /\ AttemptAt(r, "armIp")
    /\ ipTTL' = (ipFails > 0)
    /\ GoOn(r, "idle")
    /\ UNCHANGED <<fails, failsTTL, locked, ipFails, guesses, aborts>>

RecordFailure(r) ==
    IncrFail(r) \/ ArmFail(r) \/ SetLock(r) \/ IncrIp(r) \/ ArmIp(r)

\* One DEL of the counter and the lock; the address's counter stays.
Reset(r) ==
    /\ AttemptAt(r, "reset")
    /\ fails' = 0 /\ failsTTL' = FALSE /\ locked' = FALSE
    /\ guesses' = 0
    /\ EndAttempt(r)
    /\ UNCHANGED <<ipFails, ipTTL, aborts>>

-----------------------------------------------------------------------------
(* Time and faults.                                                         *)

ExpireKey ==
    /\ \/ /\ failsTTL
          /\ fails' = 0 /\ failsTTL' = FALSE /\ guesses' = 0
          /\ UNCHANGED <<locked, ipFails, ipTTL>>
       \/ /\ locked
          /\ locked' = FALSE /\ guesses' = 0
          /\ UNCHANGED <<fails, failsTTL, ipFails, ipTTL>>
       \/ /\ ipTTL
          /\ ipFails' = 0 /\ ipTTL' = FALSE
          /\ UNCHANGED <<fails, failsTTL, locked, guesses>>
    /\ UNCHANGED <<attempt, aborts>>

\* The process dies, or Redis or the database raises: the attempt ends there.
AbortAttempt(r) ==
    /\ aborts < MaxAborts
    /\ ~AttemptAt(r, "idle")
    /\ aborts' = aborts + 1
    /\ EndAttempt(r)
    /\ UNCHANGED <<counterVars, guesses>>

ThrottleNext ==
    \/ \E r \in Attempts :
          \/ LoginAttempt(r) \/ IsLocked(r) \/ IsIpLimited(r)
          \/ AuthenticatePassword(r) \/ RecordLogin(r) \/ RecordFailure(r) \/ Reset(r) \/ AbortAttempt(r)
    \/ ExpireKey

ThrottleSpec == ThrottleInit /\ [][ThrottleNext]_throttleVars

-----------------------------------------------------------------------------
(* Properties.                                                              *)

\* However the attempts interleave, between one expiry or reset and the next at
\* most max_failures - 1 wrong passwords are verified, one more for each
\* attempt that was past the gate (is_locked) when the lock was set, and one
\* for each attempt that died before it was counted (record_failure).
GuessesBounded == guesses <= Bound + aborts

\* As long as no attempt died between its INCR and its EXPIRE, a counter that
\* exists has a TTL or an attempt that is about to set it: concurrent failures
\* and a reset between the two commands leave no counter without one.
CountersExpire ==
    aborts = 0 =>
        /\ fails > 0 => failsTTL \/ \E r \in Attempts : AttemptAt(r, "arm")
        /\ ipFails > 0 => ipTTL \/ \E r \in Attempts : AttemptAt(r, "armIp")

=============================================================================
