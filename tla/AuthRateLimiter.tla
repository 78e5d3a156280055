---------------------------- MODULE AuthRateLimiter ----------------------------
(***************************************************************************)
(* The limiter of failed logins (security/auth_ratelimit.py) as            *)
(* examples/fastapi_agent.py wires it in: require_auth runs in the threads *)
(* of a pool and calls check, the verifier, and record_fail or             *)
(* record_success, each under the limiter's lock, none of them together.   *)
(* A method reads the clock before it takes the lock.                      *)
(*                                                                         *)
(* Addresses share nothing but the lock, so one of them is modelled.  Time *)
(* is relative: a stamp is kept as its age, a deadline as the time left.   *)
(* Ages beyond those that matter are not told apart.                       *)
(***************************************************************************)
EXTENDS Integers, Sequences, SequencesExt, FiniteSets, FiniteSetsExt

CONSTANTS
    Thread,         \* threads that serve requests
    MaxFails, Window, Lockout,
    MaxLag          \* bound: how long a thread may wait for the lock

ASSUME LimiterAssumption ==
    /\ IsFiniteSet(Thread) /\ Thread # {}
    /\ MaxFails \in Nat \ {0} /\ Window \in Nat /\ Lockout \in Nat \ {0} /\ MaxLag \in Nat
    /\ Window + MaxLag < Lockout             \* 300 and 900 seconds by default

VARIABLES
    at,             \* at[w]: where the request of w stands
    lag,            \* lag[w]: the age of the clock reading it holds
    fails,          \* _fails: ages of the stamps, in the order of the deque
    locked, left,   \* _locked_until: there is an entry, and the time left
    \* history
    guesses,        \* ages of the failed logins since the last good one
    lockAge         \* age of the last lockout; Lockout if none matters

limiterVars == <<at, lag, fails, locked, left, guesses, lockAge>>

MaxAge == Window + MaxLag + 1
Older(a) == IF a < MaxAge THEN a + 1 ELSE a

LimiterInit ==
    /\ at = [w \in Thread |-> "idle"] /\ lag = [w \in Thread |-> 0]
    /\ fails = <<>> /\ locked = FALSE /\ left = 0
    /\ guesses = <<>> /\ lockAge = Lockout

Moves(w, to) == at' = [at EXCEPT ![w] = to] /\ lag' = [lag EXCEPT ![w] = 0]

\* now < until, for the reading of w.
Blocks(w) == locked /\ left + lag[w] > 0

-----------------------------------------------------------------------------
\* A request comes in, and check reads the clock.
Request(w) ==
    /\ at[w] = "idle"
    /\ Moves(w, "check")
    /\ UNCHANGED <<fails, locked, left, guesses, lockAge>>

\* Variants with a fault: every admission forgets the failures; a blocked request
\* starts the lockout anew.
CheckForgets(w) ==
    /\ at[w] = "check"
    /\ IF Blocks(w) THEN Moves(w, "idle") /\ UNCHANGED <<fails, locked, left>>
       ELSE Moves(w, "verify") /\ locked' = FALSE /\ left' = 0 /\ fails' = <<>>
    /\ UNCHANGED <<guesses, lockAge>>
CheckExtends(w) ==
    /\ at[w] = "check"
    /\ IF Blocks(w) THEN Moves(w, "idle") /\ left' = Lockout /\ UNCHANGED <<fails, locked>>
       ELSE /\ Moves(w, "verify")
            /\ locked' = FALSE /\ left' = 0
            /\ fails' = IF locked THEN <<>> ELSE fails
    /\ UNCHANGED <<guesses, lockAge>>

\* check: blocked, or admitted; an expired lockout goes, and the failures with it.
Check(w) ==
    /\ at[w] = "check"
    /\ IF Blocks(w) THEN Moves(w, "idle") /\ UNCHANGED <<fails, locked, left>>
       ELSE /\ Moves(w, "verify")
            /\ locked' = FALSE /\ left' = 0
            /\ fails' = IF locked THEN <<>> ELSE fails
    /\ UNCHANGED <<guesses, lockAge>>

\* The token is wrong, and record_fail reads the clock.
Refuse(w) ==
    /\ at[w] = "verify"
    /\ Moves(w, "fail")
    /\ guesses' = Append(guesses, 0)
    /\ UNCHANGED <<fails, locked, left, lockAge>>

\* The token is right.
Accept(w) ==
    /\ at[w] = "verify"
    /\ Moves(w, "success")
    /\ UNCHANGED <<fails, locked, left, guesses, lockAge>>

\* popleft while dq[0] < now - window.
Trimmed(stamps, late) ==
    LET kept == {i \in DOMAIN stamps : stamps[i] - late <= Window}
    IN  IF kept = {} THEN <<>> ELSE SubSeq(stamps, Min(kept), Len(stamps))

\* Variants with a fault: the lockout is as long as the window; > for >=.
LockTimeWindow == Window
FullLater(stamps) == Len(stamps) > MaxFails

LockTime == Lockout
Full(stamps) == Len(stamps) >= MaxFails

\* record_fail, under the lock.
RecordFail(w) ==
    /\ at[w] = "fail"
    /\ Moves(w, "idle")
    /\ LET stamps == Append(Trimmed(fails, lag[w]), lag[w])
       IN  IF Blocks(w) THEN UNCHANGED <<fails, locked, left, lockAge>>
           ELSE IF Full(stamps)
                THEN /\ fails' = <<>>
                     /\ locked' = TRUE /\ left' = LockTime - lag[w]
                     /\ lockAge' = 0
                ELSE fails' = stamps /\ UNCHANGED <<locked, left, lockAge>>
    /\ UNCHANGED guesses

\* record_success: the failures and the lockout go, whoever caused them.
RecordSuccess(w) ==
    /\ at[w] = "success"
    /\ Moves(w, "idle")
    /\ fails' = <<>> /\ locked' = FALSE /\ left' = 0
    /\ guesses' = <<>> /\ lockAge' = Lockout

\* The guesses are in the order of their ages.
InWindow(ages) ==
    LET young == {i \in DOMAIN ages : ages[i] <= Window}
    IN  IF young = {} THEN <<>> ELSE SubSeq(ages, Min(young), Len(ages))

\* A unit of time.  Nobody waits for the lock longer than MaxLag.
LimiterTick ==
    /\ \A w \in Thread : lag[w] < MaxLag
    /\ lag' = [w \in Thread |-> IF at[w] \in {"check", "fail"} THEN lag[w] + 1 ELSE 0]
    /\ fails' = [i \in DOMAIN fails |-> Older(fails[i])]
    /\ left' = IF left > -MaxLag THEN left - 1 ELSE left
    /\ guesses' = InWindow([i \in DOMAIN guesses |-> Older(guesses[i])])
    /\ lockAge' = IF lockAge < Lockout THEN lockAge + 1 ELSE lockAge
    /\ UNCHANGED <<at, locked>>

-----------------------------------------------------------------------------
ThreadStep(w) == Check(w) \/ Refuse(w) \/ Accept(w) \/ RecordFail(w) \/ RecordSuccess(w)

LimiterNext == LimiterTick \/ \E w \in Thread : Request(w) \/ ThreadStep(w)

-----------------------------------------------------------------------------
LimiterTypeOK ==
    /\ at \in [Thread -> {"idle", "check", "verify", "fail", "success"}]
    /\ lag \in [Thread -> 0 .. MaxLag]
    /\ fails \in Seq(0 .. MaxAge) /\ Len(fails) < MaxFails
    /\ locked \in BOOLEAN /\ left \in -MaxLag .. Lockout

\* However requests overlap, a window holds few failed logins between two good
\* ones.  Every other thread can add one that was checked before the lockout,
\* and one that is recorded after it and forgotten by the next check.
GuessBound == Len(guesses) <= MaxFails + 2 * (Cardinality(Thread) - 1)

\* A lockout lasts, up to the lateness of the reading it began with, unless a
\* good login that was checked before it ends it.
LockoutLasts == lockAge < Lockout - MaxLag => locked /\ left > 0

\* A lockout ends, however many requests come in the meantime.
LockoutEnds == []<>(~(locked /\ left > 0))

\* How many guesses threads get past check and record_fail together, and how
\* long a lockout keeps them out.
LimiterInv ==
    /\ LimiterTypeOK
    /\ GuessBound
    /\ LockoutLasts

=============================================================================
