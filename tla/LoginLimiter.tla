---------------------------- MODULE LoginLimiter ----------------------------
(***************************************************************************)
(* The limit on failed logins (modules/auth_routes.py).  The limiter is    *)
(* asked before a login is tried and told afterwards how it went; each     *)
(* question and answer holds the lock, the login between them does not.    *)
(* Time counts in units of the block's length.                             *)
(***************************************************************************)
EXTENDS Naturals, Sequences, FiniteSets, SequencesExt

CONSTANTS
    Attempts,      \* logins that can be tried at the same time
    Identities,    \* hashes of address, profile and user
    MaxFailures,   \* failures in a window that block (5)
    Window,        \* how long a failure counts (300 s)
    Block,         \* how long a block lasts (60 s)
    MaxIdentities, \* entries beyond which stale ones are removed (5000)
    LastMoment     \* bound of this instance on time

ASSUME LimiterAssumption ==
    /\ MaxFailures \in Nat \ {0} /\ Window \in Nat /\ Block \in 1 .. Window
    /\ MaxIdentities \in Nat /\ LastMoment \in Nat /\ IsFiniteSet(Attempts)

VARIABLES
    now,
    login_failures,  \* [Identities -> NoFailures or an entry]
    attempt,         \* [Attempts -> what is being tried]
    failed           \* history: [Identities -> times of failed logins since a successful one]

limiterVars == <<now, login_failures, attempt, failed>>

NoFailures == [failures |-> <<>>, blocked_until |-> 0, there |-> FALSE]
Failures(times, until) == [failures |-> times, blocked_until |-> until, there |-> TRUE]
NoAttempt == [at |-> "idle"]

LimiterInit ==
    /\ now = 0
    /\ login_failures = [k \in Identities |-> NoFailures]
    /\ attempt = [a \in Attempts |-> NoAttempt]
    /\ failed = [k \in Identities |-> <<>>]

Recent(times) ==
    LET recent[i \in 0 .. Len(times)] ==
          IF i = 0 THEN <<>>
          ELSE IF now - times[i] < Window THEN Append(recent[i - 1], times[i]) ELSE recent[i - 1]
    IN recent[Len(times)]

\* enforce_login_rate_limit, for an identity that is not blocked.
Enforced(k) == Failures(Recent(login_failures[k].failures), 0)

Blocked(k) == login_failures[k].blocked_until > now

TryLogin(a, k) ==
    /\ attempt[a].at = "idle" /\ ~Blocked(k)
    /\ login_failures' = [login_failures EXCEPT ![k] = Enforced(k)]
    /\ attempt' = [attempt EXCEPT ![a] = [at |-> "trying", identity |-> k]]
    /\ UNCHANGED <<now, failed>>

\* No host, or no user name: nothing is tried, the entry stays.
RefuseForm(a) ==
    /\ attempt[a].at = "trying"
    /\ attempt' = [attempt EXCEPT ![a] = NoAttempt]
    /\ UNCHANGED <<now, login_failures, failed>>

\* Mutant of Stale: the first failure of an entry decides.
StaleByFirst(entry) == entry.failures = <<>> \/ now - entry.failures[1] >= Window

Stale(entry) == entry.failures = <<>> \/ now - Last(entry.failures) >= Window

\* Mutant of Until: the limit itself is still let through.
UntilPastLimit(times) == IF Len(times) > MaxFailures THEN now + Block ELSE 0

\* blocked_until after these failures.
Until(times) == IF Len(times) >= MaxFailures THEN now + Block ELSE 0

\* record_login_failure; when there are too many entries the stale ones go.
Record(k) ==
    LET times == Append(Recent(login_failures[k].failures), now)
        told == [login_failures EXCEPT ![k] = Failures(times, Until(times))]
        crowded == Cardinality({i \in Identities : told[i].there}) > MaxIdentities
    IN login_failures' = [i \in Identities |->
                            IF crowded /\ told[i].there /\ Stale(told[i]) THEN NoFailures ELSE told[i]]

LoginFails(a) ==
    /\ attempt[a].at \in {"trying", "connected"}
    /\ LET k == attempt[a].identity
       IN Record(k) /\ failed' = [failed EXCEPT ![k] = Append(Recent(@), now)]
    /\ attempt' = [attempt EXCEPT ![a] = NoAttempt]
    /\ UNCHANGED now

\* clear_login_failures; what follows in the handler may still fail, and then
\* counts as a failed login.
LoginConnects(a) ==
    /\ attempt[a].at = "trying"
    /\ login_failures' = [login_failures EXCEPT ![attempt[a].identity] = NoFailures]
    /\ failed' = [failed EXCEPT ![attempt[a].identity] = <<>>]
    /\ attempt' = [attempt EXCEPT ![a].at = "connected"]
    /\ UNCHANGED now

LoginDone(a) ==
    /\ attempt[a].at = "connected"
    /\ attempt' = [attempt EXCEPT ![a] = NoAttempt]
    /\ UNCHANGED <<now, login_failures, failed>>

TimePasses ==
    /\ now < LastMoment /\ now' = now + 1
    /\ UNCHANGED <<login_failures, attempt, failed>>

LimiterNext ==
    \/ \E a \in Attempts :
          \/ \E k \in Identities : TryLogin(a, k)
          \/ RefuseForm(a) \/ LoginFails(a) \/ LoginConnects(a) \/ LoginDone(a)
    \/ TimePasses
LimiterSpec == LimiterInit /\ [][LimiterNext]_limiterVars

-----------------------------------------------------------------------------
\* Every failure of the last window since a successful login is remembered,
\* through blocks, expiries, the removal of stale entries and logins in flight.
FailuresRemembered ==
    \A k \in Identities : Recent(login_failures[k].failures) = Recent(failed[k])

\* However logins overlap, an identity gets no more failures in a window than
\* the limit, less one, and for each block that fits into it as many as can be
\* in flight together.
GuessesBounded ==
    \A k \in Identities :
        Len(Recent(failed[k])) <=
            (MaxFailures - 1) + Cardinality(Attempts) * ((Window + Block - 1) \div Block)

\* The limiter counts what really failed, and that bounds the guesses: a clean-up
\* of the map, a block that ends or a race of logins gives nobody more of them.  The
\* map is one web process's: several of them give as many times the guesses.
GuessesCounted == FailuresRemembered /\ GuessesBounded
=============================================================================
