------------------------------ MODULE Limiter ------------------------------
(***************************************************************************)
(* The rate limiter of src/src/infrastructure/redis/rate-limiter.ts, as    *)
(* the middleware of src/src/app/app.ts calls it, for one caller.  A       *)
(* window is a Redis counter with a lifetime, one for each route.  One     *)
(* action is one Redis command.                                            *)
(***************************************************************************)
EXTENDS Integers, FiniteSets, SequencesExt

CONSTANTS
    Clients,        \* slots for concurrent requests
    Routes,         \* requests: [method, path], a path being the sequence
                    \* of its segments after /api/v1
    Policies,       \* DefaultPolicies, or the same with other limits
    MaxChecks,      \* bound: requests
    MaxFailures     \* bound: failed commands, crashes and lost connections

ASSUME LimiterAssumption ==
    /\ IsFiniteSet(Clients) /\ Routes # {}
    /\ MaxChecks \in Nat /\ MaxFailures \in Nat
    /\ Policies \in Seq([scope: STRING, limit: Nat, failClosed: BOOLEAN,
                         method: STRING, prefix: Seq(STRING)])
    /\ \E i \in 1..Len(Policies) : Policies[i].scope = "GLOBAL"

VARIABLES
    count,          \* the counter of each route; 0 when there is no key
    timed,          \* the routes whose key has a lifetime
    redis,          \* "ready" or "lost"
    checks,         \* the requests being checked
    asked, failures,        \* for the bounds
    passed,         \* requests let through on the count of this window
    unchecked,      \* routes let through because Redis was lost
    untimed         \* routes whose key was to get a lifetime from a command
                    \* that failed

ghosts == <<passed, unchecked, untimed>>
vars == <<count, timed, redis, checks, asked, failures, ghosts>>

(* n is what INCR returned; current: its window has not ended.             *)
NoCheck == [pc |-> "idle", route |-> CHOOSE r \in Routes : TRUE, n |-> 0,
            current |-> FALSE]

Init ==
    /\ count = [r \in Routes |-> 0] /\ timed = {} /\ redis = "ready"
    /\ checks = [c \in Clients |-> NoCheck]
    /\ asked = 0 /\ failures = 0
    /\ passed = [r \in Routes |-> 0] /\ unchecked = {} /\ untimed = {}

-----------------------------------------------------------------------------
(***************************************************************************)
(* The policies.  The windows and the key prefixes, which only name the    *)
(* counters, are left out.                                                 *)
(***************************************************************************)

Open == FALSE
Closed == TRUE      \* failClosed
AnyMethod == "any"  \* also of GLOBAL, which has no match at all

Policy(scope, limit, failClosed, method, prefix) ==
    [scope |-> scope, limit |-> limit, failClosed |-> failClosed,
     method |-> method, prefix |-> prefix]

GlobalPolicy == Policy("GLOBAL", 200, Open, AnyMethod, <<>>)

AccountPolicies == <<
    Policy("LOGIN", 5, Closed, "POST", <<"auth", "login">>),
    Policy("REGISTER", 10, Open, "POST", <<"auth", "register">>),
    Policy("OTP", 5, Closed, AnyMethod, <<"auth", "otp">>),
    Policy("PASSWORD_RESET", 3, Closed, AnyMethod, <<"auth", "password">>),
    Policy("CHECKOUT", 10, Open, AnyMethod, <<"checkout">>),
    Policy("PAYMENT", 10, Closed, AnyMethod, <<"payments">>),
    Policy("TOKEN_REFRESH", 30, Open, "POST", <<"auth", "refresh">>),
    Policy("PROFILE_UPDATE", 30, Open, "PATCH", <<"users", "me">>),
    Policy("PHONE_CHANGE", 5, Closed, AnyMethod, <<"users", "me", "phone">>),
    Policy("SESSION_LIST", 60, Open, "GET", <<"users", "me", "sessions">>),
    Policy("SESSION_REVOKE", 20, Open, AnyMethod, <<"users", "me", "sessions">>),
    Policy("DEACTIVATE", 5, Closed, "POST", <<"users", "me", "deactivate">>) >>

ShopPolicies == <<
    Policy("SEARCH_SUGGESTIONS", 120, Open, "GET", <<"products", "suggestions">>),
    Policy("SEARCH", 60, Open, "GET", <<"products", "search">>),
    Policy("CATALOG_READ", 60, Open, "GET", <<"products">>),
    Policy("CATALOG_BROWSE", 60, Open, "GET", <<"categories">>),
    Policy("CATALOG_BRANDS", 60, Open, "GET", <<"brands">>),
    Policy("CATALOG_WRITE", 60, Open, AnyMethod, <<"products">>),
    Policy("CATALOG_TAXONOMY_WRITE", 60, Open, AnyMethod, <<"categories">>),
    Policy("CART", 60, Open, AnyMethod, <<"cart">>),
    Policy("WISHLIST", 60, Open, AnyMethod, <<"wishlist">>),
    Policy("INVENTORY_READ", 60, Open, "GET", <<"inventory">>),
    Policy("INVENTORY_WRITE", 30, Open, AnyMethod, <<"inventory">>),
    Policy("MEDIA_UPLOAD", 10, Closed, "POST", <<"media", "upload-url">>) >>

DefaultPolicies == <<GlobalPolicy>> \o AccountPolicies \o ShopPolicies

(* startsWith() compares characters; here no segment begins another.       *)
Matches(policy, route) ==
    policy.method \in {AnyMethod, route.method} /\ IsPrefix(policy.prefix, route.path)

(* resolvePolicy(): the first policy that matches the route or, without a  *)
(* match, is GLOBAL.                                                       *)
PolicyOf ==
    [route \in Routes |->
        Policies[Min({i \in 1..Len(Policies) :
                         \/ Policies[i].scope = "GLOBAL"
                         \/ Matches(Policies[i], route)})]]

(* check() without Redis answers at once.                                  *)
CheckUnavailable(c) ==
    /\ redis = "lost" /\ asked < MaxChecks
    /\ asked' = asked + 1
    /\ \E r \in Routes :
          unchecked' = IF PolicyOf[r].failClosed THEN unchecked
                       ELSE unchecked \cup {r}
    /\ UNCHANGED <<count, timed, redis, checks, failures, passed, untimed>>

Counted(r, n) ==
    [NoCheck EXCEPT !.pc = IF n = 1 THEN "expire" ELSE "ttl", !.route = r,
                    !.n = n, !.current = TRUE]

(* INCR.                                                                   *)
Check(c) ==
    /\ checks[c].pc = "idle" /\ redis = "ready" /\ asked < MaxChecks
    /\ asked' = asked + 1
    /\ \E r \in Routes :
          /\ count' = [count EXCEPT ![r] = @ + 1]
          /\ checks' = [checks EXCEPT ![c] = Counted(r, count[r] + 1)]
    /\ UNCHANGED <<timed, redis, failures, ghosts>>

(* Variants of the next two with a fault seeded, against which the         *)
(* properties are tried; nothing else uses them.                           *)
FaultyExpire(c) ==
    /\ checks[c].pc = "expire"
    /\ checks' = [checks EXCEPT ![c].pc = "ttl"]
    /\ UNCHANGED <<count, timed, redis, asked, failures, ghosts>>

FaultyDecide(c) ==
    LET r == checks[c].route
    IN /\ checks[c].pc = "ttl"
       /\ passed' = IF checks[c].current /\ checks[c].n <= PolicyOf[r].limit + 1
                    THEN [passed EXCEPT ![r] = @ + 1] ELSE passed
       /\ checks' = [checks EXCEPT ![c] = NoCheck]
       /\ UNCHANGED <<count, timed, redis, asked, failures, unchecked, untimed>>

(* EXPIRE NX, which does nothing to a key that is gone.                    *)
Expire(c) ==
    LET r == checks[c].route
    IN /\ checks[c].pc = "expire"
       /\ IF count[r] > 0
          THEN timed' = timed \cup {r} /\ untimed' = untimed \ {r}
          ELSE UNCHANGED <<timed, untimed>>
       /\ checks' = [checks EXCEPT ![c].pc = "ttl"]
       /\ UNCHANGED <<count, redis, asked, failures, passed, unchecked>>

(* TTL, whose answer goes to the caller only.                              *)
Decide(c) ==
    LET r == checks[c].route
    IN /\ checks[c].pc = "ttl"
       /\ passed' = IF checks[c].current /\ checks[c].n <= PolicyOf[r].limit
                    THEN [passed EXCEPT ![r] = @ + 1] ELSE passed
       /\ checks' = [checks EXCEPT ![c] = NoCheck]
       /\ UNCHANGED <<count, timed, redis, asked, failures, unchecked, untimed>>

-----------------------------------------------------------------------------
WindowEnds(r) ==
    /\ r \in timed
    /\ count' = [count EXCEPT ![r] = 0]
    /\ timed' = timed \ {r}
    /\ passed' = [passed EXCEPT ![r] = 0]
    /\ checks' = [c \in Clients |->
                     IF checks[c].route = r
                     THEN [checks[c] EXCEPT !.current = FALSE]
                     ELSE checks[c]]
    /\ UNCHANGED <<redis, asked, failures, unchecked, untimed>>

(* INCR or EXPIRE is rejected, though it may have been done: the request   *)
(* goes through.                                                           *)
Rejected(c) ==
    /\ checks[c].pc # "idle" /\ failures < MaxFailures
    /\ failures' = failures + 1
    /\ untimed' = IF checks[c].pc = "expire"
                  THEN untimed \cup ({checks[c].route} \ timed) ELSE untimed
    /\ checks' = [checks EXCEPT ![c] = NoCheck]
    /\ UNCHANGED <<count, timed, redis, asked, passed, unchecked>>

Loses ==
    /\ redis = "ready" /\ failures < MaxFailures
    /\ failures' = failures + 1
    /\ redis' = "lost"
    /\ UNCHANGED <<count, timed, checks, asked, ghosts>>

Reconnects ==
    /\ redis = "lost"
    /\ redis' = "ready"
    /\ UNCHANGED <<count, timed, checks, asked, failures, ghosts>>

Continues(c) == Expire(c) \/ Decide(c)

Next ==
    \/ \E c \in Clients : \/ CheckUnavailable(c) \/ Check(c) \/ Continues(c)
                          \/ Rejected(c)
    \/ \E r \in Routes : WindowEnds(r)
    \/ Loses \/ Reconnects

(* A request goes on, and Redis drops what has outlived its lifetime.      *)
Fairness ==
    /\ \A c \in Clients : WF_vars(Continues(c))
    /\ \A r \in Routes : WF_vars(WindowEnds(r))

Spec == Init /\ [][Next]_vars /\ Fairness

-----------------------------------------------------------------------------
(***************************************************************************)
(* Properties                                                              *)
(***************************************************************************)

TypeOK ==
    /\ count \in [Routes -> Nat] /\ timed \subseteq Routes
    /\ redis \in {"ready", "lost"}
    /\ checks \in [Clients -> [pc: {"idle", "expire", "ttl"}, route: Routes,
                               n: Nat, current: BOOLEAN]]
    /\ asked \in 0..MaxChecks /\ failures \in 0..MaxFailures
    /\ passed \in [Routes -> Nat] /\ unchecked \subseteq Routes
    /\ untimed \subseteq Routes

(* No window lets more requests through on its count than the limit of the *)
(* policy, however they interleave with its end (check()).                 *)
WindowBounded == \A r \in Routes : passed[r] <= PolicyOf[r].limit

(* A caller is not refused for ever: a counter past its limit is dropped,  *)
(* unless the command that was to give this counter its lifetime failed;   *)
(* no other failure is excused (check()).                                  *)
RefusalEnds ==
    \A r \in Routes :
        count[r] > PolicyOf[r].limit ~> (count[r] = 0 \/ r \in untimed)

(* A route that some policy with failClosed names is not let through while *)
(* Redis is lost.  docs/users/user-management.md promises this of the      *)
(* phone change and the deactivation; resolvePolicy() always answers       *)
(* GLOBAL, the first of the policies, which is not failClosed.             *)
FailClosedHolds ==
    \A r \in unchecked, i \in 1..Len(Policies) :
        Matches(Policies[i], r) => ~Policies[i].failClosed

=============================================================================
