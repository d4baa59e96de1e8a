------------------------------ MODULE Accounts ------------------------------
(***************************************************************************)
(* One account as auth, sessions and users (src/src/modules) keep it: the  *)
(* user record, the tokens issued to its owner, and the sessions.          *)
(*                                                                         *)
(* The three collections are updated by calls of their own.  One action is *)
(* one awaited call, except that isRevoked and isUsed, set by two calls in *)
(* a row and only ever read together, are one: a token so marked is spent. *)
(* The calls of different users share nothing.                             *)
(*                                                                         *)
(* A grant is what one registration, login or refresh makes: an access     *)
(* token, a refresh token and, for the last two, a session.  Grants are    *)
(* numbered as they are made.  Tokens carry the jti and exp that the       *)
(* TokenProvider port promises.  One-time codes are in module Otp.         *)
(***************************************************************************)
EXTENDS Integers, FiniteSets

CONSTANTS
    Clients,        \* slots for concurrent requests
    MaxSessions,    \* MAX_SESSIONS
    MaxGrants,      \* bound: grants made
    MaxCalls,       \* bound: requests
    MaxMishaps      \* bound: rejected calls, crashes, and tokens and
                    \* sessions that reach their end

ASSUME AccountsAssumption ==
    /\ IsFiniteSet(Clients)
    /\ MaxSessions \in Nat \ {0} /\ MaxGrants \in Nat
    /\ MaxCalls \in Nat /\ MaxMishaps \in Nat

Grants == 1..MaxGrants
Kinds == {"access", "refresh"}

VARIABLES
    user,           \* the user record
    tokens,         \* the token documents, by grant and kind
    sessions,       \* the session documents, by grant
    made,           \* grants made so far
    given,          \* grants whose tokens have been answered to the owner
    req,            \* the requests in flight
    calls, mishaps, \* for the bounds
    condemned,      \* grants given before a call arrived that has since
                    \* answered that every token and session is revoked
    rotated,        \* grants whose refresh has been answered
    writes,         \* profile updates made
    overlapped,     \* two profile updates have been in flight together
    crowded         \* two logins or refreshes have been in flight together

docs == <<user, tokens, sessions>>
grants == <<made, given>>
counts == <<calls, mishaps>>
flags == <<overlapped, crowded>>
ghosts == <<condemned, rotated, writes, flags>>
vars == <<docs, grants, req, counts, ghosts>>

-----------------------------------------------------------------------------
(***************************************************************************)
(* Types                                                                   *)
(***************************************************************************)

User == [status: {"absent", "active", "deactivated"}, version: Nat]
TokenStates == {"absent", "valid", "spent", "lapsed"}
SessionStates == {"absent", "active", "revoked", "lapsed"}

(* The pc values of steps that follow the middleware, by operation.        *)
FirstStep ==
    [logout |-> "find_token", logout_all |-> "revoke_tokens",
     change_password |-> "read_user", deactivate |-> "read_user",
     revoke_session |-> "read_user", revoke_others |-> "read_user",
     profile |-> "read_user"]

Operations == DOMAIN FirstStep \cup {"register", "login", "refresh", "reset"}

NoVersion == -1     \* no version is expected

(* grant: the one presented; new: the one being made; target: the session  *)
(* to be revoked; version: the expected one; rotate: a session is to be    *)
(* replaced; known: the grants given when the request arrived.             *)
NoCall == [pc |-> "none", op |-> "none", grant |-> 0, new |-> 0, target |-> 0,
           version |-> NoVersion, rotate |-> FALSE, known |-> {}]
Idle == [NoCall EXCEPT !.pc = "idle"]

Steps == {"idle", "save_user", "count", "save_access", "save_refresh",
          "session", "find_user", "retire", "find_session", "revoke_old",
          "revoke_old_access", "check_session", "find_token", "revoke_own",
          "find_own", "revoke_own_session", "revoke_tokens",
          "revoke_sessions", "read_user", "otp", "write_password",
          "write_status", "find_target", "revoke_target", "revoke_access",
          "revoke_refresh", "find_current", "revoke_others",
          "write_profile"}

Request == [pc: Steps, op: Operations \cup {"none"}, grant: 0..MaxGrants,
            new: 0..MaxGrants, target: 0..MaxGrants, version: Nat \cup {NoVersion},
            rotate: BOOLEAN, known: SUBSET Grants]

(* Nobody has registered yet, or the owner has logged in a few times.      *)
Init ==
    /\ \E live \in 0..MaxGrants :
          /\ live <= 2 /\ live <= MaxSessions
          /\ user \in {[status |-> s, version |-> 0] :
                           s \in IF live = 0 THEN {"absent", "active"}
                                 ELSE {"active"}}
          /\ tokens = [t \in Grants \X Kinds |->
                          IF t[1] <= live THEN "valid" ELSE "absent"]
          /\ sessions = [g \in Grants |->
                            IF g <= live THEN "active" ELSE "absent"]
          /\ made = live /\ given = 1..live
    /\ req = [c \in Clients |-> Idle]
    /\ calls = 0 /\ mishaps = 0
    /\ condemned = {} /\ rotated = {} /\ writes = 0
    /\ overlapped = FALSE /\ crowded = FALSE

-----------------------------------------------------------------------------
(***************************************************************************)
(* Control of a request                                                    *)
(***************************************************************************)

At(c, pc) == req[c].pc = pc
Busy(c) == ~At(c, "idle")
Become(c, r) == req' = [req EXCEPT ![c] = r]
Goto(c, pc) == Become(c, [req[c] EXCEPT !.pc = pc])
Finish(c) == Become(c, Idle)

SessionOpeners == {"login", "refresh"}

Arrive(c, r) ==
    /\ ~Busy(c) /\ calls < MaxCalls
    /\ Become(c, [r EXCEPT !.known = given])
    /\ calls' = calls + 1
    /\ crowded' = (crowded \/ /\ r.op \in SessionOpeners
                              /\ \E d \in Clients : req[d].op \in SessionOpeners)
    /\ UNCHANGED <<docs, grants, mishaps, condemned, rotated, writes, overlapped>>

Call(op, pc, g) == [NoCall EXCEPT !.op = op, !.pc = pc, !.grant = g]

(* A step of c that reads and goes on to pc, or is refused.                *)
Checks(c, pc, condition, next) ==
    /\ At(c, pc)
    /\ IF condition THEN Goto(c, next) ELSE Finish(c)
    /\ UNCHANGED <<docs, grants, counts, ghosts>>

SetTokens(ts, to) ==
    tokens' = [t \in Grants \X Kinds |->
                  IF t \in ts /\ tokens[t] = "valid" THEN to ELSE tokens[t]]

(* A step of c that marks the valid ones of the tokens ts as spent.        *)
Spends(c, pc, ts, next) ==
    /\ At(c, pc)
    /\ SetTokens(ts, "spent")
    /\ Goto(c, next)
    /\ UNCHANGED <<user, sessions, grants, counts, ghosts>>

(* A step of c that revokes the active ones of the sessions gs.            *)
RevokeSessions(gs) ==
    sessions' = [g \in Grants |->
                    IF g \in gs /\ sessions[g] = "active" THEN "revoked"
                    ELSE sessions[g]]

-----------------------------------------------------------------------------
(***************************************************************************)
(* register(), login() and refreshTokens().  The Faulty... operators here  *)
(* and below are variants with a fault seeded, against which the           *)
(* properties are tried; nothing else uses them.                           *)
(***************************************************************************)

Register(c) ==
    /\ user.status = "absent"
    /\ Arrive(c, Call("register", "save_user", 0))

(* The unique index on email refuses the second of two.                    *)
SaveUser(c) ==
    /\ At(c, "save_user")
    /\ IF user.status = "absent"
       THEN /\ user' = [user EXCEPT !.status = "active"]
            /\ Goto(c, "save_access")
       ELSE Finish(c) /\ UNCHANGED user
    /\ UNCHANGED <<tokens, sessions, grants, counts, ghosts>>

(* The password was right when findByEmail() read the record.              *)
Login(c) ==
    /\ user.status = "active"
    /\ Arrive(c, Call("login", "count", 0))

ActiveSessions == {g \in Grants : sessions[g] = "active"}

FaultyCountSessions(c) ==
    Checks(c, "count", Cardinality(ActiveSessions) <= MaxSessions, "save_access")

CountSessions(c) ==
    Checks(c, "count", Cardinality(ActiveSessions) < MaxSessions, "save_access")

(* The answer goes out; a refresh has then retired the old grant.          *)
Answer(c) ==
    /\ given' = given \cup {req[c].new}
    /\ rotated' = IF req[c].op = "refresh" THEN rotated \cup {req[c].grant}
                  ELSE rotated
    /\ Finish(c)

FaultySaveAccess(c) ==
    /\ At(c, "save_access") /\ made < MaxGrants
    /\ made' = made + 1
    /\ tokens' = [tokens EXCEPT ![<<made', "access">>] = "valid"]
    /\ Become(c, [req[c] EXCEPT !.new = made',
                                !.pc = IF req[c].op = "login"
                                       THEN "session" ELSE "save_refresh"])
    /\ UNCHANGED <<user, sessions, given, counts, ghosts>>

(* The tokens are generated and the access token is stored.                *)
SaveAccess(c) ==
    /\ At(c, "save_access") /\ made < MaxGrants
    /\ made' = made + 1
    /\ tokens' = [tokens EXCEPT ![<<made', "access">>] = "valid"]
    /\ Become(c, [req[c] EXCEPT !.pc = "save_refresh", !.new = made'])
    /\ UNCHANGED <<user, sessions, given, counts, ghosts>>

(* A login or a refresh of a live session opens a session.                 *)
OpensSession(r) == r.op = "login" \/ r.rotate

SaveRefresh(c) ==
    /\ At(c, "save_refresh")
    /\ tokens' = [tokens EXCEPT ![<<req[c].new, "refresh">>] = "valid"]
    /\ IF OpensSession(req[c])
       THEN Goto(c, "session") /\ UNCHANGED <<given, rotated>>
       ELSE Answer(c)
    /\ UNCHANGED <<user, sessions, made, counts, condemned, writes, flags>>

(* (The update of lastLoginAt that follows is left out.)                   *)
CreateSession(c) ==
    /\ At(c, "session")
    /\ sessions' = [sessions EXCEPT ![req[c].new] = "active"]
    /\ Answer(c)
    /\ UNCHANGED <<user, tokens, made, counts, condemned, writes, flags>>

Refresh(c) ==
    \E g \in given :
        /\ tokens[<<g, "refresh">>] = "valid"
        /\ Arrive(c, Call("refresh", "find_user", g))

FindUser(c) == Checks(c, "find_user", user.status = "active", "retire")

FaultyRetire(c) == Checks(c, "retire", TRUE, "find_session")

(* revokeToken() and markTokenUsed(), without a condition.                 *)
Retire(c) == Spends(c, "retire", {<<req[c].grant, "refresh">>}, "find_session")

FindSession(c) ==
    LET live == sessions[req[c].grant] = "active"
    IN /\ At(c, "find_session")
       /\ Become(c, [req[c] EXCEPT !.rotate = live,
                                   !.pc = IF live THEN "revoke_old"
                                          ELSE "save_access"])
       /\ UNCHANGED <<docs, grants, counts, ghosts>>

RevokeOld(c) ==
    /\ At(c, "revoke_old")
    /\ RevokeSessions({req[c].grant})
    /\ Goto(c, "revoke_old_access")
    /\ UNCHANGED <<user, tokens, grants, counts, ghosts>>

RevokeOldAccess(c) ==
    Spends(c, "revoke_old_access", {<<req[c].grant, "access">>}, "save_access")

-----------------------------------------------------------------------------
(***************************************************************************)
(* Requests behind the auth middleware, which looks up the access token    *)
(* and then its session.                                                   *)
(***************************************************************************)

Authenticated(c) ==
    \E g \in given, op \in DOMAIN FirstStep, h \in Grants :
        /\ tokens[<<g, "access">>] = "valid"
        /\ h # g => op = "revoke_session" /\ h \in given
        /\ \E v \in {user.version, NoVersion} :
              /\ v = NoVersion \/ op = "profile"
              /\ Arrive(c, [Call(op, "check_session", g)
                            EXCEPT !.target = h, !.version = v])

CheckSession(c) ==
    Checks(c, "check_session", sessions[req[c].grant] = "active",
           FirstStep[req[c].op])

(* logout()                                                                *)
FindToken(c) ==
    Checks(c, "find_token", tokens[<<req[c].grant, "access">>] = "valid",
           "revoke_own")

RevokeOwn(c) ==
    Spends(c, "revoke_own", {<<req[c].grant, "access">>}, "find_own")

FindOwn(c) ==
    Checks(c, "find_own", sessions[req[c].grant] = "active",
           "revoke_own_session")

RevokeOwnSession(c) ==
    /\ At(c, "revoke_own_session")
    /\ RevokeSessions({req[c].grant})
    /\ Finish(c)
    /\ UNCHANGED <<user, tokens, grants, counts, ghosts>>

(* requireUsableUser() with assertVersionMatch(), and the checks of the    *)
(* other operations.                                                       *)
AfterUser(r) ==
    CASE r.op = "change_password" -> "write_password"
      [] r.op = "deactivate" -> "write_status"
      [] r.op = "revoke_session" -> "find_target"
      [] r.op = "revoke_others" -> "find_current"
      [] r.op = "profile" -> "write_profile"

Versioned == {"profile", "deactivate"}

(* The version read is the one the write will add one to; between the two  *)
(* another update may slip in.                                             *)
ReadUser(c) ==
    LET r == req[c]
        allowed == /\ r.op # "change_password" => user.status = "active"
                   /\ r.op = "profile" =>
                          r.version \in {user.version, NoVersion}
    IN /\ At(c, "read_user")
       /\ IF allowed
          THEN Become(c, [r EXCEPT !.pc = AfterUser(r), !.version = user.version])
          ELSE Finish(c)
       /\ overlapped' = (overlapped \/
             (r.op \in Versioned /\ \E d \in Clients :
                 At(d, "write_profile") \/ At(d, "write_status")))
       /\ UNCHANGED <<docs, grants, counts, condemned, rotated, writes, crowded>>

FaultyWriteProfile(c) ==
    /\ At(c, "write_profile")
    /\ writes' = writes + 1
    /\ Finish(c)
    /\ UNCHANGED <<docs, grants, counts, condemned, rotated, flags>>

WriteProfile(c) ==
    /\ At(c, "write_profile")
    /\ user' = [user EXCEPT !.version = req[c].version + 1]
    /\ writes' = writes + 1
    /\ Finish(c)
    /\ UNCHANGED <<tokens, sessions, grants, counts, condemned, rotated,
                   flags>>

-----------------------------------------------------------------------------
(***************************************************************************)
(* Everything is revoked: logoutAll(), changePassword(), resetPassword()   *)
(* and deactivate(), which revokes the sessions first.                     *)
(***************************************************************************)

(* The account is found by its email; any status will do.                  *)
ResetPassword(c) ==
    /\ user.status # "absent"
    /\ Arrive(c, Call("reset", "otp", 0))

(* verifyOtp(), which may refuse.                                          *)
OtpVerdict(c) ==
    \E accepted \in BOOLEAN : Checks(c, "otp", accepted, "write_password")

(* Which password it is does not matter here.                              *)
WritePassword(c) == Checks(c, "write_password", TRUE, "revoke_tokens")

FaultyWriteStatus(c) ==
    /\ At(c, "write_status")
    /\ user' = [user EXCEPT !.status = "inactive",
                             !.version = req[c].version + 1]
    /\ writes' = writes + 1
    /\ Goto(c, "revoke_sessions")
    /\ UNCHANGED <<tokens, sessions, grants, counts, condemned, rotated,
                   flags>>

WriteStatus(c) ==
    /\ At(c, "write_status")
    /\ user' = [user EXCEPT !.status = "deactivated",
                             !.version = req[c].version + 1]
    /\ writes' = writes + 1
    /\ Goto(c, "revoke_sessions")
    /\ UNCHANGED <<tokens, sessions, grants, counts, condemned, rotated,
                   flags>>

(* Both updates are done.                                                  *)
Condemn(c) ==
    /\ condemned' = condemned \cup req[c].known
    /\ Finish(c)

RevokeAllTokens(c) ==
    /\ At(c, "revoke_tokens")
    /\ SetTokens(Grants \X Kinds, "spent")
    /\ IF req[c].op = "deactivate" THEN Condemn(c)
       ELSE Goto(c, "revoke_sessions") /\ UNCHANGED condemned
    /\ UNCHANGED <<user, sessions, grants, counts, rotated, writes, flags>>

FaultyRevokeAllSessions(c) ==
    /\ At(c, "revoke_sessions")
    /\ RevokeSessions(Grants)
    /\ Condemn(c)
    /\ UNCHANGED <<user, tokens, grants, counts, rotated, writes, flags>>

RevokeAllSessions(c) ==
    /\ At(c, "revoke_sessions")
    /\ RevokeSessions(Grants)
    /\ IF req[c].op = "deactivate"
       THEN Goto(c, "revoke_tokens") /\ UNCHANGED condemned
       ELSE Condemn(c)
    /\ UNCHANGED <<user, tokens, grants, counts, rotated, writes, flags>>

-----------------------------------------------------------------------------
(***************************************************************************)
(* SessionService: revokeSession() and revokeOtherSessions(), which leaves *)
(* the tokens alone.                                                       *)
(***************************************************************************)

FindTarget(c) ==
    Checks(c, "find_target", sessions[req[c].target] = "active",
           "revoke_target")

RevokeTarget(c) ==
    /\ At(c, "revoke_target")
    /\ RevokeSessions({req[c].target})
    /\ Goto(c, "revoke_access")
    /\ UNCHANGED <<user, tokens, grants, counts, ghosts>>

RevokeTargetAccess(c) ==
    Spends(c, "revoke_access", {<<req[c].target, "access">>}, "revoke_refresh")

RevokeTargetRefresh(c) ==
    /\ At(c, "revoke_refresh")
    /\ SetTokens({<<req[c].target, "refresh">>}, "spent")
    /\ Finish(c)
    /\ UNCHANGED <<user, sessions, grants, counts, ghosts>>

FindCurrent(c) ==
    Checks(c, "find_current", sessions[req[c].grant] = "active",
           "revoke_others")

RevokeOthers(c) ==
    /\ At(c, "revoke_others")
    /\ RevokeSessions(Grants \ {req[c].grant})
    /\ Finish(c)
    /\ UNCHANGED <<user, tokens, grants, counts, ghosts>>

-----------------------------------------------------------------------------
(***************************************************************************)
(* Time and failures                                                       *)
(***************************************************************************)

(* expiresAt passes: the JWT is refused and the TTL indexes delete the     *)
(* documents.                                                              *)
Lapse(g) ==
    /\ mishaps < MaxMishaps
    /\ mishaps' = mishaps + 1
    /\ \/ \E k \in Kinds : /\ tokens[<<g, k>>] = "valid"
                           /\ SetTokens({<<g, k>>}, "lapsed")
                           /\ UNCHANGED sessions
       \/ /\ sessions[g] = "active"
          /\ sessions' = [sessions EXCEPT ![g] = "lapsed"]
          /\ UNCHANGED tokens
    /\ UNCHANGED <<user, grants, req, calls, ghosts>>

(* A rejected update that refreshTokens() and revokeSession() swallow.     *)
Swallowed(c) ==
    /\ mishaps < MaxMishaps
    /\ mishaps' = mishaps + 1
    /\ \/ At(c, "revoke_old_access") /\ Goto(c, "save_access")
       \/ At(c, "revoke_access") /\ Goto(c, "revoke_refresh")
       \/ At(c, "revoke_refresh") /\ Finish(c)
    /\ UNCHANGED <<docs, grants, calls, ghosts>>

(* Any other rejected call, or the end of the process.                     *)
Dies(c) ==
    /\ Busy(c) /\ mishaps < MaxMishaps
    /\ mishaps' = mishaps + 1
    /\ Finish(c)
    /\ UNCHANGED <<docs, grants, calls, ghosts>>

-----------------------------------------------------------------------------
Arrives(c) ==
    Register(c) \/ Login(c) \/ Refresh(c) \/ Authenticated(c) \/ ResetPassword(c)

Continues(c) ==
    \/ SaveUser(c) \/ CountSessions(c) \/ SaveAccess(c) \/ SaveRefresh(c)
    \/ CreateSession(c) \/ FindUser(c) \/ Retire(c) \/ FindSession(c)
    \/ RevokeOld(c) \/ RevokeOldAccess(c) \/ CheckSession(c) \/ FindToken(c)
    \/ RevokeOwn(c) \/ FindOwn(c) \/ RevokeOwnSession(c) \/ ReadUser(c)
    \/ WriteProfile(c) \/ OtpVerdict(c) \/ WritePassword(c) \/ WriteStatus(c)
    \/ RevokeAllTokens(c) \/ RevokeAllSessions(c) \/ FindTarget(c)
    \/ RevokeTarget(c) \/ RevokeTargetAccess(c) \/ RevokeTargetRefresh(c)
    \/ FindCurrent(c) \/ RevokeOthers(c)

Next ==
    \/ \E c \in Clients : Arrives(c) \/ Continues(c) \/ Swallowed(c) \/ Dies(c)
    \/ \E g \in Grants : Lapse(g)

Spec == Init /\ [][Next]_vars

-----------------------------------------------------------------------------
(***************************************************************************)
(* Properties                                                              *)
(***************************************************************************)

TypeOK ==
    /\ user \in User
    /\ tokens \in [Grants \X Kinds -> TokenStates]
    /\ sessions \in [Grants -> SessionStates]
    /\ made \in 0..MaxGrants /\ given \subseteq 1..made
    /\ req \in [Clients -> Request]
    /\ calls \in 0..MaxCalls /\ mishaps \in 0..MaxMishaps
    /\ condemned \subseteq given /\ rotated \subseteq given
    /\ writes \in Nat /\ overlapped \in BOOLEAN /\ crowded \in BOOLEAN

(* Once a password change or reset, a logout from everywhere or a          *)
(* deactivation is answered, no token or session its owner held when it    *)
(* arrived is ever good again, whatever refreshes were under way           *)
(* (auth.service.ts, UserService.deactivate).                              *)
CondemnedStayDead ==
    \A g \in condemned :
        /\ \A k \in Kinds : tokens[<<g, k>>] # "valid"
        /\ sessions[g] # "active"

(* Once a refresh is answered, the token it was made with refreshes        *)
(* nothing any more, nor is its session active (refreshTokens()).          *)
RotatedOnce ==
    \A g \in rotated :
        tokens[<<g, "refresh">>] # "valid" /\ sessions[g] # "active"

(* An active session has had both its tokens stored, and no request is     *)
(* about to store them: what fails half-way leaves tokens without a        *)
(* session, which the middleware refuses, never a session without tokens   *)
(* (the order of steps in login() and refreshTokens()).                    *)
SessionsHaveTokens ==
    \A g \in ActiveSessions : \A k \in Kinds : tokens[<<g, k>>] # "absent"

(* No more than MAX_SESSIONS sessions are active unless two logins or      *)
(* refreshes have overlapped, and then one counts while the other opens    *)
(* (login()).                                                              *)
OnlyOverlapExceeds == crowded \/ Cardinality(ActiveSessions) <= MaxSessions

(* The version counts the updates of the profile, unless two of them       *)
(* overlapped (assertVersionMatch() and the update that follows it).       *)
LostOnlyByOverlap == overlapped \/ user.version = writes

=============================================================================
