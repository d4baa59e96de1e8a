--------------------------- MODULE AccountsProofs ---------------------------
(***************************************************************************)
(* Theorems about Accounts, for every value of its constants.              *)
(*                                                                         *)
(* A token or a session is made good once, under a number no answer has    *)
(* named, so that whatever has been given to the owner can only fade. The  *)
(* invariant says of each request what it has made, what it has retired    *)
(* and what it has revoked so far; it follows from the steps of the        *)
(* request itself, and the steps of the others leave it true because       *)
(* things fade.                                                            *)
(*                                                                         *)
(* The second part is about two promises that the code keeps only while    *)
(* certain requests do not overlap.                                        *)
(***************************************************************************)
EXTENDS Accounts, FiniteSetTheorems, TLAPS

Writing == {"save_refresh", "session"}
AfterRetire == {"find_session", "revoke_old", "revoke_old_access",
                "save_access"} \cup Writing
AfterRevokeOld == {"revoke_old_access", "save_access"} \cup Writing

Refreshes == {"find_user", "retire", "find_session", "revoke_old",
              "revoke_old_access"}

(* Which operations take a step.                                           *)
Role(c) ==
    /\ req[c].pc = "save_user" => req[c].op = "register"
    /\ req[c].pc = "count" => req[c].op = "login"
    /\ req[c].pc \in {"check_session", "read_user"} =>
          req[c].op \in DOMAIN FirstStep
    /\ req[c].pc = "read_user" => req[c].op \notin {"logout", "logout_all"}
    /\ req[c].pc \in {"otp", "write_password"} => req[c].op # "deactivate"
    /\ req[c].pc = "write_status" => req[c].op = "deactivate"
    /\ req[c].pc \in Refreshes \/ req[c].rotate => req[c].op = "refresh"

(* What a request is about to give has a new number, and is stored in      *)
(* order.                                                                  *)
Fresh(c) ==
    req[c].pc \in Writing =>
        /\ req[c].new \in 1..made /\ req[c].new \notin given
        /\ tokens[<<req[c].new, "access">>] # "absent"
        /\ req[c].pc = "session" => tokens[<<req[c].new, "refresh">>] # "absent"

(* What a refresh replaces is gone before anything new is made.            *)
Retired(c) ==
    req[c].op = "refresh" =>
        /\ req[c].grant \in given
        /\ req[c].pc \in AfterRetire =>
              tokens[<<req[c].grant, "refresh">>] # "valid"
        /\ req[c].pc \in AfterRevokeOld => sessions[req[c].grant] # "active"

(* Half of what a request revokes is gone before the other half.           *)
Halfway(c) ==
    /\ req[c].known \subseteq given
    /\ req[c].pc = "revoke_tokens" /\ req[c].op = "deactivate" =>
          \A g \in req[c].known : sessions[g] # "active"
    /\ req[c].pc = "revoke_sessions" /\ req[c].op # "deactivate" =>
          \A g \in req[c].known : \A k \in Kinds : tokens[<<g, k>>] # "valid"

Sound(c) == Role(c) /\ Fresh(c) /\ Retired(c) /\ Halfway(c)

(* No two requests make the same grant.                                    *)
Distinct ==
    \A c, d \in Clients :
        c # d /\ req[c].pc \in Writing /\ req[d].pc \in Writing =>
            req[c].new # req[d].new

AccountInv ==
    /\ TypeOK
    /\ \A c \in Clients : Sound(c)
    /\ Distinct
    /\ SessionsHaveTokens /\ CondemnedStayDead /\ RotatedOnce

-----------------------------------------------------------------------------
(* What a step may do to what has been given: nothing that has faded is    *)
(* good again, and nothing stored is removed.                              *)
Fades ==
    /\ given \subseteq given' /\ made' \in Nat /\ made <= made'
    /\ \A t \in Grants \X Kinds : tokens[t] # "absent" => tokens'[t] # "absent"
    /\ \A g \in given :
          /\ \A k \in Kinds :
                tokens[<<g, k>>] # "valid" => tokens'[<<g, k>>] # "valid"
          /\ sessions[g] # "active" => sessions'[g] # "active"

(* The requests other than c are where they were, c gives only what it has *)
(* made, and whatever is counted as good, revoked or rotated afterwards is *)
(* so.                                                                     *)
Tidy(c) ==
    /\ Fades
    /\ \A d \in Clients \ {c} : req'[d] = req[d]
    /\ \/ given' = given
       \/ /\ req[c].pc \in Writing /\ req'[c].pc \notin Writing
          /\ given' = given \cup {req[c].new}
    /\ req'[c].pc \in Writing =>
          \/ req'[c].new \notin 1..made
          \/ req[c].pc \in Writing /\ req'[c].new = req[c].new
    /\ \A g \in Grants : sessions'[g] = "active" /\ sessions[g] # "active" =>
          \A k \in Kinds : tokens'[<<g, k>>] # "absent"
    /\ \A g \in condemned' \ condemned :
          /\ \A k \in Kinds : tokens'[<<g, k>>] # "valid"
          /\ sessions'[g] # "active"
    /\ \A g \in rotated' \ rotated :
          tokens'[<<g, "refresh">>] # "valid" /\ sessions'[g] # "active"

-----------------------------------------------------------------------------
(* The grants given are among all grants.                                  *)
LEMMA GrantShape ==
    ASSUME TypeOK
    PROVE  /\ given \subseteq Grants /\ 1..made \subseteq Grants
           /\ "access" \in Kinds /\ "refresh" \in Kinds
BY AccountsAssumption DEF TypeOK, Grants, Kinds

(* A request that takes no step stays sound while things fade.             *)
LEMMA RestingStaysSound ==
    ASSUME TypeOK, Fades, NEW d \in Clients, Sound(d), req'[d] = req[d],
           req[d].pc \in Writing => req[d].new \notin given'
    PROVE  Sound(d)'
<1>1. Role(d)'
    BY DEF Sound, Role
<1>2. Fresh(d)'
  <2>1. made \in Nat
    BY AccountsAssumption DEF TypeOK
  <2> QED
    BY <2>1, GrantShape DEF Sound, Fresh, Fades, Writing
<1>3. Retired(d)'
    BY GrantShape DEF Sound, Retired, Fades
<1>4. Halfway(d)'
    BY GrantShape DEF Sound, Halfway, Fades
<1> QED
    BY <1>1, <1>2, <1>3, <1>4 DEF Sound

(* What is true of sessions and revoked grants stays so.                   *)
LEMMA FadingKeeps ==
    ASSUME AccountInv, Fades,
           \A g \in Grants : sessions'[g] = "active" /\ sessions[g] # "active" =>
               \A k \in Kinds : tokens'[<<g, k>>] # "absent",
           \A g \in condemned' \ condemned :
               /\ \A k \in Kinds : tokens'[<<g, k>>] # "valid"
               /\ sessions'[g] # "active",
           \A g \in rotated' \ rotated :
               tokens'[<<g, "refresh">>] # "valid" /\ sessions'[g] # "active"
    PROVE  SessionsHaveTokens' /\ CondemnedStayDead' /\ RotatedOnce'
<1>1. SessionsHaveTokens'
    BY DEF AccountInv, SessionsHaveTokens, ActiveSessions, Fades
<1>2. CondemnedStayDead'
    BY DEF AccountInv, TypeOK, CondemnedStayDead, Fades
<1>3. RotatedOnce'
    BY GrantShape DEF AccountInv, TypeOK, RotatedOnce, Fades
<1> QED
    BY <1>1, <1>2, <1>3

(* A tidy step of c keeps the invariant if it leaves c sound.              *)
LEMMA TidyStep ==
    ASSUME AccountInv, NEW c \in Clients, Tidy(c), TypeOK', Sound(c)'
    PROVE  AccountInv'
<1>1. ASSUME NEW d \in Clients, d # c
      PROVE  Sound(d)'
  <2>1. req[d].pc \in Writing => req[d].new \notin given'
    BY <1>1 DEF AccountInv, Distinct, Tidy, Sound, Fresh
  <2> QED
    BY <1>1, <2>1, RestingStaysSound DEF AccountInv, Tidy
<1>2. Distinct'
  <2> SUFFICES ASSUME NEW a \in Clients, NEW b \in Clients, a # b,
                      req'[a].pc \in Writing, req'[b].pc \in Writing
               PROVE  req'[a].new # req'[b].new
    BY DEF Distinct
  <2>1. CASE a # c /\ b # c
    BY <2>1 DEF AccountInv, Distinct, Tidy
  <2>2. CASE a = c
    BY <2>2 DEF AccountInv, Distinct, Tidy, Sound, Fresh
  <2>3. CASE b = c
    BY <2>3 DEF AccountInv, Distinct, Tidy, Sound, Fresh
  <2> QED
    BY <2>1, <2>2, <2>3
<1>3. SessionsHaveTokens' /\ CondemnedStayDead' /\ RotatedOnce'
    BY FadingKeeps DEF Tidy
<1> QED
    BY <1>1, <1>2, <1>3 DEF AccountInv

-----------------------------------------------------------------------------
(* The record of a request has the fields of a request.                    *)
LEMMA RequestShape ==
    ASSUME TypeOK, NEW c \in Clients
    PROVE  /\ req[c] \in Request
           /\ req[c].op \in Operations \cup {"none"}
           /\ req[c].grant \in 0..MaxGrants /\ req[c].new \in 0..MaxGrants
           /\ req[c].target \in 0..MaxGrants
           /\ req[c].version \in Nat \cup {NoVersion}
           /\ req[c].rotate \in BOOLEAN /\ req[c].known \subseteq Grants
BY DEF TypeOK, Request

Blank == [pc: {"none"}, op: {"none"}, grant: 0..MaxGrants,
          new: 0..MaxGrants, target: 0..MaxGrants,
          version: Nat \cup {NoVersion}, rotate: {FALSE}, known: {{}}]

LEMMA BlankShape == NoCall \in Blank
<1>1. 0 \in 0..MaxGrants
    BY AccountsAssumption
<1> QED
    BY <1>1 DEF NoCall, Blank

LEMMA IdleShape ==
    /\ Idle \in Request /\ Idle.pc = "idle" /\ Idle.op = "none"
    /\ Idle.rotate = FALSE /\ Idle.known = {}
<1> DEFINE q == NoCall
<1>1. q \in Blank
    BY BlankShape
<1>2. Idle = [q EXCEPT !.pc = "idle"] /\ "idle" \in Steps
    BY DEF Idle, Steps
<1> HIDE DEF q
<1> QED
    BY <1>1, <1>2 DEF Blank, Request

(* Replacing the record of one request.                                    *)
LEMMA BecomeType ==
    ASSUME TypeOK, NEW c \in Clients, NEW r \in Request, Become(c, r)
    PROVE  /\ req' \in [Clients -> Request]
           /\ req'[c] = r
           /\ \A d \in Clients \ {c} : req'[d] = req[d]
BY DEF TypeOK, Become

(* Going on to another step.                                               *)
LEMMA GotoType ==
    ASSUME TypeOK, NEW c \in Clients, NEW pc \in Steps, Goto(c, pc)
    PROVE  /\ req' \in [Clients -> Request]
           /\ req'[c] = [req[c] EXCEPT !.pc = pc]
           /\ req'[c].pc = pc /\ req'[c].op = req[c].op
           /\ req'[c].grant = req[c].grant /\ req'[c].new = req[c].new
           /\ req'[c].rotate = req[c].rotate /\ req'[c].known = req[c].known
           /\ req'[c].version = req[c].version
           /\ \A d \in Clients \ {c} : req'[d] = req[d]
<1>1. [req[c] EXCEPT !.pc = pc] \in Request
    BY RequestShape DEF Request
<1>2. Become(c, [req[c] EXCEPT !.pc = pc])
    BY DEF Goto
<1> QED
    BY <1>1, <1>2, BecomeType, RequestShape DEF Request

(* Being answered.                                                         *)
LEMMA FinishType ==
    ASSUME TypeOK, NEW c \in Clients, Finish(c)
    PROVE  /\ req' \in [Clients -> Request]
           /\ req'[c] = Idle
           /\ \A d \in Clients \ {c} : req'[d] = req[d]
BY IdleShape, BecomeType DEF Finish

(* A request that is idle has nothing to account for.                      *)
LEMMA IdleIsSound ==
    ASSUME NEW c \in Clients, req'[c] = Idle
    PROVE  Sound(c)' /\ req'[c].pc \notin Writing
BY IdleShape DEF Sound, Role, Fresh, Retired, Halfway, Writing, Refreshes,
                 SessionOpeners

-----------------------------------------------------------------------------
(* A step of c that leaves tokens, sessions and grants alone.              *)
LEMMA QuietStep ==
    ASSUME AccountInv, NEW c \in Clients, TypeOK',
           UNCHANGED <<tokens, sessions, made, given, condemned, rotated>>,
           \A d \in Clients \ {c} : req'[d] = req[d],
           req'[c].pc \notin Writing, Sound(c)'
    PROVE  AccountInv'
<1>1. made \in Nat
    BY AccountsAssumption DEF AccountInv, TypeOK
<1>2. Tidy(c)
    BY <1>1 DEF Tidy, Fades
<1> QED
    BY <1>2, TidyStep

(* A request that is refused or fails, with nothing changed.               *)
LEMMA GiveUpStep ==
    ASSUME AccountInv, NEW c \in Clients, Finish(c),
           UNCHANGED <<docs, grants, calls, ghosts>>,
           mishaps' \in 0..MaxMishaps
    PROVE  AccountInv'
<1>1. TypeOK'
    BY FinishType DEF AccountInv, TypeOK, docs, grants, ghosts, flags
<1> QED
    BY <1>1, FinishType, IdleIsSound, QuietStep
    DEF AccountInv, docs, grants, ghosts

(* A request that goes on with nothing changed.                            *)
LEMMA GoOnStep ==
    ASSUME AccountInv, NEW c \in Clients, NEW pc \in Steps, Goto(c, pc),
           UNCHANGED <<docs, grants, calls, ghosts>>,
           mishaps' \in 0..MaxMishaps, pc \notin Writing, Sound(c)'
    PROVE  AccountInv'
<1>1. TypeOK'
    BY GotoType DEF AccountInv, TypeOK, docs, grants, ghosts, flags
<1> QED
    BY <1>1, GotoType, QuietStep DEF AccountInv, docs, grants, ghosts

(* A check passes or is refused.                                           *)
LEMMA ChecksStep ==
    ASSUME AccountInv, NEW c \in Clients, NEW pc, NEW next \in Steps,
           NEW condition, Checks(c, pc, condition, next),
           next \notin Writing,
           condition /\ Goto(c, next) => Sound(c)'
    PROVE  AccountInv'
<1>1. UNCHANGED <<docs, grants, calls, ghosts>> /\ mishaps' \in 0..MaxMishaps
    BY DEF Checks, counts, AccountInv, TypeOK
<1>2. CASE condition
    BY <1>1, <1>2, GoOnStep DEF Checks
<1>3. CASE ~condition
    BY <1>1, <1>3, GiveUpStep DEF Checks
<1> QED
    BY <1>2, <1>3

-----------------------------------------------------------------------------
(* Valid tokens are marked as spent or lapsed.                             *)
LEMMA SetTokensFades ==
    ASSUME TypeOK, NEW ts, NEW to \in {"spent", "lapsed"}, SetTokens(ts, to)
    PROVE  /\ tokens' \in [Grants \X Kinds -> TokenStates]
           /\ \A t \in Grants \X Kinds :
                 /\ tokens[t] # "absent" => tokens'[t] # "absent"
                 /\ tokens[t] # "valid" => tokens'[t] # "valid"
                 /\ t \in ts => tokens'[t] # "valid"
BY DEF TypeOK, SetTokens, TokenStates

(* Active sessions are revoked.                                            *)
LEMMA RevokeFades ==
    ASSUME TypeOK, NEW gs, RevokeSessions(gs)
    PROVE  /\ sessions' \in [Grants -> SessionStates]
           /\ \A g \in Grants :
                 /\ sessions[g] # "active" => sessions'[g] # "active"
                 /\ g \in gs => sessions'[g] # "active"
BY DEF TypeOK, RevokeSessions, SessionStates

(* A step of c that only spends tokens.                                    *)
LEMMA SpendingStep ==
    ASSUME AccountInv, NEW c \in Clients, NEW ts,
           SetTokens(ts, "spent"), TypeOK', Sound(c)',
           UNCHANGED <<sessions, made, given, condemned, rotated>>,
           \A d \in Clients \ {c} : req'[d] = req[d],
           req'[c].pc \notin Writing
    PROVE  AccountInv'
<1>1. made \in Nat
    BY AccountsAssumption DEF AccountInv, TypeOK
<1>2. Fades
    BY <1>1, SetTokensFades, GrantShape DEF Fades, AccountInv
<1>3. Tidy(c)
    BY <1>2 DEF Tidy
<1> QED
    BY <1>3, TidyStep

LEMMA SpendsStep ==
    ASSUME AccountInv, NEW c \in Clients, NEW pc, NEW ts, NEW next \in Steps,
           Spends(c, pc, ts, next), next \notin Writing, Sound(c)'
    PROVE  AccountInv'
<1>1. tokens' \in [Grants \X Kinds -> TokenStates]
    BY SetTokensFades DEF Spends, AccountInv
<1>2. Goto(c, next) /\ UNCHANGED <<user, sessions, grants, counts, ghosts>>
    BY DEF Spends
<1>3. TypeOK'
    BY <1>1, <1>2, GotoType DEF AccountInv, TypeOK, grants, counts, ghosts, flags
<1> QED
    BY <1>2, <1>3, GotoType, SpendingStep
    DEF Spends, AccountInv, grants, ghosts

(* A step of c that only revokes sessions.                                 *)
LEMMA RevokingStep ==
    ASSUME AccountInv, NEW c \in Clients, NEW gs,
           RevokeSessions(gs), TypeOK', Sound(c)',
           UNCHANGED <<tokens, made, given, condemned, rotated>>,
           \A d \in Clients \ {c} : req'[d] = req[d],
           req'[c].pc \notin Writing
    PROVE  AccountInv'
<1>1. made \in Nat
    BY AccountsAssumption DEF AccountInv, TypeOK
<1>2. Fades
    BY <1>1, RevokeFades, GrantShape DEF Fades, AccountInv
<1>3. Tidy(c)
    BY <1>2, RevokeFades DEF Tidy, AccountInv
<1> QED
    BY <1>3, TidyStep

-----------------------------------------------------------------------------
(* A request arrives.                                                      *)
LEMMA ArriveStep ==
    ASSUME AccountInv, NEW c \in Clients, NEW r \in Request, Arrive(c, r),
           r.op = "refresh" => r.grant \in given,
           \/ r.pc = "save_user" /\ r.op = "register"
           \/ r.pc = "count" /\ r.op = "login"
           \/ r.pc = "find_user" /\ r.op = "refresh"
           \/ r.pc = "check_session" /\ r.op \in DOMAIN FirstStep
           \/ r.pc = "otp" /\ r.op = "reset",
           ~r.rotate
    PROVE  AccountInv'
<1> DEFINE q == [r EXCEPT !.known = given]
<1>1. q \in Request /\ q.pc = r.pc /\ q.op = r.op /\ q.grant = r.grant
      /\ ~q.rotate /\ q.known = given
    BY GrantShape DEF Request, AccountInv
<1>2. Become(c, q)
    BY DEF Arrive
<1>3. /\ req' \in [Clients -> Request] /\ req'[c] = q
      /\ \A d \in Clients \ {c} : req'[d] = req[d]
    BY <1>1, <1>2, BecomeType DEF AccountInv
<1> HIDE DEF q
<1>4. TypeOK'
  <2>1. calls' \in 0..MaxCalls
    BY AccountsAssumption DEF Arrive, AccountInv, TypeOK
  <2>2. crowded' \in BOOLEAN
    BY DEF Arrive, AccountInv, TypeOK
  <2> QED
    BY <1>3, <2>1, <2>2 DEF Arrive, AccountInv, TypeOK, docs, grants
<1>5. Sound(c)'
  <2>1. UNCHANGED <<tokens, sessions, made, given>>
    BY DEF Arrive, docs, grants
  <2>2. Role(c)'
    BY <1>1, <1>3 DEF Role, Refreshes, FirstStep
  <2>3. Fresh(c)'
    BY <1>1, <1>3 DEF Fresh, Writing
  <2>4. Retired(c)'
    BY <1>1, <1>3, <2>1 DEF Retired, AfterRetire, AfterRevokeOld, Writing
  <2>5. Halfway(c)'
    BY <1>1, <1>3, <2>1 DEF Halfway
  <2> QED
    BY <2>2, <2>3, <2>4, <2>5 DEF Sound
<1>6. req'[c].pc \notin Writing
    BY <1>1, <1>3 DEF Writing
<1> QED
    BY <1>3, <1>4, <1>5, <1>6, QuietStep DEF Arrive, docs, grants

LEMMA CallShape ==
    ASSUME NEW op \in Operations, NEW pc \in Steps, NEW g \in 0..MaxGrants
    PROVE  /\ Call(op, pc, g) \in Request
           /\ Call(op, pc, g).pc = pc /\ Call(op, pc, g).op = op
           /\ Call(op, pc, g).grant = g /\ ~Call(op, pc, g).rotate
<1> DEFINE q == NoCall
<1>1. q \in Blank
    BY BlankShape
<1>2. Call(op, pc, g) = [q EXCEPT !.op = op, !.pc = pc, !.grant = g]
    BY DEF Call
<1> HIDE DEF q
<1> QED
    BY <1>1, <1>2 DEF Blank, Request

(* It arrives at the first step of an operation without a session.         *)
LEMMA CallStep ==
    ASSUME AccountInv, NEW c \in Clients, NEW op \in Operations,
           NEW pc \in Steps, NEW g \in 0..MaxGrants,
           Arrive(c, Call(op, pc, g)),
           op = "refresh" => g \in given,
           \/ pc = "save_user" /\ op = "register"
           \/ pc = "count" /\ op = "login"
           \/ pc = "find_user" /\ op = "refresh"
           \/ pc = "otp" /\ op = "reset"
    PROVE  AccountInv'
<1>1. PICK r : r = Call(op, pc, g)
    OBVIOUS
<1>2. /\ r \in Request /\ r.pc = pc /\ r.op = op /\ r.grant = g
      /\ ~r.rotate
    BY <1>1, CallShape
<1>3. Arrive(c, r)
    BY <1>1
<1> QED
    BY <1>2, <1>3, ArriveStep

LEMMA ArrivesStep ==
    ASSUME AccountInv, NEW c \in Clients, Arrives(c)
    PROVE  AccountInv'
<1>0. 0 \in 0..MaxGrants /\ Grants \subseteq 0..MaxGrants
    BY AccountsAssumption DEF Grants
<1>1. CASE Register(c)
    BY <1>0, <1>1, CallStep DEF Register, Operations, Steps
<1>2. CASE Login(c)
    BY <1>0, <1>2, CallStep DEF Login, Operations, Steps
<1>3. CASE Refresh(c)
  <2>1. PICK g \in given : Arrive(c, Call("refresh", "find_user", g))
    BY <1>3 DEF Refresh
  <2>2. g \in 0..MaxGrants
    BY <1>0, GrantShape DEF AccountInv
  <2>3. "refresh" \in Operations /\ "find_user" \in Steps
    BY DEF Operations, Steps
  <2> QED
    BY <2>1, <2>2, <2>3, CallStep
<1>4. CASE Authenticated(c)
  <2>1. PICK g \in given, op \in DOMAIN FirstStep, h \in Grants,
             v \in {user.version, NoVersion} :
          Arrive(c, [Call(op, "check_session", g)
                        EXCEPT !.target = h, !.version = v])
    BY <1>4 DEF Authenticated
  <2>2. PICK q, r : /\ q = Call(op, "check_session", g)
                    /\ r = [q EXCEPT !.target = h, !.version = v]
    OBVIOUS
  <2>3. g \in 0..MaxGrants /\ h \in 0..MaxGrants
    BY <1>0, GrantShape DEF AccountInv
  <2>4. op \in Operations /\ op # "refresh" /\ "check_session" \in Steps
    BY DEF Operations, Steps, FirstStep
  <2>5. /\ q \in Request /\ q.pc = "check_session" /\ q.op = op
        /\ ~q.rotate
    BY <2>2, <2>3, <2>4, CallShape
  <2>6. v \in Nat \cup {NoVersion}
    BY DEF AccountInv, TypeOK, User
  <2>7. /\ r \in Request /\ r.pc = "check_session" /\ r.op = op
        /\ ~r.rotate
    BY <2>2, <2>3, <2>5, <2>6 DEF Request
  <2>8. Arrive(c, r)
    BY <2>1, <2>2
  <2> QED
    BY <2>4, <2>7, <2>8, ArriveStep
<1>5. CASE ResetPassword(c)
    BY <1>0, <1>5, CallStep DEF ResetPassword, Operations, Steps
<1> QED
    BY <1>1, <1>2, <1>3, <1>4, <1>5 DEF Arrives

-----------------------------------------------------------------------------
(* Going on to another step leaves a request sound if the step is one of   *)
(* its operation and what is to be gone by then is gone.                   *)
LEMMA MovedIsSound ==
    ASSUME AccountInv, NEW c \in Clients, NEW next, Fades,
           req'[c].pc = next, req'[c].op = req[c].op,
           req'[c].grant = req[c].grant, req'[c].known = req[c].known,
           req'[c].rotate => req[c].op = "refresh",
           next \notin Writing,
           next \notin {"save_user", "count", "otp", "check_session"},
           next = "read_user" =>
               /\ req[c].op \in DOMAIN FirstStep
               /\ req[c].op \notin {"logout", "logout_all"},
           next = "write_password" => req[c].op # "deactivate",
           next = "write_status" => req[c].op = "deactivate",
           next \in Refreshes => req[c].op = "refresh",
           req[c].op = "refresh" =>
               /\ next \in AfterRetire =>
                     tokens'[<<req[c].grant, "refresh">>] # "valid"
               /\ next \in AfterRevokeOld => sessions'[req[c].grant] # "active",
           next = "revoke_tokens" /\ req[c].op = "deactivate" =>
               \A g \in req[c].known : sessions'[g] # "active",
           next = "revoke_sessions" /\ req[c].op # "deactivate" =>
               \A g \in req[c].known : \A k \in Kinds :
                   tokens'[<<g, k>>] # "valid"
    PROVE  Sound(c)'
<1>1. Role(c)'
    BY DEF Role
<1>2. Fresh(c)'
    BY DEF Fresh
<1>3. Retired(c)'
    BY DEF Retired, Sound, AccountInv, Fades
<1>4. Halfway(c)'
    BY DEF Halfway, Sound, AccountInv, Fades
<1> QED
    BY <1>1, <1>2, <1>3, <1>4 DEF Sound

(* Steps that only read.                                                   *)
LEMMA ReadStep ==
    ASSUME AccountInv, NEW c \in Clients,
           \/ CountSessions(c) \/ FindUser(c) \/ CheckSession(c)
           \/ FindToken(c) \/ FindOwn(c) \/ OtpVerdict(c) \/ WritePassword(c)
           \/ FindTarget(c) \/ FindCurrent(c)
    PROVE  AccountInv'
<1>0. made \in Nat
    BY AccountsAssumption DEF AccountInv, TypeOK
<1>1. ASSUME NEW next \in Steps, Goto(c, next),
             UNCHANGED <<tokens, sessions, made, given>>,
             next \notin {"save_user", "count", "otp", "check_session",
                          "write_status", "find_session", "revoke_old",
                          "revoke_old_access", "find_user", "revoke_sessions"},
             next \notin Writing,
             next = "read_user" =>
                 /\ req[c].op \in DOMAIN FirstStep
                 /\ req[c].op \notin {"logout", "logout_all"},
             next = "write_password" => req[c].op # "deactivate",
             next = "retire" => req[c].op = "refresh",
             next = "save_access" => req[c].op # "refresh",
             next = "revoke_tokens" => req[c].op # "deactivate"
      PROVE  Sound(c)'
  <2>1. /\ req'[c].pc = next /\ req'[c].op = req[c].op
        /\ req'[c].grant = req[c].grant /\ req'[c].known = req[c].known
        /\ req'[c].rotate = req[c].rotate
    BY <1>1, GotoType DEF AccountInv
  <2>2. Fades
    BY <1>0, <1>1 DEF Fades
  <2>3. req'[c].rotate => req[c].op = "refresh"
    BY <2>1 DEF AccountInv, Sound, Role
  <2> QED
    BY <1>1, <2>1, <2>2, <2>3, MovedIsSound DEF Refreshes, AfterRetire, AfterRevokeOld
<1>2. Role(c) /\ UNCHANGED <<tokens, sessions, made, given>>
    BY DEF AccountInv, Sound, CountSessions, FindUser, CheckSession, FindToken,
           FindOwn, OtpVerdict, WritePassword, FindTarget, FindCurrent, Checks,
           docs, grants
<1>3. CASE CountSessions(c)
    BY <1>1, <1>2, <1>3, ChecksStep
    DEF CountSessions, Checks, Steps, Writing, Role, At
<1>4. CASE FindUser(c)
    BY <1>1, <1>2, <1>4, ChecksStep
    DEF FindUser, Checks, Steps, Writing, Role, At, Refreshes
<1>5. CASE CheckSession(c)
  <2> DEFINE next == FirstStep[req[c].op]
  <2>1. req[c].op \in DOMAIN FirstStep
    BY <1>2, <1>5 DEF CheckSession, Checks, At, Role
  <2>2. /\ next \in {"find_token", "revoke_tokens", "read_user"}
        /\ next = "read_user" => req[c].op \notin {"logout", "logout_all"}
        /\ next = "revoke_tokens" => req[c].op = "logout_all"
    BY <2>1 DEF FirstStep
  <2>3. next \in Steps /\ next \notin Writing
    BY <2>2 DEF Steps, Writing
  <2>4. Checks(c, "check_session", sessions[req[c].grant] = "active", next)
    BY <1>5 DEF CheckSession
  <2>5. ASSUME Goto(c, next) PROVE Sound(c)'
    <3> HIDE DEF next
    <3> QED
      BY <1>1, <1>2, <2>1, <2>2, <2>3, <2>4, <2>5 DEF Checks
  <2> HIDE DEF next
  <2> QED
    BY <2>3, <2>4, <2>5, ChecksStep
<1>6. CASE FindToken(c)
    BY <1>1, <1>2, <1>6, ChecksStep DEF FindToken, Checks, Steps, Writing
<1>7. CASE FindOwn(c)
    BY <1>1, <1>2, <1>7, ChecksStep DEF FindOwn, Checks, Steps, Writing
<1>8. CASE OtpVerdict(c)
  <2>1. PICK accepted \in BOOLEAN :
          Checks(c, "otp", accepted, "write_password")
    BY <1>8 DEF OtpVerdict
  <2> QED
    BY <1>1, <1>2, <2>1, ChecksStep DEF Checks, Steps, Writing, Role, At
<1>9. CASE WritePassword(c)
    BY <1>1, <1>2, <1>9, ChecksStep
    DEF WritePassword, Checks, Steps, Writing, Role, At
<1>10. CASE FindTarget(c)
    BY <1>1, <1>2, <1>10, ChecksStep DEF FindTarget, Checks, Steps, Writing
<1>11. CASE FindCurrent(c)
    BY <1>1, <1>2, <1>11, ChecksStep DEF FindCurrent, Checks, Steps, Writing
<1> QED
    BY <1>3, <1>4, <1>5, <1>6, <1>7, <1>8, <1>9, <1>10, <1>11

-----------------------------------------------------------------------------
(* Steps that change the user record, or read for a change.                *)
LEMMA UserStep ==
    ASSUME AccountInv, NEW c \in Clients,
           \/ SaveUser(c) \/ FindSession(c) \/ ReadUser(c) \/ WriteProfile(c)
           \/ WriteStatus(c)
    PROVE  AccountInv'
<1>0. /\ TypeOK /\ Sound(c) /\ Role(c) /\ made \in Nat
      /\ req[c].version \in Nat \cup {NoVersion} /\ user.version \in Nat
    BY AccountsAssumption, RequestShape DEF AccountInv, Sound, TypeOK, User
<1>1. UNCHANGED <<tokens, sessions, made, given, condemned, rotated>>
      /\ UNCHANGED <<calls, mishaps, crowded>>
    BY DEF SaveUser, FindSession, ReadUser, WriteProfile, WriteStatus, docs,
           grants, counts, ghosts, flags
<1>2. Fades
    BY <1>0, <1>1 DEF Fades
<1>3. CASE SaveUser(c)
  <2>1. user' \in User /\ UNCHANGED <<writes, overlapped>>
    BY <1>0, <1>3 DEF SaveUser, TypeOK, User, ghosts, flags
  <2>2. CASE user.status = "absent"
    <3>1. Goto(c, "save_access") /\ "save_access" \in Steps
          /\ req[c].op = "register"
      BY <1>0, <1>3, <2>2 DEF SaveUser, Steps, Role, At
    <3>2. TypeOK'
      BY <1>0, <1>1, <2>1, <3>1, GotoType DEF TypeOK
    <3>3. Sound(c)' /\ req'[c].pc \notin Writing
      BY <1>0, <1>2, <3>1, GotoType, MovedIsSound
      DEF Role, Refreshes, Writing
    <3> QED
      BY <1>0, <1>1, <3>1, <3>2, <3>3, GotoType, QuietStep
  <2>3. CASE user.status # "absent"
    <3>1. Finish(c)
      BY <1>3, <2>3 DEF SaveUser
    <3>2. TypeOK'
      BY <1>0, <1>1, <2>1, <3>1, FinishType DEF TypeOK
    <3> QED
      BY <1>0, <1>1, <3>1, <3>2, FinishType, IdleIsSound, QuietStep
  <2> QED
    BY <2>2, <2>3
<1>4. CASE FindSession(c)
  <2> DEFINE live == sessions[req[c].grant] = "active"
             r == [req[c] EXCEPT !.rotate = live,
                                 !.pc = IF live THEN "revoke_old"
                                        ELSE "save_access"]
  <2>1. r \in Request /\ Become(c, r)
        /\ r.pc = (IF live THEN "revoke_old" ELSE "save_access")
        /\ r.op = req[c].op /\ r.grant = req[c].grant /\ r.known = req[c].known
    <3>1. req[c] \in Request /\ live \in BOOLEAN
      BY <1>0, RequestShape
    <3>2. Become(c, r)
      BY <1>4 DEF FindSession
    <3>3. (IF live THEN "revoke_old" ELSE "save_access") \in Steps
      BY DEF Steps
    <3> HIDE DEF live
    <3> QED
      BY <3>1, <3>2, <3>3 DEF Request
  <2>2. req[c].op = "refresh" /\ req[c].pc = "find_session"
    BY <1>0, <1>4 DEF FindSession, At, Role, Refreshes
  <2> HIDE DEF r
  <2>3. /\ req' \in [Clients -> Request] /\ req'[c] = r
        /\ \A d \in Clients \ {c} : req'[d] = req[d]
    BY <1>0, <2>1, BecomeType
  <2>4. TypeOK'
    BY <1>0, <1>1, <1>4, <2>3
    DEF TypeOK, FindSession, docs, ghosts, flags
  <2>5. tokens'[<<req[c].grant, "refresh">>] # "valid"
    BY <1>0, <1>1, <2>2 DEF Sound, Retired, AfterRetire
  <2>6. r.pc \in AfterRevokeOld => sessions'[req[c].grant] # "active"
    BY <1>1, <2>1 DEF AfterRevokeOld, Writing
  <2>7. r.pc \in {"revoke_old", "save_access"}
    BY <2>1
  <2>8. r.pc \notin Writing
    BY <2>7 DEF Writing
  <2>9. Sound(c)'
    BY <1>2, <2>1, <2>2, <2>3, <2>5, <2>6, <2>7, <2>8, MovedIsSound
  <2> QED
    BY <1>1, <2>3, <2>4, <2>8, <2>9, QuietStep
<1>5. CASE ReadUser(c)
  <2>1. TypeOK' /\ Sound(c)' /\ req'[c].pc \notin Writing
        /\ \A d \in Clients \ {c} : req'[d] = req[d]
    <3>1. overlapped' \in BOOLEAN /\ UNCHANGED <<user, writes>>
      BY <1>0, <1>5 DEF ReadUser, docs, TypeOK
    <3> DEFINE r == [req[c] EXCEPT !.pc = AfterUser(req[c]),
                                   !.version = user.version]
    <3>2. Become(c, r) \/ Finish(c)
      BY <1>5 DEF ReadUser
    <3>3. CASE Finish(c)
      BY <1>0, <1>1, <3>1, <3>3, FinishType, IdleIsSound DEF TypeOK
    <3>4. CASE Become(c, r)
      <4>1. req[c].pc = "read_user" /\ req[c].op \in DOMAIN FirstStep
            /\ req[c].op \notin {"logout", "logout_all"}
        BY <1>0, <1>5 DEF ReadUser, At, Role
      <4>2. /\ AfterUser(req[c]) \in {"write_password", "write_status",
                   "find_target", "find_current", "write_profile"}
            /\ AfterUser(req[c]) = "write_password" =>
                   req[c].op = "change_password"
            /\ AfterUser(req[c]) = "write_status" => req[c].op = "deactivate"
        BY <4>1 DEF AfterUser, FirstStep
      <4> HIDE DEF AfterUser
      <4>3. AfterUser(req[c]) \in Steps /\ AfterUser(req[c]) \notin Writing
            /\ AfterUser(req[c]) \notin Refreshes
            /\ AfterUser(req[c]) \notin AfterRetire \cup AfterRevokeOld
        BY <4>2 DEF Steps, Writing, Refreshes, AfterRetire, AfterRevokeOld
      <4>4. r \in Request /\ r.pc = AfterUser(req[c])
            /\ r.op = req[c].op /\ r.grant = req[c].grant
            /\ r.known = req[c].known /\ r.rotate = req[c].rotate
        BY <1>0, <4>3, RequestShape DEF Request
      <4> HIDE DEF r
      <4>5. /\ req' \in [Clients -> Request] /\ req'[c] = r
            /\ \A d \in Clients \ {c} : req'[d] = req[d]
        BY <1>0, <3>4, <4>4, BecomeType
      <4>6. TypeOK'
        BY <1>0, <1>1, <3>1, <4>5 DEF TypeOK
      <4>7. Sound(c)'
        BY <1>0, <1>2, <4>2, <4>3, <4>4, <4>5, MovedIsSound DEF Role
      <4> QED
        BY <4>3, <4>4, <4>5, <4>6, <4>7
    <3> QED
      BY <3>2, <3>3, <3>4
  <2> QED
    BY <1>1, <2>1, QuietStep
<1>6. CASE WriteProfile(c)
  <2>1. user' \in User /\ writes' \in Nat /\ Finish(c) /\ UNCHANGED overlapped
    BY <1>0, <1>6 DEF WriteProfile, TypeOK, User, NoVersion, flags
  <2>2. TypeOK'
    BY <1>0, <1>1, <2>1, FinishType DEF TypeOK
  <2> QED
    BY <1>0, <1>1, <2>1, <2>2, FinishType, IdleIsSound, QuietStep
<1>7. CASE WriteStatus(c)
  <2>0. req[c].version + 1 \in Nat /\ writes + 1 \in Nat
    BY <1>0 DEF TypeOK, NoVersion
  <2>1. user' \in User /\ writes' \in Nat /\ UNCHANGED overlapped
    BY <1>0, <1>7, <2>0 DEF WriteStatus, TypeOK, User, flags
  <2>2. /\ Goto(c, "revoke_sessions") /\ "revoke_sessions" \in Steps
        /\ req[c].op = "deactivate"
    BY <1>0, <1>7 DEF WriteStatus, Steps, Role, At
  <2>3. TypeOK'
    BY <1>0, <1>1, <2>1, <2>2, GotoType DEF TypeOK
  <2>4. Sound(c)' /\ req'[c].pc \notin Writing
    BY <1>0, <1>2, <2>2, GotoType, MovedIsSound DEF Role, Refreshes, Writing
  <2> QED
    BY <1>0, <1>1, <2>2, <2>3, <2>4, GotoType, QuietStep
<1> QED
    BY <1>3, <1>4, <1>5, <1>6, <1>7

-----------------------------------------------------------------------------
(* Steps that spend the tokens of one grant and go on.                     *)
LEMMA SpendOneStep ==
    ASSUME AccountInv, NEW c \in Clients,
           \/ Retire(c) \/ RevokeOldAccess(c) \/ RevokeOwn(c)
           \/ RevokeTargetAccess(c) \/ RevokeTargetRefresh(c)
    PROVE  AccountInv'
<1>0. /\ TypeOK /\ Sound(c) /\ made \in Nat
    BY AccountsAssumption DEF AccountInv, TypeOK
<1>1. ASSUME NEW pc, NEW ts, NEW next \in Steps, Spends(c, pc, ts, next),
             next \in {"find_session", "save_access", "find_own",
                       "revoke_refresh"},
             next = "find_session" =>
                 /\ req[c].op = "refresh"
                 /\ ts = {<<req[c].grant, "refresh">>},
             next = "save_access" => pc = "revoke_old_access"
      PROVE  AccountInv'
  <2>1. /\ Goto(c, next) /\ At(c, pc)
        /\ UNCHANGED <<sessions, made, given>>
        /\ SetTokens(ts, "spent")
    BY <1>1 DEF Spends, grants
  <2>2. Fades
    BY <1>0, <2>1, SetTokensFades, GrantShape DEF Fades
  <2>3. next \notin Writing /\ next \notin {"revoke_old", "revoke_old_access"}
    BY <1>1 DEF Writing
  <2>4. next \in Refreshes => req[c].op = "refresh"
    BY <1>1 DEF Refreshes
  <2>5. req[c].op = "refresh" =>
          /\ next \in AfterRetire =>
                tokens'[<<req[c].grant, "refresh">>] # "valid"
          /\ next \in AfterRevokeOld => sessions'[req[c].grant] # "active"
    <3> SUFFICES ASSUME req[c].op = "refresh"
                 PROVE  /\ next \in AfterRetire =>
                              tokens'[<<req[c].grant, "refresh">>] # "valid"
                        /\ next \in AfterRevokeOld =>
                              sessions'[req[c].grant] # "active"
      OBVIOUS
    <3>1. <<req[c].grant, "refresh">> \in Grants \X Kinds
      BY <1>0, GrantShape DEF Sound, Retired
    <3>2. CASE next = "find_session"
      BY <1>0, <1>1, <2>1, <3>1, <3>2, SetTokensFades DEF AfterRevokeOld, Writing
    <3>3. CASE next = "save_access"
      BY <1>0, <1>1, <2>1, <3>1, <3>3, SetTokensFades
      DEF At, Sound, Retired, AfterRetire, AfterRevokeOld
    <3>4. CASE next \notin {"find_session", "save_access"}
      BY <1>1, <3>4 DEF AfterRetire, AfterRevokeOld, Writing
    <3> QED
      BY <3>2, <3>3, <3>4
  <2>6. Sound(c)'
    BY <1>0, <1>1, <2>1, <2>2, <2>3, <2>4, <2>5, GotoType, MovedIsSound
    DEF Sound, Role
  <2> QED
    BY <1>1, <2>3, <2>6, SpendsStep
<1>2. CASE Retire(c)
  <2>1. req[c].op = "refresh"
    BY <1>0, <1>2 DEF Retire, Spends, At, Sound, Role, Refreshes
  <2> QED
    BY <1>1, <1>2, <2>1 DEF Retire, Steps
<1>3. CASE RevokeOldAccess(c)
    BY <1>1, <1>3 DEF RevokeOldAccess, Steps
<1>4. CASE RevokeOwn(c)
    BY <1>1, <1>4 DEF RevokeOwn, Steps
<1>5. CASE RevokeTargetAccess(c)
    BY <1>1, <1>5 DEF RevokeTargetAccess, Steps
<1>6. CASE RevokeTargetRefresh(c)
  <2>1. /\ SetTokens({<<req[c].target, "refresh">>}, "spent") /\ Finish(c)
        /\ UNCHANGED <<sessions, made, given, condemned, rotated>>
    BY <1>6 DEF RevokeTargetRefresh, grants, ghosts
  <2>2. tokens' \in [Grants \X Kinds -> TokenStates]
    BY <1>0, <2>1, SetTokensFades
  <2>3. TypeOK'
    BY <1>0, <1>6, <2>1, <2>2, FinishType
    DEF RevokeTargetRefresh, TypeOK, grants, counts, ghosts, flags
  <2> QED
    BY <1>0, <2>1, <2>3, FinishType, IdleIsSound, SpendingStep
<1> QED
    BY <1>2, <1>3, <1>4, <1>5, <1>6

(* Steps that revoke sessions and nothing else, other than those of        *)
(* RevokeAllSessions.                                                      *)
LEMMA RevokeSomeStep ==
    ASSUME AccountInv, NEW c \in Clients,
           \/ RevokeOld(c) \/ RevokeOwnSession(c) \/ RevokeTarget(c)
           \/ RevokeOthers(c)
    PROVE  AccountInv'
<1>0. /\ TypeOK /\ Sound(c) /\ made \in Nat
    BY AccountsAssumption DEF AccountInv, TypeOK
<1>1. /\ UNCHANGED <<tokens, made, given, condemned, rotated>>
      /\ UNCHANGED <<user, calls, mishaps, writes, overlapped, crowded>>
    BY DEF RevokeOld, RevokeOwnSession, RevokeTarget, RevokeOthers, grants,
           counts, ghosts, flags
<1>2. ASSUME NEW gs, RevokeSessions(gs), Finish(c) PROVE AccountInv'
  <2>1. TypeOK'
    BY <1>0, <1>1, <1>2, RevokeFades, FinishType DEF TypeOK
  <2> QED
    BY <1>0, <1>1, <1>2, <2>1, FinishType, IdleIsSound, RevokingStep
<1>3. ASSUME NEW gs, RevokeSessions(gs), NEW next \in Steps, Goto(c, next),
             Sound(c)', next \notin Writing
      PROVE  AccountInv'
  <2>1. TypeOK'
    BY <1>0, <1>1, <1>3, RevokeFades, GotoType DEF TypeOK
  <2> QED
    BY <1>0, <1>1, <1>3, <2>1, GotoType, RevokingStep
<1>4. ASSUME NEW gs, RevokeSessions(gs) PROVE Fades
    BY <1>0, <1>1, <1>4, RevokeFades, GrantShape DEF Fades
<1>5. CASE RevokeOld(c)
  <2>1. /\ RevokeSessions({req[c].grant}) /\ Goto(c, "revoke_old_access")
        /\ req[c].pc = "revoke_old"
    BY <1>5 DEF RevokeOld, At
  <2>2. req[c].op = "refresh" /\ req[c].grant \in Grants
        /\ tokens[<<req[c].grant, "refresh">>] # "valid"
    BY <1>0, <2>1, GrantShape
    DEF Sound, Role, Retired, Refreshes, AfterRetire
  <2>3. sessions'[req[c].grant] # "active"
    BY <1>0, <2>1, <2>2, RevokeFades
  <2>4. "revoke_old_access" \in Steps /\ "revoke_old_access" \notin Writing
    BY DEF Steps, Writing
  <2>5. Sound(c)'
    BY <1>0, <1>1, <1>4, <2>1, <2>2, <2>3, <2>4, GotoType, MovedIsSound
  <2> QED
    BY <1>3, <2>1, <2>4, <2>5
<1>6. CASE RevokeOwnSession(c)
    BY <1>2, <1>6 DEF RevokeOwnSession
<1>7. CASE RevokeTarget(c)
  <2>1. RevokeSessions({req[c].target}) /\ Goto(c, "revoke_access")
    BY <1>7 DEF RevokeTarget
  <2>2. /\ "revoke_access" \in Steps
        /\ "revoke_access" \notin Writing \cup Refreshes \cup AfterRetire
                                      \cup AfterRevokeOld
    BY DEF Steps, Writing, Refreshes, AfterRetire, AfterRevokeOld
  <2>3. Sound(c)'
    BY <1>0, <1>4, <2>1, <2>2, GotoType, MovedIsSound DEF Sound, Role
  <2> QED
    BY <1>3, <2>1, <2>2, <2>3
<1>8. CASE RevokeOthers(c)
    BY <1>2, <1>8 DEF RevokeOthers
<1> QED
    BY <1>5, <1>6, <1>7, <1>8

(* The two updates that revoke everything: after the first, half of what   *)
(* the owner held is gone; after the second, all of it.                    *)
LEMMA RevokeAllStep ==
    ASSUME AccountInv, NEW c \in Clients,
           RevokeAllTokens(c) \/ RevokeAllSessions(c)
    PROVE  AccountInv'
<1>0. /\ TypeOK /\ Sound(c) /\ made \in Nat /\ given \subseteq Grants
      /\ req[c].known \subseteq given
    BY AccountsAssumption, GrantShape DEF AccountInv, TypeOK, Sound, Halfway
<1>1. UNCHANGED <<user, made, given, rotated, calls, mishaps, writes,
                  overlapped, crowded>>
    BY DEF RevokeAllTokens, RevokeAllSessions, grants, counts, flags
<1>2. /\ tokens' \in [Grants \X Kinds -> TokenStates]
      /\ sessions' \in [Grants -> SessionStates]
      /\ \A t \in Grants \X Kinds :
            /\ tokens[t] # "absent" => tokens'[t] # "absent"
            /\ tokens[t] # "valid" => tokens'[t] # "valid"
            /\ RevokeAllTokens(c) => tokens'[t] # "valid"
      /\ \A g \in Grants :
            /\ sessions[g] # "active" => sessions'[g] # "active"
            /\ RevokeAllSessions(c) => sessions'[g] # "active"
  <2>1. CASE RevokeAllTokens(c)
    <3>1. SetTokens(Grants \X Kinds, "spent") /\ UNCHANGED sessions
      BY <2>1 DEF RevokeAllTokens
    <3>2. ~RevokeAllSessions(c)
      BY <2>1 DEF RevokeAllTokens, RevokeAllSessions, At
    <3> QED
      BY <1>0, <3>1, <3>2, SetTokensFades DEF TypeOK
  <2>2. CASE RevokeAllSessions(c)
    <3>1. RevokeSessions(Grants) /\ UNCHANGED tokens
      BY <2>2 DEF RevokeAllSessions
    <3>2. ~RevokeAllTokens(c)
      BY <2>2 DEF RevokeAllTokens, RevokeAllSessions, At
    <3> QED
      BY <1>0, <3>1, <3>2, RevokeFades DEF TypeOK
  <2> QED
    BY <2>1, <2>2
<1>3. Fades
    BY <1>0, <1>1, <1>2, GrantShape DEF Fades
<1>4. CASE Condemn(c) /\ RevokeAllTokens(c) /\ req[c].op = "deactivate"
  <2>1. \A g \in req[c].known : sessions'[g] # "active"
    BY <1>0, <1>2, <1>4 DEF RevokeAllTokens, At, Sound, Halfway
  <2>2. \A g \in req[c].known : \A k \in Kinds : tokens'[<<g, k>>] # "valid"
    BY <1>0, <1>2, <1>4
  <2>3. Finish(c) /\ condemned' = condemned \cup req[c].known
    BY <1>4 DEF Condemn
  <2>4. Tidy(c)
    BY <1>0, <1>1, <1>2, <1>3, <2>1, <2>2, <2>3, FinishType, IdleIsSound
    DEF Tidy
  <2>5. TypeOK'
    BY <1>0, <1>1, <1>2, <2>3, FinishType DEF TypeOK
  <2> QED
    BY <1>0, <2>3, <2>4, <2>5, FinishType, IdleIsSound, TidyStep
<1>5. CASE Condemn(c) /\ RevokeAllSessions(c) /\ req[c].op # "deactivate"
  <2>1. \A g \in req[c].known : sessions'[g] # "active"
    BY <1>0, <1>2, <1>5
  <2>2. \A g \in req[c].known : \A k \in Kinds : tokens'[<<g, k>>] # "valid"
    BY <1>0, <1>2, <1>5 DEF RevokeAllSessions, At, Sound, Halfway
  <2>3. Finish(c) /\ condemned' = condemned \cup req[c].known
    BY <1>5 DEF Condemn
  <2>4. Tidy(c)
    BY <1>0, <1>1, <1>2, <1>3, <2>1, <2>2, <2>3, FinishType, IdleIsSound
    DEF Tidy
  <2>5. TypeOK'
    BY <1>0, <1>1, <1>2, <2>3, FinishType DEF TypeOK
  <2> QED
    BY <1>0, <2>3, <2>4, <2>5, FinishType, IdleIsSound, TidyStep
<1>6. ASSUME NEW next \in {"revoke_sessions", "revoke_tokens"},
             Goto(c, next), UNCHANGED condemned,
             next = "revoke_sessions" =>
                 RevokeAllTokens(c) /\ req[c].op # "deactivate",
             next = "revoke_tokens" => RevokeAllSessions(c)
      PROVE  AccountInv'
  <2>1. /\ next \in Steps
        /\ next \notin Writing \cup Refreshes \cup AfterRetire
                           \cup AfterRevokeOld
    BY DEF Steps, Writing, Refreshes, AfterRetire, AfterRevokeOld
  <2>2. TypeOK'
    BY <1>0, <1>1, <1>2, <1>6, <2>1, GotoType DEF TypeOK
  <2>3. Sound(c)'
    BY <1>0, <1>2, <1>3, <1>6, <2>1, GotoType, MovedIsSound DEF Sound, Role
  <2>4. Tidy(c)
    BY <1>0, <1>1, <1>2, <1>3, <1>6, <2>1, GotoType DEF Tidy
  <2> QED
    BY <2>2, <2>3, <2>4, TidyStep
<1> QED
    BY <1>4, <1>5, <1>6 DEF RevokeAllTokens, RevokeAllSessions

-----------------------------------------------------------------------------
(* The steps that make a grant.                                            *)
LEMMA SaveAccessStep ==
    ASSUME AccountInv, NEW c \in Clients, SaveAccess(c)
    PROVE  AccountInv'
<1> DEFINE new == made + 1
           r == [req[c] EXCEPT !.pc = "save_refresh", !.new = made']
<1>0. /\ TypeOK /\ Sound(c) /\ made \in Nat /\ MaxGrants \in Nat
      /\ made < MaxGrants /\ made' = new /\ req[c].pc = "save_access"
    BY AccountsAssumption DEF AccountInv, TypeOK, SaveAccess, At
<1>1. /\ new \in Grants /\ new \in 0..MaxGrants /\ new \notin 1..made
      /\ new \notin given /\ new \in 1..made' /\ made <= new
    BY <1>0 DEF Grants, TypeOK
<1>2. UNCHANGED <<user, sessions, given, calls, mishaps, condemned, rotated,
                  writes, overlapped, crowded>>
    BY DEF SaveAccess, counts, ghosts, flags
<1>3. tokens' = [tokens EXCEPT ![<<new, "access">>] = "valid"]
    BY <1>0 DEF SaveAccess
<1> HIDE DEF new
<1>4. /\ tokens' \in [Grants \X Kinds -> TokenStates]
      /\ \A t \in Grants \X Kinds :
            /\ tokens[t] # "absent" => tokens'[t] # "absent"
            /\ t # <<new, "access">> => tokens'[t] = tokens[t]
      /\ tokens'[<<new, "access">>] # "absent"
    BY <1>0, <1>1, <1>3 DEF TypeOK, TokenStates, Kinds
<1>5. Fades
  <2>1. ASSUME NEW g \in given, NEW k \in Kinds
        PROVE  tokens'[<<g, k>>] = tokens[<<g, k>>]
    BY <1>0, <1>1, <1>4, GrantShape
  <2> QED
    BY <1>0, <1>1, <1>2, <1>4, <2>1 DEF Fades
<1>6. /\ r \in Request /\ Become(c, r) /\ r.pc = "save_refresh"
      /\ r.new = new /\ r.op = req[c].op /\ r.grant = req[c].grant
      /\ r.known = req[c].known /\ r.rotate = req[c].rotate
    BY <1>0, <1>1, RequestShape DEF SaveAccess, Request, Steps
<1> HIDE DEF r
<1>7. /\ req' \in [Clients -> Request] /\ req'[c] = r
      /\ \A d \in Clients \ {c} : req'[d] = req[d]
    BY <1>0, <1>6, BecomeType
<1>8. TypeOK'
    BY <1>0, <1>1, <1>2, <1>4, <1>7 DEF TypeOK
<1>9. Sound(c)'
  <2>1. Role(c)'
    BY <1>0, <1>6, <1>7 DEF Sound, Role, Refreshes
  <2>2. Fresh(c)'
    BY <1>1, <1>2, <1>4, <1>6, <1>7 DEF Fresh
  <2>3. Retired(c)'
    BY <1>0, <1>2, <1>5, <1>6, <1>7
    DEF Sound, Retired, Fades, AfterRetire, AfterRevokeOld, Writing, Kinds
  <2>4. Halfway(c)'
    BY <1>0, <1>2, <1>6, <1>7 DEF Sound, Halfway
  <2> QED
    BY <2>1, <2>2, <2>3, <2>4 DEF Sound
<1>10. Tidy(c)
    BY <1>1, <1>2, <1>5, <1>6, <1>7 DEF Tidy
<1> QED
    BY <1>8, <1>9, <1>10, TidyStep

(* An answer names the new grant, and the one it replaces is retired.      *)
LEMMA AnswerStep ==
    ASSUME AccountInv, NEW c \in Clients, Answer(c), req[c].pc \in Writing,
           tokens' \in [Grants \X Kinds -> TokenStates],
           sessions' \in [Grants -> SessionStates],
           \A g \in Grants : \A k \in Kinds :
               /\ g # req[c].new => tokens'[<<g, k>>] = tokens[<<g, k>>]
               /\ tokens[<<g, k>>] # "absent" => tokens'[<<g, k>>] # "absent",
           \A g \in Grants : g # req[c].new => sessions'[g] = sessions[g],
           sessions'[req[c].new] = "active" =>
               \/ sessions[req[c].new] = "active"
               \/ \A k \in Kinds : tokens'[<<req[c].new, k>>] # "absent",
           UNCHANGED <<user, made, calls, mishaps, condemned, writes,
                       overlapped, crowded>>
    PROVE  AccountInv'
<1>0. /\ TypeOK /\ Sound(c) /\ made \in Nat /\ given \subseteq Grants
      /\ req[c].new \in 1..made /\ req[c].new \notin given
      /\ req[c].new \in Grants /\ Finish(c)
      /\ given' = given \cup {req[c].new}
    BY AccountsAssumption, GrantShape
    DEF AccountInv, TypeOK, Sound, Fresh, Answer
<1>1. Fades
  <2>1. \A t \in Grants \X Kinds : tokens[t] # "absent" => tokens'[t] # "absent"
    OBVIOUS
  <2>2. \A g \in given : g # req[c].new /\ g \in Grants
    BY <1>0
  <2> QED
    BY <1>0, <2>1, <2>2 DEF Fades
<1>2. rotated' \subseteq given' /\
      \A g \in rotated' \ rotated :
          tokens'[<<g, "refresh">>] # "valid" /\ sessions'[g] # "active"
  <2>1. CASE req[c].op = "refresh"
    <3>1. /\ req[c].grant \in given /\ req[c].grant # req[c].new
          /\ tokens[<<req[c].grant, "refresh">>] # "valid"
          /\ sessions[req[c].grant] # "active"
      BY <1>0, <2>1 DEF Sound, Retired, AfterRetire, AfterRevokeOld
    <3>2. rotated' = rotated \cup {req[c].grant}
      BY <2>1 DEF Answer
    <3> QED
      BY <1>0, <3>1, <3>2 DEF TypeOK, Kinds
  <2>2. CASE req[c].op # "refresh"
    BY <1>0, <2>2 DEF Answer, TypeOK
  <2> QED
    BY <2>1, <2>2
<1>3. TypeOK'
    BY <1>0, <1>2, FinishType DEF TypeOK
<1>4. Tidy(c)
    BY <1>0, <1>1, <1>2, FinishType, IdleIsSound DEF Tidy
<1> QED
    BY <1>0, <1>3, <1>4, FinishType, IdleIsSound, TidyStep

LEMMA SaveRefreshStep ==
    ASSUME AccountInv, NEW c \in Clients, SaveRefresh(c)
    PROVE  AccountInv'
<1> DEFINE new == req[c].new
<1>0. /\ TypeOK /\ Sound(c) /\ made \in Nat /\ given \subseteq Grants
      /\ req[c].pc = "save_refresh" /\ req[c].pc \in Writing
      /\ new \in 1..made /\ new \notin given /\ new \in Grants
      /\ tokens[<<new, "access">>] # "absent"
    BY AccountsAssumption, GrantShape
    DEF AccountInv, TypeOK, Sound, Fresh, SaveRefresh, At, Writing
<1>1. UNCHANGED <<user, sessions, made, calls, mishaps, condemned, writes,
                  overlapped, crowded>>
    BY DEF SaveRefresh, counts, flags
<1>2. tokens' = [tokens EXCEPT ![<<new, "refresh">>] = "valid"]
    BY DEF SaveRefresh
<1> HIDE DEF new
<1>3. /\ tokens' \in [Grants \X Kinds -> TokenStates]
      /\ \A t \in Grants \X Kinds :
            /\ tokens[t] # "absent" => tokens'[t] # "absent"
            /\ t # <<new, "refresh">> => tokens'[t] = tokens[t]
      /\ tokens'[<<new, "refresh">>] # "absent"
    BY <1>0, <1>2 DEF TypeOK, TokenStates, Kinds
<1>4. /\ \A g \in Grants : \A k \in Kinds :
            /\ g # new => tokens'[<<g, k>>] = tokens[<<g, k>>]
            /\ tokens[<<g, k>>] # "absent" => tokens'[<<g, k>>] # "absent"
      /\ tokens'[<<new, "access">>] # "absent"
    BY <1>0, <1>3 DEF Kinds
<1>5. CASE Answer(c)
    BY <1>0, <1>1, <1>3, <1>4, <1>5, AnswerStep DEF TypeOK, new
<1>6. CASE Goto(c, "session") /\ UNCHANGED <<given, rotated>>
  <2>1. /\ req'[c].pc = "session" /\ req'[c].op = req[c].op
        /\ req'[c].grant = req[c].grant /\ req'[c].known = req[c].known
        /\ req'[c].rotate = req[c].rotate /\ req'[c].new = new
        /\ req' \in [Clients -> Request]
        /\ \A d \in Clients \ {c} : req'[d] = req[d]
    BY <1>0, <1>6, GotoType DEF Steps, new
  <2>2. TypeOK'
    BY <1>0, <1>1, <1>3, <1>6, <2>1 DEF TypeOK
  <2>3. Fades
    BY <1>0, <1>1, <1>3, <1>4, <1>6 DEF Fades
  <2>4. Sound(c)'
    <3>1. Role(c)'
      BY <1>0, <2>1 DEF Sound, Role, Refreshes
    <3>2. Fresh(c)'
      BY <1>0, <1>1, <1>3, <1>4, <1>6, <2>1 DEF Fresh
    <3>3. Retired(c)'
      BY <1>0, <1>1, <1>6, <2>1, <2>3
      DEF Sound, Retired, Fades, AfterRetire, AfterRevokeOld, Writing, Kinds
    <3>4. Halfway(c)'
      BY <1>0, <1>6, <2>1 DEF Sound, Halfway
    <3> QED
      BY <3>1, <3>2, <3>3, <3>4 DEF Sound
  <2>5. Tidy(c)
    BY <1>0, <1>1, <1>6, <2>1, <2>3 DEF Tidy, new
  <2> QED
    BY <2>2, <2>4, <2>5, TidyStep
<1> QED
    BY <1>5, <1>6 DEF SaveRefresh

LEMMA CreateSessionStep ==
    ASSUME AccountInv, NEW c \in Clients, CreateSession(c)
    PROVE  AccountInv'
<1>1. /\ TypeOK /\ req[c].pc \in Writing /\ Answer(c)
      /\ req[c].new \in Grants
      /\ \A k \in Kinds : tokens[<<req[c].new, k>>] # "absent"
    BY GrantShape
    DEF AccountInv, Sound, Fresh, CreateSession, At, Writing, Kinds
<1>2. /\ sessions' = [sessions EXCEPT ![req[c].new] = "active"]
      /\ UNCHANGED <<user, tokens, made, calls, mishaps, condemned, writes,
                     overlapped, crowded>>
    BY DEF CreateSession, counts, flags
<1>3. /\ sessions' \in [Grants -> SessionStates]
      /\ \A g \in Grants : g # req[c].new => sessions'[g] = sessions[g]
    BY <1>1, <1>2 DEF TypeOK, SessionStates
<1> QED
    BY <1>1, <1>2, <1>3, AnswerStep DEF TypeOK

-----------------------------------------------------------------------------
(* Failures and the passing of time.                                       *)
LEMMA SwallowedStep ==
    ASSUME AccountInv, NEW c \in Clients, Swallowed(c)
    PROVE  AccountInv'
<1>1. /\ mishaps' \in 0..MaxMishaps /\ UNCHANGED <<docs, grants, calls, ghosts>>
    BY AccountsAssumption DEF AccountInv, TypeOK, Swallowed
<1>2. TypeOK /\ Sound(c) /\ made \in Nat
    BY AccountsAssumption DEF AccountInv, TypeOK
<1>3. Fades /\ UNCHANGED <<tokens, sessions>>
    BY <1>1, <1>2 DEF Fades, docs, grants
<1>4. CASE At(c, "revoke_old_access") /\ Goto(c, "save_access")
  <2>1. "save_access" \in Steps /\ "save_access" \notin Writing
    BY DEF Steps, Writing
  <2>2. Sound(c)'
    BY <1>2, <1>3, <1>4, <2>1, GotoType, MovedIsSound
    DEF Sound, Role, Retired, AfterRetire, AfterRevokeOld, Refreshes, At
  <2> QED
    BY <1>1, <1>4, <2>1, <2>2, GoOnStep
<1>5. CASE At(c, "revoke_access") /\ Goto(c, "revoke_refresh")
  <2>1. /\ "revoke_refresh" \in Steps
        /\ "revoke_refresh" \notin Writing \cup Refreshes \cup AfterRetire
                                       \cup AfterRevokeOld
    BY DEF Steps, Writing, Refreshes, AfterRetire, AfterRevokeOld
  <2>2. Sound(c)'
    BY <1>2, <1>3, <1>5, <2>1, GotoType, MovedIsSound DEF Sound, Role
  <2> QED
    BY <1>1, <1>5, <2>1, <2>2, GoOnStep
<1>6. CASE Finish(c)
    BY <1>1, <1>6, GiveUpStep
<1> QED
    BY <1>4, <1>5, <1>6 DEF Swallowed

LEMMA DiesStep ==
    ASSUME AccountInv, NEW c \in Clients, Dies(c)
    PROVE  AccountInv'
<1>1. mishaps' \in 0..MaxMishaps
    BY AccountsAssumption DEF AccountInv, TypeOK, Dies
<1> QED
    BY <1>1, GiveUpStep DEF Dies

LEMMA LapseStep ==
    ASSUME AccountInv, NEW h \in Grants, Lapse(h)
    PROVE  AccountInv'
<1>1. /\ mishaps' \in 0..MaxMishaps
      /\ UNCHANGED <<user, made, given, req, calls, condemned, rotated,
                     writes, overlapped, crowded>>
    BY AccountsAssumption
    DEF AccountInv, TypeOK, Lapse, grants, ghosts, flags
<1>2. TypeOK /\ made \in Nat
    BY AccountsAssumption DEF AccountInv, TypeOK
<1>3. /\ tokens' \in [Grants \X Kinds -> TokenStates]
      /\ sessions' \in [Grants -> SessionStates]
      /\ \A t \in Grants \X Kinds :
            /\ tokens[t] # "absent" => tokens'[t] # "absent"
            /\ tokens[t] # "valid" => tokens'[t] # "valid"
      /\ \A g \in Grants : sessions[g] # "active" => sessions'[g] # "active"
  <2>1. CASE \E k \in Kinds : SetTokens({<<h, k>>}, "lapsed") /\ UNCHANGED sessions
    BY <1>2, <2>1, SetTokensFades DEF TypeOK
  <2>2. CASE sessions' = [sessions EXCEPT ![h] = "lapsed"] /\ UNCHANGED tokens
    BY <1>2, <2>2 DEF TypeOK, SessionStates
  <2> QED
    BY <2>1, <2>2 DEF Lapse
<1>4. Fades
    BY <1>1, <1>2, <1>3, GrantShape DEF Fades
<1>5. TypeOK'
    BY <1>1, <1>2, <1>3 DEF TypeOK
<1>6. \A c \in Clients : Sound(c)'
    BY <1>1, <1>2, <1>4, RestingStaysSound DEF AccountInv, Sound, Fresh
<1>7. Distinct'
    BY <1>1 DEF AccountInv, Distinct
<1>8. SessionsHaveTokens' /\ CondemnedStayDead' /\ RotatedOnce'
    BY <1>1, <1>3, <1>4, FadingKeeps
<1> QED
    BY <1>5, <1>6, <1>7, <1>8 DEF AccountInv

-----------------------------------------------------------------------------
LEMMA InitSound == Init => AccountInv
<1> SUFFICES ASSUME Init PROVE AccountInv
    OBVIOUS
<1>1. PICK live \in 0..MaxGrants :
          /\ user \in {[status |-> s, version |-> 0] :
                           s \in IF live = 0 THEN {"absent", "active"}
                                 ELSE {"active"}}
          /\ tokens = [t \in Grants \X Kinds |->
                          IF t[1] <= live THEN "valid" ELSE "absent"]
          /\ sessions = [g \in Grants |->
                            IF g <= live THEN "active" ELSE "absent"]
          /\ made = live /\ given = 1..live
    BY DEF Init
<1>2. /\ req = [c \in Clients |-> Idle]
      /\ calls = 0 /\ mishaps = 0 /\ condemned = {} /\ rotated = {}
      /\ writes = 0 /\ overlapped = FALSE /\ crowded = FALSE
    BY DEF Init
<1>3. TypeOK
  <2>1. user \in User
    BY <1>1 DEF User
  <2>2. tokens \in [Grants \X Kinds -> TokenStates]
    BY <1>1 DEF TokenStates
  <2>3. sessions \in [Grants -> SessionStates]
    BY <1>1 DEF SessionStates
  <2>4. req \in [Clients -> Request]
    BY <1>2, IdleShape
  <2>5. 0 \in 0..MaxCalls /\ 0 \in 0..MaxMishaps /\ 0 \in Nat
    BY AccountsAssumption
  <2> QED
    BY <1>1, <1>2, <2>1, <2>2, <2>3, <2>4, <2>5 DEF TypeOK
<1>4. ASSUME NEW c \in Clients
      PROVE  Sound(c) /\ req[c].pc \notin Writing
    BY <1>2, IdleShape
    DEF Sound, Role, Fresh, Retired, Halfway, Writing, Refreshes
<1>5. Distinct
    BY <1>4 DEF Distinct
<1>6. SessionsHaveTokens
  <2> SUFFICES ASSUME NEW g \in Grants, sessions[g] = "active", NEW k \in Kinds
               PROVE  tokens[<<g, k>>] # "absent"
    BY DEF SessionsHaveTokens, ActiveSessions
  <2>1. g <= live
    BY <1>1
  <2>2. <<g, k>> \in Grants \X Kinds /\ <<g, k>>[1] = g
    OBVIOUS
  <2> QED
    BY <1>1, <2>1, <2>2
<1> QED
    BY <1>2, <1>3, <1>4, <1>5, <1>6 DEF AccountInv, CondemnedStayDead, RotatedOnce

LEMMA NextSound ==
    ASSUME AccountInv, [Next]_vars
    PROVE  AccountInv'
<1>1. ASSUME NEW c \in Clients, Continues(c) PROVE AccountInv'
    BY <1>1, ReadStep, UserStep, SpendOneStep, RevokeSomeStep, RevokeAllStep,
       SaveAccessStep, SaveRefreshStep, CreateSessionStep DEF Continues
<1>2. CASE UNCHANGED vars
    BY <1>2
    DEF vars, docs, grants, counts, ghosts, flags, AccountInv, TypeOK, Sound,
        Role, Fresh, Retired, Halfway, Distinct, SessionsHaveTokens,
        ActiveSessions, CondemnedStayDead, RotatedOnce
<1> QED
    BY <1>1, <1>2, ArrivesStep, SwallowedStep, DiesStep, LapseStep DEF Next

(* The invariant holds in every state.                                     *)
THEOREM AccountInvariance == Spec => []AccountInv
<1> QED
    BY InitSound, NextSound, PTL DEF Spec

(* The record, the tokens, the sessions and the requests in flight keep    *)
(* their types, for any number of clients and grants.                      *)
THEOREM TypeCorrect == Spec => []TypeOK
<1> QED
    BY AccountInvariance, PTL DEF AccountInv

(* What a call that revokes everything has found is never good again,      *)
(* however many logins and refreshes it races with (changePassword(),      *)
(* resetPassword(), logoutAll(), deactivate()).                            *)
THEOREM RevokedForGood == Spec => []CondemnedStayDead
<1> QED
    BY AccountInvariance, PTL DEF AccountInv

(* A refresh that has been answered has retired the token it was made with *)
(* and the session of that token, whatever step of it was interrupted and  *)
(* whoever else presented the same token (refreshTokens()).                *)
THEOREM RefreshedOnce == Spec => []RotatedOnce
<1> QED
    BY AccountInvariance, PTL DEF AccountInv

(* No failure half-way leaves an active session without its tokens         *)
(* (login(), refreshTokens()).                                             *)
THEOREM SessionsAreComplete == Spec => []SessionsHaveTokens
<1> QED
    BY AccountInvariance, PTL DEF AccountInv

-----------------------------------------------------------------------------
(***************************************************************************)
(* Two promises that the code keeps only while certain requests do not     *)
(* overlap: what is checked before a write is still so at the write, if    *)
(* the only requests that could change it have not been in flight          *)
(* together.                                                               *)
(***************************************************************************)

(* Profile updates: the version a request has read is the current one.     *)
VersionWrites == {"write_profile", "write_status"}

CountInv ==
    ~overlapped =>
        /\ user.version = writes
        /\ \A c \in Clients : req[c].pc \in VersionWrites =>
              /\ req[c].version = writes
              /\ \A d \in Clients \ {c} : req[d].pc \notin VersionWrites

(* Logins and refreshes: the one that is to open a session has room for    *)
(* it.                                                                     *)
Alone(c) ==
    req[c].op \in SessionOpeners =>
        \A d \in Clients \ {c} : req[d].op \notin SessionOpeners

Opens(c) ==
    \/ req[c].op = "login" /\ req[c].pc \in {"save_access"} \cup Writing
    \/ /\ req[c].op = "refresh" /\ req[c].rotate
       /\ req[c].pc \in {"revoke_old"} \cup AfterRevokeOld

Kept(c) ==
    IF req[c].pc = "revoke_old" THEN ActiveSessions \ {req[c].grant}
    ELSE ActiveSessions

HasRoom(c) ==
    /\ Opens(c) => Cardinality(Kept(c)) < MaxSessions
    /\ req[c].pc = "session" => Opens(c)

RoomInv ==
    ~crowded =>
        /\ Cardinality(ActiveSessions) <= MaxSessions
        /\ \A c \in Clients : Alone(c) /\ HasRoom(c)

-----------------------------------------------------------------------------
(* How the steps of a request touch what the two invariants speak of.      *)
Elsewhere(c) == \A d \in Clients \ {c} : req'[d] = req[d]

Opening == {"revoke_old"} \cup AfterRevokeOld

(* A step of c that has nothing to do with opening a session.              *)
Plain(c) ==
    /\ Elsewhere(c) /\ crowded' = crowded
    /\ ActiveSessions' \subseteq ActiveSessions
    /\ req'[c].op = "none" \/ req'[c].op = req[c].op
    /\ req'[c].pc \in Opening => req'[c].op \notin SessionOpeners
    /\ req'[c].pc # "session"

(* A step of c that has nothing to do with the version.                    *)
Unversioned(c) ==
    /\ Elsewhere(c) /\ UNCHANGED <<writes, overlapped>>
    /\ user'.version = user.version
    /\ req'[c].pc \notin VersionWrites

-----------------------------------------------------------------------------
LEMMA FinishIsPlain ==
    ASSUME TypeOK, NEW c \in Clients, Finish(c)
    PROVE  /\ Elsewhere(c)
           /\ req'[c].pc = "idle" /\ req'[c].op = "none"
           /\ req'[c].pc \notin Opening \cup VersionWrites
BY FinishType, IdleShape
DEF Elsewhere, Opening, AfterRevokeOld, Writing, VersionWrites

LEMMA GotoIsPlain ==
    ASSUME TypeOK, NEW c \in Clients, NEW pc \in Steps, Goto(c, pc)
    PROVE  /\ Elsewhere(c)
           /\ req'[c].pc = pc /\ req'[c].op = req[c].op
           /\ req'[c].rotate = req[c].rotate
           /\ req'[c].grant = req[c].grant
BY GotoType DEF Elsewhere

(* A step that checks something.                                           *)
LEMMA ChecksArePlain ==
    ASSUME AccountInv, NEW c \in Clients, NEW pc, NEW next \in Steps,
           NEW condition, Checks(c, pc, condition, next),
           next \notin VersionWrites
    PROVE  /\ Unversioned(c)
           /\ next \notin Opening => Plain(c)
<1>1. UNCHANGED <<user, sessions, writes, overlapped, crowded>>
    BY DEF Checks, docs, ghosts, flags
<1>2. Finish(c) \/ Goto(c, next)
    BY DEF Checks
<1>3. Elsewhere(c) /\ req'[c].pc \in {"idle", next}
      /\ (req'[c].op = "none" \/ req'[c].op = req[c].op)
    BY <1>2, FinishIsPlain, GotoIsPlain DEF AccountInv
<1>4. Unversioned(c)
    BY <1>1, <1>3 DEF Unversioned, VersionWrites
<1>5. ASSUME next \notin Opening PROVE Plain(c)
    BY <1>1, <1>3, <1>5
    DEF Plain, ActiveSessions, Opening, AfterRevokeOld, Writing
<1> QED
    BY <1>4, <1>5

(* A step that spends tokens.                                              *)
LEMMA SpendsIsPlain ==
    ASSUME AccountInv, NEW c \in Clients, NEW pc, NEW ts, NEW next \in Steps,
           Spends(c, pc, ts, next), next \notin VersionWrites
    PROVE  /\ Unversioned(c)
           /\ next \notin Opening => Plain(c)
<1>1. UNCHANGED <<user, sessions, writes, overlapped, crowded>> /\ Goto(c, next)
    BY DEF Spends, ghosts, flags
<1>2. Elsewhere(c) /\ req'[c].pc = next /\ req'[c].op = req[c].op
    BY <1>1, GotoIsPlain DEF AccountInv
<1>3. Unversioned(c)
    BY <1>1, <1>2 DEF Unversioned
<1>4. ASSUME next \notin Opening PROVE Plain(c)
    BY <1>1, <1>2, <1>4
    DEF Plain, ActiveSessions, Opening, AfterRevokeOld, Writing
<1> QED
    BY <1>3, <1>4

(* A step that revokes sessions.                                           *)
LEMMA RevokingIsPlain ==
    ASSUME AccountInv, NEW c \in Clients,
           \/ RevokeOwnSession(c) \/ RevokeTarget(c) \/ RevokeOthers(c)
           \/ RevokeAllSessions(c) \/ RevokeAllTokens(c)
           \/ RevokeTargetRefresh(c)
    PROVE  Unversioned(c) /\ Plain(c)
<1>1. UNCHANGED <<user, writes, overlapped, crowded>>
    BY DEF RevokeOwnSession, RevokeTarget, RevokeOthers, RevokeAllSessions,
           RevokeAllTokens, RevokeTargetRefresh, ghosts, flags
<1>2. ActiveSessions' \subseteq ActiveSessions
    BY RevokeFades
    DEF AccountInv, RevokeOwnSession, RevokeTarget, RevokeOthers,
        RevokeAllSessions, RevokeAllTokens, RevokeTargetRefresh, ActiveSessions
<1>3. \/ Finish(c)
      \/ \E pc \in {"revoke_access", "revoke_tokens", "revoke_sessions"} :
             Goto(c, pc)
    BY DEF RevokeOwnSession, RevokeTarget, RevokeOthers, RevokeAllSessions,
           RevokeAllTokens, RevokeTargetRefresh, Condemn
<1>4. {"revoke_access", "revoke_tokens", "revoke_sessions"} \subseteq Steps
    BY DEF Steps
<1>5. /\ Elsewhere(c)
      /\ req'[c].pc \in {"idle", "revoke_access", "revoke_tokens",
                         "revoke_sessions"}
      /\ req'[c].op = "none" \/ req'[c].op = req[c].op
    BY <1>3, <1>4, FinishIsPlain, GotoIsPlain DEF AccountInv
<1>6. Unversioned(c)
    BY <1>1, <1>5 DEF Unversioned, VersionWrites
<1> QED
    BY <1>1, <1>2, <1>5, <1>6 DEF Plain, Opening, AfterRevokeOld, Writing

(* All the steps of a request but those that read or write the version and *)
(* those on the way to a session.                                          *)
LEMMA PlainStep ==
    ASSUME AccountInv, NEW c \in Clients,
           \/ FindUser(c) \/ Retire(c) \/ CheckSession(c) \/ FindToken(c)
           \/ RevokeOwn(c) \/ FindOwn(c) \/ RevokeOwnSession(c)
           \/ OtpVerdict(c) \/ WritePassword(c) \/ RevokeAllTokens(c)
           \/ RevokeAllSessions(c) \/ FindTarget(c) \/ RevokeTarget(c)
           \/ RevokeTargetAccess(c) \/ RevokeTargetRefresh(c)
           \/ FindCurrent(c) \/ RevokeOthers(c)
    PROVE  Unversioned(c) /\ Plain(c)
<1>1. ASSUME NEW pc, NEW condition, NEW next \in Steps,
             Checks(c, pc, condition, next),
             next \notin VersionWrites \cup Opening
      PROVE  Unversioned(c) /\ Plain(c)
    BY <1>1, ChecksArePlain
<1>2. ASSUME NEW pc, NEW ts, NEW next \in Steps, Spends(c, pc, ts, next),
             next \notin VersionWrites \cup Opening
      PROVE  Unversioned(c) /\ Plain(c)
    BY <1>2, SpendsIsPlain
<1> DEFINE quiet == {"retire", "find_session", "find_token", "revoke_tokens",
                     "read_user", "revoke_own", "find_own",
                     "revoke_own_session", "write_password", "revoke_target",
                     "revoke_refresh", "revoke_others"}
<1>3. quiet \subseteq Steps /\ quiet \cap (VersionWrites \cup Opening) = {}
    BY DEF Steps, VersionWrites, Opening, AfterRevokeOld, Writing
<1>4. CASE CheckSession(c)
  <2>1. req[c].op \in DOMAIN FirstStep
    BY <1>4 DEF CheckSession, Checks, At, AccountInv, Sound, Role
  <2>2. FirstStep[req[c].op] \in quiet
    BY <2>1 DEF FirstStep
  <2> HIDE DEF quiet
  <2> QED
    BY <1>1, <1>3, <1>4, <2>2 DEF CheckSession
<1>5. CASE OtpVerdict(c)
  <2>1. PICK accepted \in BOOLEAN : Checks(c, "otp", accepted, "write_password")
    BY <1>5 DEF OtpVerdict
  <2> QED
    BY <1>1, <1>3, <2>1
<1>6. CASE FindUser(c) \/ FindToken(c) \/ FindOwn(c) \/ WritePassword(c)
           \/ FindTarget(c) \/ FindCurrent(c)
    BY <1>1, <1>3, <1>6
    DEF FindUser, FindToken, FindOwn, WritePassword, FindTarget, FindCurrent
<1>7. CASE Retire(c) \/ RevokeOwn(c) \/ RevokeTargetAccess(c)
    BY <1>2, <1>3, <1>7 DEF Retire, RevokeOwn, RevokeTargetAccess
<1> QED
    BY <1>4, <1>5, <1>6, <1>7, RevokingIsPlain

-----------------------------------------------------------------------------
(* Profile updates.                                                        *)
LEMMA UnversionedCounts ==
    ASSUME CountInv, NEW c \in Clients, Unversioned(c)
    PROVE  CountInv'
<1> SUFFICES ASSUME ~overlapped'
             PROVE  /\ user'.version = writes'
                    /\ \A a \in Clients : req'[a].pc \in VersionWrites =>
                          /\ req'[a].version = writes'
                          /\ \A b \in Clients \ {a} :
                                req'[b].pc \notin VersionWrites
    BY DEF CountInv
<1>1. /\ user'.version = writes'
      /\ ~overlapped /\ writes' = writes
    BY DEF CountInv, Unversioned
<1>2. ASSUME NEW a \in Clients, req'[a].pc \in VersionWrites
      PROVE  /\ req'[a].version = writes'
             /\ \A b \in Clients \ {a} : req'[b].pc \notin VersionWrites
  <2>1. a # c /\ req'[a] = req[a]
    BY <1>2 DEF Unversioned, Elsewhere
  <2>2. \A b \in Clients \ {a} :
            req[b].pc \notin VersionWrites /\ req[a].version = writes
    BY <1>1, <1>2, <2>1 DEF CountInv
  <2>3. ASSUME NEW b \in Clients \ {a} PROVE req'[b].pc \notin VersionWrites
    BY <2>2, <2>3 DEF Unversioned, Elsewhere
  <2> QED
    BY <1>1, <2>1, <2>2, <2>3 DEF Unversioned
<1> QED
    BY <1>1, <1>2

(* The version is read: whoever else is about to write makes the two       *)
(* overlap.                                                                *)
LEMMA ReadUserCounts ==
    ASSUME AccountInv, CountInv, NEW c \in Clients, ReadUser(c)
    PROVE  CountInv'
<1>1. TypeOK /\ req[c].pc = "read_user" /\ req[c].op \in DOMAIN FirstStep
      /\ req[c].op \notin {"logout", "logout_all"}
      /\ UNCHANGED <<user, writes>>
    BY DEF AccountInv, Sound, Role, ReadUser, At, docs
<1> DEFINE r == [req[c] EXCEPT !.pc = AfterUser(req[c]),
                               !.version = user.version]
<1>2. Finish(c) \/ Become(c, r)
    BY DEF ReadUser
<1>3. CASE Finish(c)
  <2>1. Elsewhere(c) /\ req'[c].pc \notin VersionWrites
    BY <1>1, <1>3, FinishIsPlain
  <2>2. overlapped => overlapped'
    BY DEF ReadUser
  <2> QED
    BY <1>1, <2>1, <2>2 DEF CountInv, Elsewhere
<1>4. CASE Become(c, r)
  <2>1. /\ Elsewhere(c) /\ req'[c] = r
    BY <1>1, <1>4 DEF Become, Elsewhere, TypeOK
  <2>2. r.pc = AfterUser(req[c]) /\ r.version = user.version
    BY <1>1, RequestShape DEF Request
  <2>3. r.pc \in VersionWrites => req[c].op \in Versioned
    BY <1>1, <2>2 DEF AfterUser, VersionWrites, Versioned, FirstStep
  <2> HIDE DEF r
  <2> SUFFICES ASSUME ~overlapped'
               PROVE  \A a \in Clients : req'[a].pc \in VersionWrites =>
                          /\ req'[a].version = writes'
                          /\ \A b \in Clients \ {a} :
                                req'[b].pc \notin VersionWrites
    <3>1. overlapped => overlapped'
      BY DEF ReadUser
    <3> QED
      BY <1>1, <3>1 DEF CountInv
  <2>4. /\ ~overlapped /\ user.version = writes
        /\ req[c].op \in Versioned =>
               \A d \in Clients : req[d].pc \notin VersionWrites
    BY DEF ReadUser, At, VersionWrites, CountInv
  <2>5. CASE r.pc \in VersionWrites
    BY <1>1, <2>1, <2>2, <2>3, <2>4, <2>5 DEF Elsewhere
  <2>6. CASE r.pc \notin VersionWrites
    BY <1>1, <2>1, <2>4, <2>6 DEF Elsewhere, CountInv
  <2> QED
    BY <2>5, <2>6
<1> QED
    BY <1>2, <1>3, <1>4

(* The version is written: the one read was the current one.               *)
LEMMA WriteCounts ==
    ASSUME AccountInv, CountInv, NEW c \in Clients,
           WriteProfile(c) \/ WriteStatus(c)
    PROVE  CountInv'
<1>1. /\ TypeOK /\ req[c].pc \in VersionWrites /\ UNCHANGED overlapped
      /\ writes' = writes + 1 /\ user'.version = req[c].version + 1
    BY DEF AccountInv, TypeOK, User, WriteProfile, WriteStatus, At, flags,
           VersionWrites
<1>2. Elsewhere(c) /\ req'[c].pc \notin VersionWrites
  <2>1. Finish(c) \/ Goto(c, "revoke_sessions")
    BY DEF WriteProfile, WriteStatus
  <2>2. "revoke_sessions" \in Steps /\ "revoke_sessions" \notin VersionWrites
    BY DEF Steps, VersionWrites
  <2> QED
    BY <1>1, <2>1, <2>2, FinishIsPlain, GotoIsPlain
<1> QED
    BY <1>1, <1>2 DEF CountInv, Elsewhere

(* The steps towards a session do not touch the version.                   *)
LEMMA TowardsUnversioned ==
    ASSUME AccountInv, NEW c \in Clients,
           \/ SaveUser(c) \/ CountSessions(c) \/ SaveAccess(c)
           \/ SaveRefresh(c) \/ CreateSession(c) \/ FindSession(c)
           \/ RevokeOld(c) \/ RevokeOldAccess(c)
    PROVE  Unversioned(c)
<1>0. {"save_access", "save_refresh", "session", "revoke_old",
       "revoke_old_access"} \subseteq Steps \ VersionWrites
    BY DEF Steps, VersionWrites
<1>1. CASE CountSessions(c)
    BY <1>0, <1>1, ChecksArePlain DEF CountSessions
<1>2. CASE RevokeOldAccess(c)
    BY <1>0, <1>2, SpendsIsPlain DEF RevokeOldAccess
<1>3. CASE SaveUser(c) \/ SaveRefresh(c) \/ CreateSession(c) \/ RevokeOld(c)
  <2>1. \/ Finish(c)
        \/ \E pc \in {"save_access", "session", "revoke_old_access"} :
               Goto(c, pc)
    BY <1>3 DEF SaveUser, SaveRefresh, CreateSession, RevokeOld, Answer
  <2>2. Elsewhere(c) /\ req'[c].pc \notin VersionWrites
    BY <1>0, <2>1, FinishIsPlain, GotoIsPlain DEF AccountInv
  <2>3. UNCHANGED <<writes, overlapped>> /\ user'.version = user.version
    BY <1>3
    DEF SaveUser, SaveRefresh, CreateSession, RevokeOld, ghosts, flags,
        AccountInv, TypeOK, User
  <2> QED
    BY <2>2, <2>3 DEF Unversioned
<1>4. CASE SaveAccess(c)
  <2>1. Elsewhere(c) /\ req'[c].pc = "save_refresh"
    BY <1>4, RequestShape
    DEF SaveAccess, Become, Elsewhere, AccountInv, TypeOK, Request
  <2> QED
    BY <1>0, <1>4, <2>1 DEF SaveAccess, Unversioned, ghosts, flags
<1>5. CASE FindSession(c)
  <2>1. Elsewhere(c) /\ req'[c].pc \in {"revoke_old", "save_access"}
    BY <1>5, RequestShape
    DEF FindSession, Become, Elsewhere, AccountInv, TypeOK, Request
  <2> QED
    BY <1>0, <1>5, <2>1 DEF FindSession, Unversioned, docs, ghosts, flags
<1> QED
    BY <1>1, <1>2, <1>3, <1>4, <1>5

(* The step a request begins with.                                         *)
LEMMA ArrivalShape ==
    ASSUME NEW c \in Clients, Arrives(c)
    PROVE  \E r : /\ Arrive(c, r)
                  /\ r.pc \in {"save_user", "count", "find_user", "otp",
                               "check_session"}
<1>1. ASSUME NEW op, NEW pc, NEW g
      PROVE  Call(op, pc, g).pc = pc
  <2> DEFINE q == NoCall
  <2>1. q \in Blank
    BY BlankShape
  <2>2. Call(op, pc, g) = [q EXCEPT !.op = op, !.pc = pc, !.grant = g]
    BY DEF Call
  <2> HIDE DEF q
  <2> QED
    BY <2>1, <2>2 DEF Blank
<1>2. CASE Register(c)
    BY <1>1, <1>2 DEF Register
<1>3. CASE Login(c)
    BY <1>1, <1>3 DEF Login
<1>4. CASE Refresh(c)
    BY <1>1, <1>4 DEF Refresh
<1>5. CASE ResetPassword(c)
    BY <1>1, <1>5 DEF ResetPassword
<1>6. CASE Authenticated(c)
  <2>1. PICK g \in given, op \in DOMAIN FirstStep, h \in Grants,
             v \in {user.version, NoVersion} :
          Arrive(c, [Call(op, "check_session", g)
                        EXCEPT !.target = h, !.version = v])
    BY <1>6 DEF Authenticated
  <2> DEFINE q == NoCall
             r == [Call(op, "check_session", g)
                      EXCEPT !.target = h, !.version = v]
  <2>2. q \in Blank
    BY BlankShape
  <2>3. r = [[q EXCEPT !.op = op, !.pc = "check_session", !.grant = g]
                EXCEPT !.target = h, !.version = v]
    BY DEF Call
  <2> HIDE DEF q, r
  <2>4. r.pc = "check_session"
    BY <2>2, <2>3 DEF Blank
  <2>5. Arrive(c, r)
    BY <2>1 DEF r
  <2> QED
    BY <2>4, <2>5
<1> QED
    BY <1>2, <1>3, <1>4, <1>5, <1>6 DEF Arrives

LEMMA ArrivesUnversioned ==
    ASSUME AccountInv, NEW c \in Clients, Arrives(c)
    PROVE  Unversioned(c)
<1>1. PICK r : Arrive(c, r) /\ r.pc \notin VersionWrites
    BY ArrivalShape DEF VersionWrites
<1> QED
    BY <1>1
    DEF Arrive, Become, Unversioned, Elsewhere, docs, AccountInv, TypeOK,
        VersionWrites

LEMMA CountStep ==
    ASSUME AccountInv, CountInv, [Next]_vars
    PROVE  CountInv'
<1>1. ASSUME NEW c \in Clients, Continues(c) PROVE CountInv'
    BY <1>1, PlainStep, TowardsUnversioned, UnversionedCounts, ReadUserCounts,
       WriteCounts DEF Continues
<1>2. ASSUME NEW c \in Clients, Swallowed(c) \/ Dies(c) PROVE CountInv'
  <2>1. {"save_access", "revoke_refresh"} \subseteq Steps \ VersionWrites
    BY DEF Steps, VersionWrites
  <2>2. Finish(c) \/ Goto(c, "save_access") \/ Goto(c, "revoke_refresh")
    BY <1>2 DEF Swallowed, Dies
  <2>3. Elsewhere(c) /\ req'[c].pc \notin VersionWrites
    BY <2>1, <2>2, FinishIsPlain, GotoIsPlain DEF AccountInv
  <2>4. UNCHANGED <<user, writes, overlapped>>
    BY <1>2 DEF Swallowed, Dies, docs, ghosts, flags
  <2> QED
    BY <2>3, <2>4, UnversionedCounts DEF Unversioned
<1>3. ASSUME NEW g \in Grants, Lapse(g) PROVE CountInv'
    BY <1>3 DEF Lapse, ghosts, flags, CountInv
<1>4. CASE UNCHANGED vars
    BY <1>4 DEF vars, docs, ghosts, flags, CountInv
<1> QED
    BY <1>1, <1>2, <1>3, <1>4, ArrivesUnversioned, UnversionedCounts DEF Next

LEMMA CountInit == Init => CountInv
<1> SUFFICES ASSUME Init PROVE CountInv
    OBVIOUS
<1>1. user.version = 0 /\ writes = 0 /\ req = [c \in Clients |-> Idle]
    BY DEF Init
<1>2. \A c \in Clients : req[c].pc = "idle"
    BY <1>1, IdleShape
<1> QED
    BY <1>1, <1>2 DEF CountInv, VersionWrites

(* While no two profile updates have been in flight together the version   *)
(* counts them, for any number of requests of other kinds (the version     *)
(* check of UserService is a read before the write).                       *)
THEOREM VersionCounts == Spec => []LostOnlyByOverlap
<1>1. Spec => []CountInv
    BY AccountInvariance, CountInit, CountStep, PTL DEF Spec
<1>2. CountInv => LostOnlyByOverlap
    BY DEF CountInv, LostOnlyByOverlap
<1> QED
    BY <1>1, <1>2, PTL

-----------------------------------------------------------------------------
(* Sessions are finitely many.                                             *)
LEMMA SessionsFinite ==
    /\ IsFiniteSet(ActiveSessions)
    /\ Cardinality(ActiveSessions) \in Nat
    /\ \A S \in SUBSET ActiveSessions :
          /\ IsFiniteSet(S) /\ Cardinality(S) \in Nat
          /\ Cardinality(S) <= Cardinality(ActiveSessions)
<1>1. IsFiniteSet(Grants)
    BY FS_Interval, AccountsAssumption DEF Grants
<1>2. IsFiniteSet(ActiveSessions)
    BY <1>1, FS_Subset DEF ActiveSessions
<1> QED
    BY <1>2, FS_Subset, FS_CardinalityType

(* A step that opens no session leaves room for whoever it leaves alone.   *)
LEMMA RoomElsewhere ==
    ASSUME RoomInv, NEW c \in Clients, Elsewhere(c), crowded' = crowded,
           ActiveSessions' \subseteq ActiveSessions,
           req'[c].op = "none" \/ req'[c].op = req[c].op,
           ~crowded => HasRoom(c)'
    PROVE  RoomInv'
<1> SUFFICES ASSUME ~crowded
             PROVE  /\ Cardinality(ActiveSessions') <= MaxSessions
                    /\ \A d \in Clients : Alone(d)' /\ HasRoom(d)'
    BY DEF RoomInv
<1>1. MaxSessions \in Nat
    BY AccountsAssumption
<1>2. Cardinality(ActiveSessions') <= MaxSessions
    BY <1>1, SessionsFinite DEF RoomInv
<1>3. ASSUME NEW d \in Clients PROVE Alone(d)'
  <2>1. \A e \in Clients : req'[e].op \in SessionOpeners =>
                               req[e].op \in SessionOpeners
    BY DEF Elsewhere, SessionOpeners
  <2>2. Alone(d)
    BY DEF RoomInv
  <2> QED
    BY <2>1, <2>2 DEF Alone
<1>4. ASSUME NEW d \in Clients, d # c PROVE HasRoom(d)'
  <2>1. req'[d] = req[d] /\ HasRoom(d)
    BY <1>4 DEF Elsewhere, RoomInv
  <2>2. ASSUME Opens(d) PROVE Cardinality(Kept(d)') < MaxSessions
    <3>1. Kept(d)' \subseteq Kept(d) /\ Kept(d) \subseteq ActiveSessions
      BY <2>1 DEF Kept
    <3>2. IsFiniteSet(Kept(d))
      BY <3>1, SessionsFinite
    <3>3. Cardinality(Kept(d)') <= Cardinality(Kept(d))
          /\ Cardinality(Kept(d)') \in Nat /\ Cardinality(Kept(d)) \in Nat
      BY <3>1, <3>2, FS_Subset, FS_CardinalityType
    <3> QED
      BY <1>1, <2>1, <2>2, <3>3 DEF HasRoom
  <2> QED
    BY <2>1, <2>2 DEF HasRoom, Opens
<1> QED
    BY <1>2, <1>3, <1>4

LEMMA PlainKeepsRoom ==
    ASSUME RoomInv, NEW c \in Clients, Plain(c)
    PROVE  RoomInv'
<1>1. ~Opens(c)' /\ req'[c].pc # "session"
    BY DEF Plain, Opens, Opening, AfterRevokeOld, SessionOpeners
<1> QED
    BY <1>1, RoomElsewhere DEF Plain, HasRoom

(* A step on the way to a session, from one with room to one that needs no *)
(* more.                                                                   *)
LEMMA RoomKept ==
    ASSUME RoomInv, NEW c \in Clients, Elsewhere(c), crowded' = crowded,
           ActiveSessions' \subseteq ActiveSessions,
           req'[c].op = req[c].op, req'[c].rotate = req[c].rotate,
           req'[c].pc # "revoke_old", Opens(c)' => Opens(c),
           req'[c].pc = "session" => Opens(c)',
           req[c].pc = "revoke_old" => ActiveSessions' \subseteq Kept(c)
    PROVE  RoomInv'
<1>1. ASSUME ~crowded, Opens(c)'
      PROVE  Cardinality(ActiveSessions') < MaxSessions
  <2>1. Cardinality(Kept(c)) < MaxSessions
    BY <1>1 DEF RoomInv, HasRoom
  <2>2. ActiveSessions' \subseteq Kept(c) /\ Kept(c) \subseteq ActiveSessions
    BY DEF Kept
  <2>3. IsFiniteSet(Kept(c))
    BY <2>2, SessionsFinite
  <2>4. /\ Cardinality(ActiveSessions') <= Cardinality(Kept(c))
        /\ Cardinality(ActiveSessions') \in Nat /\ Cardinality(Kept(c)) \in Nat
    BY <2>2, <2>3, FS_Subset, FS_CardinalityType
  <2> QED
    BY <2>1, <2>4, AccountsAssumption
<1>2. Kept(c)' = ActiveSessions'
    BY DEF Kept
<1> QED
    BY <1>1, <1>2, RoomElsewhere DEF HasRoom

LEMMA TowardsKeepsRoom ==
    ASSUME AccountInv, RoomInv, NEW c \in Clients,
           \/ SaveAccess(c) \/ RevokeOld(c) \/ RevokeOldAccess(c)
           \/ SaveRefresh(c) /\ OpensSession(req[c])
           \/ /\ Swallowed(c) /\ At(c, "revoke_old_access")
              /\ Goto(c, "save_access")
    PROVE  RoomInv'
<1>0. TypeOK /\ Role(c) /\ {"save_access", "session", "revoke_old_access"} \subseteq Steps
    BY DEF AccountInv, Sound, Steps
<1>1. crowded' = crowded
    BY DEF SaveAccess, RevokeOld, RevokeOldAccess, SaveRefresh, Swallowed,
           Spends, ghosts, flags
<1>2. /\ ActiveSessions' \subseteq ActiveSessions
      /\ RevokeOld(c) => ActiveSessions' \subseteq Kept(c)
      /\ ~RevokeOld(c) => req[c].pc # "revoke_old"
  <2>1. CASE RevokeOld(c)
    BY <1>0, <2>1, RevokeFades DEF RevokeOld, At, ActiveSessions, Kept
  <2>2. CASE ~RevokeOld(c)
    <3>1. UNCHANGED sessions /\ req[c].pc # "revoke_old"
      BY <2>2
      DEF SaveAccess, RevokeOldAccess, SaveRefresh, Swallowed, Spends, docs, At
    <3> QED
      BY <2>2, <3>1 DEF ActiveSessions
  <2> QED
    BY <2>1, <2>2
<1>3. /\ Elsewhere(c) /\ req'[c].op = req[c].op
      /\ req'[c].rotate = req[c].rotate
      /\ SaveAccess(c) => req'[c].pc = "save_refresh"
      /\ SaveRefresh(c) => req'[c].pc = "session"
      /\ RevokeOld(c) => req'[c].pc = "revoke_old_access"
      /\ RevokeOldAccess(c) \/ Swallowed(c) => req'[c].pc = "save_access"
      /\ req'[c].pc \in {"save_refresh", "session", "revoke_old_access",
                         "save_access"}
  <2>1. CASE SaveAccess(c)
    <3>1. Become(c, [req[c] EXCEPT !.pc = "save_refresh", !.new = made'])
          /\ req[c].pc = "save_access"
      BY <2>1 DEF SaveAccess, At
    <3>2. /\ ~RevokeOld(c) /\ ~RevokeOldAccess(c) /\ ~SaveRefresh(c)
          /\ ~Swallowed(c)
      BY <3>1 DEF RevokeOld, RevokeOldAccess, SaveRefresh, Spends, Swallowed, At
    <3> QED
      BY <1>0, <3>1, <3>2, RequestShape
      DEF Become, Elsewhere, TypeOK, Request
  <2>2. CASE ~SaveAccess(c)
    <3>1. \/ /\ SaveRefresh(c) /\ Goto(c, "session")
             /\ req[c].pc = "save_refresh"
          \/ /\ RevokeOld(c) /\ Goto(c, "revoke_old_access")
             /\ req[c].pc = "revoke_old"
          \/ /\ Goto(c, "save_access") /\ req[c].pc = "revoke_old_access"
      BY <2>2
      DEF SaveRefresh, RevokeOld, RevokeOldAccess, Spends, At
    <3> QED
      BY <1>0, <2>2, <3>1, GotoIsPlain
      DEF SaveRefresh, RevokeOld, RevokeOldAccess, Swallowed, Spends, At
  <2> QED
    BY <2>1, <2>2
<1>4. Opens(c)' => Opens(c)
    BY <1>0, <1>3
    DEF Opens, SaveAccess, RevokeOld, RevokeOldAccess, SaveRefresh, Spends, At,
        AfterRevokeOld, Writing, Role, Refreshes
<1>5. req'[c].pc = "session" => Opens(c)'
  <2> SUFFICES ASSUME req'[c].pc = "session" PROVE Opens(c)'
    OBVIOUS
  <2>1. req[c].op = "login" \/ (req[c].rotate /\ req[c].op = "refresh")
    BY <1>0, <1>3 DEF OpensSession, Role
  <2> QED
    BY <1>3, <2>1 DEF Opens, AfterRevokeOld, Writing
<1> QED
    BY <1>1, <1>2, <1>3, <1>4, <1>5, RoomKept

(* A login counts, or a refresh finds the session it will replace.         *)
LEMMA ComingKeepsRoom ==
    ASSUME AccountInv, RoomInv, NEW c \in Clients,
           CountSessions(c) \/ FindSession(c)
    PROVE  RoomInv'
<1>0. TypeOK /\ Role(c) /\ Sound(c) /\ "save_access" \in Steps
    BY DEF AccountInv, Sound, Steps
<1>1. crowded' = crowded /\ ActiveSessions' = ActiveSessions
    BY DEF CountSessions, FindSession, Checks, docs, ghosts, flags,
           ActiveSessions
<1>2. CASE CountSessions(c)
  <2>1. CASE Finish(c)
    <3>1. Plain(c)
      BY <1>0, <1>1, <2>1, FinishIsPlain DEF Plain
    <3> QED
      BY <3>1, PlainKeepsRoom
  <2>2. CASE ~Finish(c)
    <3>1. Goto(c, "save_access") /\ Cardinality(ActiveSessions) < MaxSessions
      BY <1>2, <2>2 DEF CountSessions, Checks
    <3>2. Elsewhere(c) /\ req'[c].pc = "save_access" /\ req'[c].op = req[c].op
      BY <1>0, <3>1, GotoIsPlain
    <3>3. HasRoom(c)'
      BY <1>1, <3>1, <3>2 DEF HasRoom, Kept
    <3> QED
      BY <1>1, <3>2, <3>3, RoomElsewhere
  <2> QED
    BY <2>1, <2>2
<1>3. CASE FindSession(c)
  <2> DEFINE live == sessions[req[c].grant] = "active"
  <2>1. /\ Elsewhere(c) /\ req'[c].op = req[c].op
        /\ req'[c].grant = req[c].grant /\ req'[c].rotate = live
        /\ req'[c].pc = IF live THEN "revoke_old" ELSE "save_access"
    BY <1>0, <1>3, RequestShape
    DEF FindSession, Become, Elsewhere, TypeOK, Request
  <2>2. req[c].op = "refresh" /\ req[c].grant \in Grants
    BY <1>0, <1>3, GrantShape
    DEF FindSession, At, Role, Refreshes, Sound, Retired
  <2>3. CASE live
    <3>1. req[c].grant \in ActiveSessions
      BY <2>2, <2>3 DEF ActiveSessions
    <3>2. Kept(c)' = ActiveSessions \ {req[c].grant}
      BY <1>1, <2>1, <2>3 DEF Kept
    <3>3. Cardinality(ActiveSessions \ {req[c].grant})
              = Cardinality(ActiveSessions) - 1
      BY <3>1, SessionsFinite, FS_RemoveElement
    <3>4. ASSUME ~crowded PROVE HasRoom(c)'
      <4>1. Cardinality(ActiveSessions) <= MaxSessions
        BY <3>4 DEF RoomInv
      <4>2. Cardinality(Kept(c)') < MaxSessions
        BY <3>2, <3>3, <4>1, SessionsFinite, AccountsAssumption
      <4> QED
        BY <2>1, <2>3, <4>2 DEF HasRoom
    <3> QED
      BY <1>1, <2>1, <3>4, RoomElsewhere
  <2>4. CASE ~live
    <3>1. ~Opens(c)' /\ req'[c].pc = "save_access"
      BY <2>1, <2>2, <2>4 DEF Opens
    <3> QED
      BY <1>1, <2>1, <3>1, RoomElsewhere DEF HasRoom
  <2> QED
    BY <2>3, <2>4
<1> QED
    BY <1>2, <1>3

(* The session is opened: there was room for one.                          *)
LEMMA OpeningKeepsRoom ==
    ASSUME AccountInv, RoomInv, NEW c \in Clients, CreateSession(c)
    PROVE  RoomInv'
<1>1. /\ TypeOK /\ req[c].pc = "session" /\ Finish(c)
      /\ crowded' = crowded
      /\ sessions' = [sessions EXCEPT ![req[c].new] = "active"]
    BY DEF AccountInv, CreateSession, At, Answer, flags
<1> SUFFICES ASSUME ~crowded
             PROVE  /\ Cardinality(ActiveSessions') <= MaxSessions
                    /\ \A d \in Clients : Alone(d)' /\ HasRoom(d)'
    BY <1>1 DEF RoomInv
<1>2. /\ Elsewhere(c) /\ req'[c].pc = "idle" /\ req'[c].op = "none"
    BY <1>1, FinishIsPlain
<1>3. /\ Opens(c) /\ req[c].op \in SessionOpeners
      /\ Cardinality(ActiveSessions) < MaxSessions
    BY <1>1 DEF RoomInv, HasRoom, Opens, Kept, SessionOpeners
<1>4. \A d \in Clients : req'[d].op \notin SessionOpeners
    BY <1>2, <1>3 DEF Elsewhere, RoomInv, Alone, SessionOpeners
<1>5. Cardinality(ActiveSessions') <= MaxSessions
  <2>1. ActiveSessions' \subseteq ActiveSessions \cup {req[c].new}
    BY <1>1 DEF TypeOK, ActiveSessions
  <2>2. /\ IsFiniteSet(ActiveSessions \cup {req[c].new})
        /\ Cardinality(ActiveSessions \cup {req[c].new})
               <= Cardinality(ActiveSessions) + 1
    BY SessionsFinite, FS_AddElement
  <2>3. /\ Cardinality(ActiveSessions')
               <= Cardinality(ActiveSessions \cup {req[c].new})
        /\ Cardinality(ActiveSessions') \in Nat
        /\ Cardinality(ActiveSessions \cup {req[c].new}) \in Nat
    BY <2>1, <2>2, FS_Subset, FS_CardinalityType
  <2> QED
    BY <1>3, <2>2, <2>3, SessionsFinite, AccountsAssumption
<1>6. ASSUME NEW d \in Clients PROVE Alone(d)' /\ HasRoom(d)'
  <2>1. req'[d].pc = "session" => Opens(d)'
    BY <1>2 DEF Elsewhere, RoomInv, HasRoom, Opens
  <2> QED
    BY <1>4, <2>1 DEF Alone, HasRoom, Opens, SessionOpeners
<1> QED
    BY <1>5, <1>6

(* A request arrives; two that may open a session make a crowd.            *)
LEMMA ArrivingKeepsRoom ==
    ASSUME AccountInv, RoomInv, NEW c \in Clients, Arrives(c)
    PROVE  RoomInv'
<1>1. PICK r : Arrive(c, r) /\ r.pc \notin Opening
    BY ArrivalShape DEF Opening, AfterRevokeOld, Writing
<1>2. /\ Elsewhere(c) /\ req'[c].pc = r.pc /\ req'[c].op = r.op
      /\ ActiveSessions' = ActiveSessions
    BY <1>1 DEF Arrive, Become, Elsewhere, docs, ActiveSessions, AccountInv,
                TypeOK
<1> SUFFICES ASSUME ~crowded'
             PROVE  /\ Cardinality(ActiveSessions') <= MaxSessions
                    /\ \A d \in Clients : Alone(d)' /\ HasRoom(d)'
    BY DEF RoomInv
<1>3. /\ ~crowded
      /\ r.op \in SessionOpeners =>
             \A d \in Clients : req[d].op \notin SessionOpeners
    BY <1>1 DEF Arrive
<1>4. ASSUME NEW d \in Clients PROVE Alone(d)' /\ HasRoom(d)'
  <2>1. CASE d = c
    <3>1. ~Opens(d)' /\ req'[d].pc # "session"
      BY <1>1, <1>2, <2>1 DEF Opens, Opening, AfterRevokeOld, Writing
    <3> QED
      BY <1>2, <1>3, <2>1, <3>1 DEF Alone, HasRoom, Elsewhere
  <2>2. CASE d # c
    <3>1. req'[d] = req[d] /\ Alone(d) /\ HasRoom(d)
      BY <1>2, <1>3, <2>2 DEF Elsewhere, RoomInv
    <3>2. Alone(d)'
      BY <1>2, <1>3, <2>2, <3>1 DEF Alone, Elsewhere
    <3>3. HasRoom(d)'
      BY <1>2, <3>1 DEF HasRoom, Opens, Kept
    <3> QED
      BY <3>2, <3>3
  <2> QED
    BY <2>1, <2>2
<1> QED
    BY <1>2, <1>3, <1>4 DEF RoomInv

LEMMA RoomStep ==
    ASSUME AccountInv, RoomInv, [Next]_vars
    PROVE  RoomInv'
<1>1. ASSUME NEW c \in Clients, Continues(c) PROVE RoomInv'
  <2>1. CASE ReadUser(c) \/ WriteProfile(c) \/ WriteStatus(c)
    <3>1. UNCHANGED <<sessions, crowded>>
      BY <2>1 DEF ReadUser, WriteProfile, WriteStatus, docs, flags
    <3>2. /\ Elsewhere(c) /\ req'[c].pc \notin Opening
          /\ req'[c].op = "none" \/ req'[c].op = req[c].op
      <4>1. CASE Finish(c)
        BY <4>1, FinishIsPlain DEF AccountInv
      <4>2. CASE ReadUser(c) /\ ~Finish(c)
        <5>1. req[c].op \in DOMAIN FirstStep
              /\ req[c].op \notin {"logout", "logout_all"}
          BY <4>2 DEF ReadUser, At, AccountInv, Sound, Role
        <5>2. AfterUser(req[c]) \notin Opening
          BY <5>1
          DEF AfterUser, FirstStep, Opening, AfterRevokeOld, Writing
        <5> HIDE DEF AfterUser
        <5>3. /\ Elsewhere(c) /\ req'[c].pc = AfterUser(req[c])
              /\ req'[c].op = req[c].op
          BY <4>2, RequestShape
          DEF ReadUser, Become, Elsewhere, AccountInv, TypeOK, Request
        <5> QED
          BY <5>2, <5>3
      <4>3. CASE WriteStatus(c)
        <5>1. Goto(c, "revoke_sessions") /\ "revoke_sessions" \in Steps \ Opening
          BY <4>3 DEF WriteStatus, Steps, Opening, AfterRevokeOld, Writing
        <5> QED
          BY <5>1, GotoIsPlain DEF AccountInv
      <4> QED
        BY <2>1, <4>1, <4>2, <4>3 DEF WriteProfile
    <3>3. Plain(c)
      BY <3>1, <3>2
      DEF Plain, ActiveSessions, Opening, AfterRevokeOld, Writing
    <3> QED
      BY <3>3, PlainKeepsRoom
  <2>2. CASE SaveUser(c) \/ (SaveRefresh(c) /\ ~OpensSession(req[c]))
    <3>1. UNCHANGED <<sessions, crowded>>
      BY <2>2 DEF SaveUser, SaveRefresh, ghosts, flags
    <3>2. \/ Finish(c)
          \/ Goto(c, "save_access") /\ req[c].op = "register"
      BY <2>2
      DEF SaveUser, SaveRefresh, Answer, At, AccountInv, Sound, Role
    <3>3. Plain(c)
      BY <3>1, <3>2, FinishIsPlain, GotoIsPlain
      DEF AccountInv, Plain, ActiveSessions, Opening, AfterRevokeOld, Writing,
          Steps, SessionOpeners
    <3> QED
      BY <3>3, PlainKeepsRoom
  <2>3. CASE Plain(c)
    BY <2>3, PlainKeepsRoom
  <2>4. CASE CountSessions(c) \/ FindSession(c) \/ CreateSession(c)
    BY <2>4, ComingKeepsRoom, OpeningKeepsRoom
  <2>5. CASE \/ SaveAccess(c) \/ RevokeOld(c) \/ RevokeOldAccess(c)
             \/ SaveRefresh(c) /\ OpensSession(req[c])
    BY <2>5, TowardsKeepsRoom
  <2> QED
    BY <1>1, <2>1, <2>2, <2>3, <2>4, <2>5, PlainStep DEF Continues
<1>2. ASSUME NEW c \in Clients, Swallowed(c) \/ Dies(c) PROVE RoomInv'
  <2>1. CASE Swallowed(c) /\ At(c, "revoke_old_access") /\ Goto(c, "save_access")
    BY <2>1, TowardsKeepsRoom
  <2>2. CASE Finish(c) \/ Goto(c, "revoke_refresh")
    <3>1. UNCHANGED <<sessions, crowded>>
      BY <1>2 DEF Swallowed, Dies, docs, ghosts, flags
    <3>2. Plain(c)
      BY <2>2, <3>1, FinishIsPlain, GotoIsPlain
      DEF AccountInv, Plain, ActiveSessions, Opening, AfterRevokeOld, Writing,
          Steps
    <3> QED
      BY <3>2, PlainKeepsRoom
  <2> QED
    BY <1>2, <2>1, <2>2 DEF Swallowed, Dies
<1>3. ASSUME ActiveSessions' \subseteq ActiveSessions, UNCHANGED <<req, crowded>>
      PROVE  RoomInv'
  <2>1. CASE Clients = {}
    BY <1>3, <2>1, SessionsFinite, AccountsAssumption DEF RoomInv
  <2>2. ASSUME NEW c \in Clients PROVE RoomInv'
    <3>1. ASSUME ~crowded PROVE HasRoom(c)'
      <4>1. Kept(c)' \subseteq Kept(c) /\ Kept(c) \subseteq ActiveSessions
        BY <1>3 DEF Kept
      <4>2. IsFiniteSet(Kept(c))
        BY <4>1, SessionsFinite
      <4>3. /\ Cardinality(Kept(c)') <= Cardinality(Kept(c))
            /\ Cardinality(Kept(c)') \in Nat /\ Cardinality(Kept(c)) \in Nat
        BY <4>1, <4>2, FS_Subset, FS_CardinalityType
      <4> QED
        BY <1>3, <3>1, <4>3, AccountsAssumption DEF RoomInv, HasRoom, Opens
    <3> QED
      BY <1>3, <3>1, RoomElsewhere DEF Elsewhere
  <2> QED
    BY <2>1, <2>2
<1>4. ASSUME NEW g \in Grants, Lapse(g) PROVE RoomInv'
  <2>1. ActiveSessions' \subseteq ActiveSessions
    BY <1>4 DEF Lapse, AccountInv, TypeOK, ActiveSessions
  <2> QED
    BY <1>3, <1>4, <2>1 DEF Lapse, ghosts, flags
<1>5. CASE UNCHANGED vars
    BY <1>3, <1>5 DEF vars, docs, ghosts, flags, ActiveSessions
<1> QED
    BY <1>1, <1>2, <1>4, <1>5, ArrivingKeepsRoom DEF Next

LEMMA RoomInit == Init => RoomInv
<1> SUFFICES ASSUME Init PROVE RoomInv
    OBVIOUS
<1>1. PICK live \in 0..MaxGrants :
          /\ live <= MaxSessions
          /\ sessions = [g \in Grants |->
                            IF g <= live THEN "active" ELSE "absent"]
    BY DEF Init
<1>2. ActiveSessions = 1..live
    BY <1>1, AccountsAssumption DEF ActiveSessions, Grants
<1>3. Cardinality(ActiveSessions) <= MaxSessions
  <2>1. Cardinality(1..live) = IF 1 > live THEN 0 ELSE live - 1 + 1
    BY FS_Interval, AccountsAssumption
  <2> QED
    BY <1>1, <1>2, <2>1, AccountsAssumption
<1>4. \A c \in Clients : req[c] = Idle
    BY DEF Init
<1>5. \A c \in Clients : req[c].pc = "idle" /\ req[c].op = "none"
    BY <1>4, IdleShape
<1> QED
    BY <1>3, <1>5
    DEF RoomInv, Alone, HasRoom, Opens, SessionOpeners, AfterRevokeOld, Writing

(* While no two logins or refreshes have been in flight together at most   *)
(* MAX_SESSIONS sessions are active (login() counts before it inserts, a   *)
(* refresh opens no more than it closed).                                  *)
THEOREM SessionsBounded == Spec => []OnlyOverlapExceeds
<1>1. Spec => []RoomInv
    BY AccountInvariance, RoomInit, RoomStep, PTL DEF Spec
<1>2. RoomInv => OnlyOverlapExceeds
    BY DEF RoomInv, OnlyOverlapExceeds
<1> QED
    BY <1>1, <1>2, PTL

=============================================================================
