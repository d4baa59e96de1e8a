-------------------------------- MODULE Otp --------------------------------
(***************************************************************************)
(* The one-time codes of one identifier, an email or a phone number, as    *)
(* RedisOtpService (src/src/modules/auth/infrastructure/adapters) keeps    *)
(* them: two Redis keys, the code and the count of attempts, each with a   *)
(* lifetime of otpTtlSeconds.  One action is one Redis command.            *)
(***************************************************************************)
EXTENDS Integers, FiniteSets

CONSTANTS
    Clients,        \* slots for concurrent requests
    MaxAttempts,    \* maxAttempts
    MaxCodes,       \* bound: codes generated
    MaxGuesses,     \* bound: codes submitted
    MaxFailures     \* bound: calls cut short

OtpAssumption ==
    /\ IsFiniteSet(Clients)
    /\ MaxAttempts \in Nat \ {0} /\ MaxCodes \in Nat
    /\ MaxGuesses \in Nat /\ MaxFailures \in Nat

None == 0
Codes == 1..MaxCodes

VARIABLES
    channel,        \* what the identifier is: "email" or "phone"
    code,           \* the code stored, or None
    attempts,       \* the count of attempts; 0 when there is no key
    expires,        \* the key of the attempts has a lifetime
    outlives,       \* ... which ends after that of the code stored
    call,           \* the requests in flight
    generated, guesses, failures,   \* for the bounds
    spent,          \* codes whose acceptance has been answered
    tries,          \* guesses compared with each code while it is stored
    wiped,          \* the count was deleted while a newer code was stored,
                    \* or its lifetime ended between INCR and EXPIRE
    orphaned        \* a call was cut short before the EXPIRE that was to give
                    \* this key of the attempts its lifetime

keys == <<code, attempts, expires, outlives>>
bounds == <<generated, guesses, failures>>
ghosts == <<spent, tries, wiped, orphaned>>
vars == <<channel, keys, call, bounds, ghosts>>

(* found: the code read; valid: it is the code submitted.                  *)
NoCall == [pc |-> "idle", found |-> None, valid |-> FALSE]
Steps == {"idle", "set_attempts", "get_attempts", "incr", "expire",
          "del_code", "del_attempts", "del_code_again", "del_attempts_again"}

Init ==
    /\ channel \in {"email", "phone"}
    /\ code = None /\ attempts = 0 /\ expires = FALSE /\ outlives = FALSE
    /\ call = [c \in Clients |-> NoCall]
    /\ generated = 0 /\ guesses = 0 /\ failures = 0
    /\ spent = {} /\ tries = [k \in Codes |-> 0]
    /\ wiped = FALSE /\ orphaned = FALSE

At(c, pc) == call[c].pc = pc
Goto(c, pc) == call' = [call EXCEPT ![c].pc = pc]
Finish(c) == call' = [call EXCEPT ![c] = NoCall]

-----------------------------------------------------------------------------
(***************************************************************************)
(* generateOtp().  The Faulty... operators here and below are variants     *)
(* with a fault seeded, against which the properties are tried; nothing    *)
(* else uses them.                                                         *)
(***************************************************************************)

(* SET NX: a code that has not expired stays, and the new one, which will  *)
(* be sent to the user, is good for nothing.                               *)
Generate(c) ==
    /\ At(c, "idle") /\ generated < MaxCodes
    /\ generated' = generated + 1
    /\ IF code = None THEN code' = generated' /\ outlives' = FALSE
       ELSE UNCHANGED <<code, outlives>>
    /\ Goto(c, "set_attempts")
    /\ UNCHANGED <<channel, attempts, expires, guesses, failures, ghosts>>

(* SET 0 NX.  A key that holds 0 and no key differ in the lifetime only.   *)
SetAttempts(c) ==
    /\ At(c, "set_attempts")
    /\ IF attempts = 0 /\ ~expires THEN expires' = TRUE /\ outlives' = TRUE
       ELSE UNCHANGED <<expires, outlives>>
    /\ Finish(c)
    /\ UNCHANGED <<channel, code, attempts, bounds, ghosts>>

-----------------------------------------------------------------------------
(***************************************************************************)
(* verifyOtp(), which the phone change follows with invalidateOtp().       *)
(***************************************************************************)

(* GET of the code.                                                        *)
Submit(c) ==
    /\ At(c, "idle") /\ guesses < MaxGuesses
    /\ guesses' = guesses + 1
    /\ \E right \in BOOLEAN :
          call' = [call EXCEPT ![c] = [NoCall EXCEPT !.pc = "get_attempts",
                      !.found = code, !.valid = right /\ code # None]]
    /\ UNCHANGED <<channel, keys, generated, failures, ghosts>>

Compare(c) ==
    tries' = IF code = call[c].found THEN [tries EXCEPT ![code] = @ + 1]
             ELSE tries

FaultyGetAttempts(c) ==
    /\ At(c, "get_attempts")
    /\ IF attempts > MaxAttempts \/ call[c].found = None
       THEN Finish(c) /\ UNCHANGED tries
       ELSE /\ Compare(c)
            /\ Goto(c, "incr")
    /\ UNCHANGED <<channel, keys, bounds, spent, wiped, orphaned>>

(* Refused, or compared with the code read.                                *)
GetAttempts(c) ==
    /\ At(c, "get_attempts")
    /\ IF attempts >= MaxAttempts \/ call[c].found = None
       THEN Finish(c) /\ UNCHANGED tries
       ELSE /\ Compare(c)
            /\ Goto(c, "incr")
    /\ UNCHANGED <<channel, keys, bounds, spent, wiped, orphaned>>

(* INCR makes the key, without a lifetime, if there is none.               *)
Incr(c) ==
    /\ At(c, "incr")
    /\ attempts' = attempts + 1
    /\ Goto(c, "expire")
    /\ UNCHANGED <<channel, code, expires, outlives, bounds, ghosts>>

FaultyExpire(c) ==
    /\ At(c, "expire")
    /\ IF call[c].valid THEN Goto(c, "del_code") ELSE Finish(c)
    /\ UNCHANGED <<channel, keys, bounds, ghosts>>

(* EXPIRE does nothing to a key that is gone.                              *)
Expire(c) ==
    /\ At(c, "expire")
    /\ IF attempts > 0 \/ expires
       THEN expires' = TRUE /\ outlives' = TRUE /\ orphaned' = FALSE
       ELSE UNCHANGED <<expires, outlives, orphaned>>
    /\ IF call[c].valid THEN Goto(c, "del_code") ELSE Finish(c)
    /\ UNCHANGED <<channel, code, attempts, bounds, spent, tries, wiped>>

FaultyDelCode(c) ==
    /\ \/ At(c, "del_code") /\ Goto(c, "del_attempts")
       \/ At(c, "del_code_again") /\ Goto(c, "del_attempts_again")
    /\ UNCHANGED <<channel, keys, bounds, ghosts>>

(* DEL of whatever code is stored by now.                                  *)
DelCode(c) ==
    /\ \/ At(c, "del_code") /\ Goto(c, "del_attempts")
       \/ At(c, "del_code_again") /\ Goto(c, "del_attempts_again")
    /\ code' = None
    /\ UNCHANGED <<channel, attempts, expires, outlives, bounds, ghosts>>

(* The last command of verifyOtp() for an email, of invalidateOtp() for a  *)
(* phone: the code is accepted.                                            *)
DelAttempts(c) ==
    /\ attempts' = 0 /\ expires' = FALSE /\ outlives' = FALSE
    /\ wiped' = (wiped \/ code # None) /\ orphaned' = FALSE
    /\ \/ /\ At(c, "del_attempts") /\ channel = "phone"
          /\ Goto(c, "del_code_again")
          /\ UNCHANGED spent
       \/ /\ \/ At(c, "del_attempts") /\ channel = "email"
             \/ At(c, "del_attempts_again")
          /\ spent' = spent \cup {call[c].found}
          /\ Finish(c)
    /\ UNCHANGED <<channel, code, bounds, tries>>

-----------------------------------------------------------------------------
(***************************************************************************)
(* Time and failures.  Both lifetimes are as long: the key that was given  *)
(* its lifetime later ends later.                                          *)
(***************************************************************************)

CodeLapses ==
    /\ code # None
    /\ code' = None
    /\ UNCHANGED <<channel, attempts, expires, outlives, call, bounds, ghosts>>

AttemptsLapse ==
    /\ expires /\ (outlives => code = None)
    /\ attempts' = 0 /\ expires' = FALSE /\ outlives' = FALSE
    /\ wiped' = (wiped \/ \E c \in Clients : At(c, "expire"))
    /\ UNCHANGED <<channel, code, call, bounds, spent, tries, orphaned>>

(* A command is rejected, or the process ends.                             *)
Dies(c) ==
    /\ ~At(c, "idle") /\ failures < MaxFailures
    /\ failures' = failures + 1
    /\ orphaned' = (orphaned \/ (At(c, "expire") /\ attempts > 0 /\ ~expires))
    /\ Finish(c)
    /\ UNCHANGED <<channel, keys, generated, guesses, spent, tries, wiped>>

Continues(c) ==
    \/ SetAttempts(c) \/ GetAttempts(c) \/ Incr(c) \/ Expire(c)
    \/ DelCode(c) \/ DelAttempts(c)

Next ==
    \/ \E c \in Clients : Generate(c) \/ Submit(c) \/ Continues(c) \/ Dies(c)
    \/ CodeLapses \/ AttemptsLapse

(* A request goes on, and Redis drops what has outlived its lifetime.      *)
Fairness ==
    /\ \A c \in Clients : WF_vars(Continues(c))
    /\ WF_vars(CodeLapses) /\ WF_vars(AttemptsLapse)

Spec == Init /\ [][Next]_vars /\ Fairness

-----------------------------------------------------------------------------
(***************************************************************************)
(* Properties                                                              *)
(***************************************************************************)

TypeOK ==
    /\ code \in {None} \cup Codes /\ attempts \in Nat
    /\ expires \in BOOLEAN /\ outlives \in BOOLEAN
    /\ channel \in {"email", "phone"}
    /\ call \in [Clients -> [pc: Steps, found: {None} \cup Codes,
                             valid: BOOLEAN]]
    /\ generated \in 0..MaxCodes /\ guesses \in 0..MaxGuesses
    /\ failures \in 0..MaxFailures
    /\ spent \subseteq Codes /\ tries \in [Codes -> Nat]
    /\ wiped \in BOOLEAN /\ orphaned \in BOOLEAN

(* A code whose acceptance has been answered is never stored again, so no  *)
(* later request can use it (verifyOtp()).                                 *)
SpentOnce == code \notin spent

(* However the requests interleave, at most maxAttempts guesses, one more  *)
(* for each other request in flight and one for each call cut short, are   *)
(* compared with one code while it is stored, unless a late DEL has taken  *)
(* the count of a newer one or the count has lapsed before its EXPIRE      *)
(* (the separate GET, INCR, EXPIRE and DEL of verifyOtp()).                *)
GuessesBounded ==
    wiped \/ \A k \in Codes :
        tries[k] <= MaxAttempts + (Cardinality(Clients) - 1) + failures

(* A lockout ends: the count of attempts never stays at its limit, though  *)
(* INCR may have made the key without a lifetime, unless that very key     *)
(* lost its EXPIRE to a call cut short; no other failure is excused        *)
(* (verifyOtp()).                                                          *)
LockoutEnds ==
    attempts >= MaxAttempts ~> (attempts < MaxAttempts \/ orphaned)

=============================================================================
