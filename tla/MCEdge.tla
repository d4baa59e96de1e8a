------------------------------- MODULE MCEdge -------------------------------
(***************************************************************************)
(* The parts around the application that wait on something outside it: the *)
(* one-time codes and the rate limiter on Redis, and the life of the       *)
(* process.  They share no state, so that one of them is chosen at first   *)
(* and the others rest: the states of the run are the sum of theirs, not   *)
(* the product.                                                            *)
(***************************************************************************)
EXTENDS MCLimiter

CONSTANTS MaxAttempts, MaxCodes, MaxGuesses, Connections, MaxTroubles

VARIABLES
    part,
    channel, code, attempts, expires, outlives, call, generated, guesses,
    spent, tries, wiped, orphaned, lost,
    pc, mounted, broken, db, cache, connection, signalled, timer, status,
    troubles

Otps == INSTANCE Otp WITH failures <- lost
Process == INSTANCE Lifecycle WITH redis <- cache, code <- status

ASSUME EdgeAssumption ==
    Otps!OtpAssumption /\ Process!LifecycleAssumption

otpVars == <<channel, code, attempts, expires, outlives, call, generated,
             guesses, spent, tries, wiped, orphaned, lost>>
processVars == <<pc, mounted, broken, db, cache, connection, signalled, timer,
                 status, troubles>>

(* A process that rests has exited; codes and windows rest at first.       *)
EdgeInit ==
    /\ part \in {"codes", "limiter", "process"}
    /\ Init /\ Otps!Init /\ (part # "codes" => channel = "email")
    /\ IF part = "process" THEN Process!Init
       ELSE /\ pc = "exited" /\ mounted = {} /\ broken = {}
            /\ db = "off" /\ cache = "off"
            /\ connection = [c \in Connections |-> "none"]
            /\ signalled = FALSE /\ timer = "unset" /\ status = 1
            /\ troubles = 0

EdgeNext ==
    \/ /\ part = "codes" /\ Otps!Next
       /\ UNCHANGED <<part, vars, processVars>>
    \/ /\ part = "limiter" /\ Next
       /\ UNCHANGED <<part, otpVars, processVars>>
    \/ /\ part = "process" /\ Process!Next
       /\ UNCHANGED <<part, vars, otpVars>>

EdgeSpec ==
    /\ EdgeInit
    /\ [][EdgeNext]_<<part, vars, otpVars, processVars>>
    /\ Otps!Fairness /\ Fairness /\ Process!Fairness

(* The type invariants of the three.                                       *)
EdgeTypeOK == TypeOK /\ Otps!TypeOK /\ Process!TypeOK

(* The other properties, as the modules state them: no spent code is       *)
(* stored, the guesses at a code are bounded, a lockout ends; a failed     *)
(* module takes only its dependents with it, no store is closed under an   *)
(* open connection, a shutdown ends.                                       *)
SpentOnce == Otps!SpentOnce
GuessesBounded == Otps!GuessesBounded
LockoutEnds == Otps!LockoutEnds
FailureContained == Process!FailureContained
DrainedFirst == Process!DrainedFirst
ShutdownEnds == Process!ShutdownEnds

=============================================================================
