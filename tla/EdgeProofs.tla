----------------------------- MODULE EdgeProofs -----------------------------
(***************************************************************************)
(* Theorems about the three parts of MCEdge, for any number of clients,    *)
(* routes and connections, any limits and any bounds.                      *)
(*                                                                         *)
(* The codes: what a call that has deleted its code remembers is never the *)
(* code stored, and the guesses at the code stored are in the count, about *)
(* to be counted, or were lost with their call.  The limiter: the requests *)
(* let through and those that will be are no more than the counter.  The   *)
(* process: the invariant of LifecycleProofs.                              *)
(***************************************************************************)
EXTENDS MCEdge, FiniteSetTheorems, WellFoundedInduction, TLAPS

LP == INSTANCE LifecycleProofs WITH redis <- cache, code <- status

Late == {"incr", "expire", "del_code", "del_attempts", "del_code_again",
         "del_attempts_again"}
Deleted == {"del_attempts", "del_code_again", "del_attempts_again"}

(* Every code anybody knows has been generated; a guess that is compared   *)
(* is one at a code.                                                       *)
CodesKnown ==
    /\ code <= generated /\ \A k \in spent : k <= generated
    /\ \A c \in Clients : /\ call[c].found <= generated
                          /\ call[c].pc \in Late => call[c].found # Otps!None

(* A call that has deleted its code will not find it stored again.         *)
CodesGone ==
    \A c \in Clients : call[c].pc \in Deleted => call[c].found # code

SpentInv == Otps!TypeOK /\ CodesKnown /\ CodesGone /\ SpentOnce

(* The calls at these steps that compared with the code stored.            *)
Guessing(steps) ==
    {c \in Clients : call[c].pc \in steps /\ call[c].found = code}

Incrementing == Cardinality(Guessing({"incr"}))
Unrenewed == Cardinality(Guessing({"incr", "expire"}))

(* A guess at the code stored has been counted, is about to be, or was cut *)
(* short.  The count is dropped only while its lifetime may end before     *)
(* that of the code; then every guess so far is of a call that is not done *)
(* with EXPIRE, which finds the count there.                               *)
GuessesCounted ==
    code # Otps!None /\ ~wiped =>
        /\ tries[code] <= attempts + Incrementing + lost
        /\ outlives \/ tries[code] <= Unrenewed + lost
        /\ Guessing({"expire"}) # {} => attempts > 0

GuessInv ==
    /\ \A k \in Otps!Codes : k > generated => tries[k] = 0
    /\ GuessesBounded /\ GuessesCounted

(* The requests that will be let through on the count of this window.      *)
Passing(r) ==
    {c \in Clients : /\ checks[c].pc # "idle" /\ checks[c].route = r
                     /\ checks[c].current /\ checks[c].n <= PolicyOf[r].limit}

(* Each of those let through has its number, up to the limit.              *)
PassInv ==
    \A r \in Routes :
        /\ passed[r] + Cardinality(Passing(r)) <= count[r]
        /\ passed[r] + Cardinality(Passing(r)) <= PolicyOf[r].limit

-----------------------------------------------------------------------------
LEMMA ClientsFinite ==
    IsFiniteSet(Clients)
BY LimiterAssumption

(* Counting clients with FiniteSets of this module or of Otp is the same.  *)
LEMMA SameCardinality ==
    ASSUME NEW S
    PROVE  Otps!Cardinality(S) = Cardinality(S)
BY DEF Otps!Cardinality, Cardinality

LEMMA Bounds ==
    /\ MaxAttempts \in Nat \ {0} /\ MaxCodes \in Nat
    /\ MaxGuesses \in Nat /\ MaxFailures \in Nat /\ MaxChecks \in Nat
BY EdgeAssumption, LimiterAssumption DEF Otps!OtpAssumption

(* A subset of the clients has a number, no greater with fewer in it.      *)
LEMMA ClientCount ==
    ASSUME NEW S, S \subseteq Clients
    PROVE  /\ IsFiniteSet(S) /\ Cardinality(S) \in Nat
           /\ Cardinality(S) <= Cardinality(Clients)
           /\ \A T \in SUBSET S :
                 Cardinality(T) \in Nat /\ Cardinality(T) <= Cardinality(S)
<1>1. IsFiniteSet(S) /\ Cardinality(S) \in Nat
    BY ClientsFinite, FS_Subset, FS_CardinalityType
<1>2. Cardinality(S) <= Cardinality(Clients)
    BY ClientsFinite, FS_Subset
<1>3. ASSUME NEW T \in SUBSET S
      PROVE  Cardinality(T) \in Nat /\ Cardinality(T) <= Cardinality(S)
    BY <1>1, FS_Subset, FS_CardinalityType
<1> QED
    BY <1>1, <1>2, <1>3

(* One client more or less changes the number by one.                      *)
LEMMA ClientJoins ==
    ASSUME NEW S, S \subseteq Clients, NEW c \in Clients
    PROVE  Cardinality(S \cup {c}) =
               IF c \in S THEN Cardinality(S) ELSE Cardinality(S) + 1
BY ClientCount, FS_AddElement

LEMMA ClientLeaves ==
    ASSUME NEW S, S \subseteq Clients, NEW c \in Clients
    PROVE  Cardinality(S \ {c}) =
               IF c \in S THEN Cardinality(S) - 1 ELSE Cardinality(S)
BY ClientCount, FS_RemoveElement

-----------------------------------------------------------------------------
(***************************************************************************)
(* The codes.                                                              *)
(***************************************************************************)
CallRecord ==
    [pc: Otps!Steps, found: {Otps!None} \cup Otps!Codes, valid: BOOLEAN]

(* The types of the flags apart from the others.                           *)
Flags ==
    /\ expires \in BOOLEAN /\ outlives \in BOOLEAN
    /\ wiped \in BOOLEAN /\ orphaned \in BOOLEAN

Numbers ==
    /\ code \in {Otps!None} \cup Otps!Codes /\ attempts \in Nat
    /\ channel \in {"email", "phone"}
    /\ generated \in 0..MaxCodes /\ guesses \in 0..MaxGuesses
    /\ lost \in 0..MaxFailures
    /\ spent \subseteq Otps!Codes /\ tries \in [Otps!Codes -> Nat]

LEMMA TypeParts ==
    Otps!TypeOK <=> Flags /\ Numbers /\ call \in [Clients -> CallRecord]
BY Zenon DEF Otps!TypeOK, Flags, Numbers, CallRecord

LEMMA CallTypes ==
    ASSUME Otps!TypeOK, NEW c \in Clients
    PROVE  /\ Otps!NoCall \in CallRecord /\ call[c] \in CallRecord
           /\ \A pc2 \in Otps!Steps :
                 Otps!Goto(c, pc2) => call' \in [Clients -> CallRecord]
           /\ Otps!Finish(c) => call' \in [Clients -> CallRecord]
<1>1. Otps!NoCall \in CallRecord
    BY DEF Otps!NoCall, CallRecord, Otps!Steps
<1>2. call \in [Clients -> CallRecord]
    BY DEF Otps!TypeOK, CallRecord
<1>3. ASSUME NEW pc2 \in Otps!Steps
      PROVE  [call[c] EXCEPT !.pc = pc2] \in CallRecord
    BY <1>2 DEF CallRecord
<1> QED
    BY <1>1, <1>2, <1>3 DEF Otps!Goto, Otps!Finish

LEMMA InitCodes ==
    ASSUME Otps!Init
    PROVE  SpentInv /\ GuessInv
<1>1. call \in [Clients -> CallRecord] /\ \A c \in Clients : call[c] = Otps!NoCall
  <2>1. Otps!NoCall \in CallRecord
    BY DEF Otps!NoCall, CallRecord, Otps!Steps
  <2> QED
    BY <2>1 DEF Otps!Init
<1>2. Otps!TypeOK
  <2>1. Flags
    BY Zenon DEF Otps!Init, Flags
  <2>2. Numbers
    BY Bounds DEF Otps!Init, Numbers, Otps!None
  <2> QED
    BY <1>1, <2>1, <2>2, TypeParts
<1>3. CodesKnown /\ CodesGone /\ SpentOnce
    BY <1>1
    DEF Otps!Init, CodesKnown, CodesGone, SpentOnce, Otps!SpentOnce,
        Otps!NoCall, Otps!None, Late, Deleted
<1>4. GuessInv
  <2>1. \A k \in Otps!Codes : tries[k] = 0
    BY DEF Otps!Init
  <2>2. Otps!Cardinality(Clients) = Cardinality(Clients)
        /\ Cardinality(Clients) \in Nat
    BY SameCardinality, ClientsFinite, FS_CardinalityType
  <2>3. 0 <= MaxAttempts + (Otps!Cardinality(Clients) - 1) + lost
    BY <2>2, Bounds DEF Otps!Init
  <2>4. GuessesBounded
    BY <2>1, <2>3 DEF GuessesBounded, Otps!GuessesBounded
  <2> QED
    BY <2>1, <2>4 DEF GuessInv, GuessesCounted, Otps!Init
<1> QED
    BY <1>2, <1>3, <1>4 DEF SpentInv

(* What a step may do to a call, given the code before and after it.       *)
Follows(c) ==
    \/ call'[c] = call[c]
    \/ /\ call'[c].pc \notin Late
       /\ call'[c].found \in {Otps!None, call[c].found, code}
    \/ /\ call'[c].found = call[c].found /\ call[c].found # Otps!None
       /\ \/ call'[c].pc \notin Deleted
          \/ call[c].pc \in Deleted \/ code' = Otps!None

LEMMA KnownKept ==
    ASSUME SpentInv, generated' \in {generated, generated + 1},
           \/ code' \in {code, Otps!None}
           \/ code' = generated' /\ generated' = generated + 1,
           \A k \in spent' : k \in spent \/ (k <= generated /\ k # code'),
           spent' \subseteq Nat,
           \A c \in Clients : Follows(c)
    PROVE  CodesKnown' /\ CodesGone' /\ SpentOnce'
<1> USE DEF Otps!None, Otps!Codes
<1>1. /\ code \in Nat /\ generated \in Nat /\ code <= generated
      /\ \A k \in spent : k \in Nat /\ k <= generated /\ k # code
      /\ 0 \notin spent
    BY DEF SpentInv, Otps!TypeOK, CodesKnown, SpentOnce, Otps!SpentOnce
<1>2. ASSUME NEW c \in Clients
      PROVE  /\ call[c].found \in Nat /\ call[c].found <= generated
             /\ call[c].pc \in Late => call[c].found # 0
             /\ call[c].pc \in Deleted => call[c].found # code
  <2>1. call[c].found \in {0} \cup 1..MaxCodes
    BY DEF SpentInv, Otps!TypeOK
  <2> QED
    BY <2>1, Bounds DEF SpentInv, CodesKnown, CodesGone
<1>3. code' <= generated' /\ \A k \in spent' : k <= generated'
    BY <1>1
<1>4. SpentOnce'
    BY <1>1 DEF SpentOnce, Otps!SpentOnce
<1>5. ASSUME NEW c \in Clients
      PROVE  /\ call'[c].found <= generated'
             /\ call'[c].pc \in Late => call'[c].found # 0
             /\ call'[c].pc \in Deleted => call'[c].found # code'
  <2>1. call'[c].found \in {call[c].found, 0, code}
    BY DEF Follows
  <2>2. call'[c].found <= generated'
    BY <1>1, <1>2, <2>1
  <2>3. call'[c].pc \in Late => call'[c].found # 0
    BY <1>2 DEF Follows
  <2>4. call'[c].pc \in Deleted =>
            /\ call'[c].found = call[c].found /\ call[c].found # 0
            /\ call[c].pc \in Deleted \/ code' = 0
    BY <1>2 DEF Follows, Late, Deleted
  <2> QED
    BY <1>1, <1>2, <2>2, <2>3, <2>4
<1> QED
    BY <1>3, <1>4, <1>5 DEF CodesKnown, CodesGone

LEMMA FlagsStep ==
    ASSUME Flags, Otps!Next
    PROVE  Flags'
<1>1. /\ expires' = expires \/ expires' = TRUE \/ expires' = FALSE
      /\ outlives' = outlives \/ outlives' = TRUE \/ outlives' = FALSE
  <2>1. ASSUME NEW c \in Clients, \/ Otps!Generate(c) \/ Otps!Submit(c)
                                  \/ Otps!Continues(c) \/ Otps!Dies(c)
        PROVE  /\ expires' = expires \/ expires' = TRUE \/ expires' = FALSE
               /\ outlives' = outlives \/ outlives' = TRUE \/ outlives' = FALSE
    BY <2>1, Zenon
    DEF Otps!Generate, Otps!Submit, Otps!Continues, Otps!Dies, Otps!SetAttempts,
        Otps!GetAttempts, Otps!Incr, Otps!Expire, Otps!DelCode,
        Otps!DelAttempts, Otps!keys
  <2>2. CASE Otps!CodeLapses \/ Otps!AttemptsLapse
    BY <2>2, Zenon DEF Otps!CodeLapses, Otps!AttemptsLapse
  <2> QED
    BY <2>1, <2>2, Zenon DEF Otps!Next
<1>2. \/ wiped' = wiped
      \/ wiped' = (wiped \/ code # Otps!None)
      \/ wiped' = (wiped \/ \E c \in Clients : Otps!At(c, "expire"))
  <2>1. ASSUME NEW c \in Clients, \/ Otps!Generate(c) \/ Otps!Submit(c)
                                  \/ Otps!Continues(c) \/ Otps!Dies(c)
        PROVE  wiped' = wiped \/ wiped' = (wiped \/ code # Otps!None)
    BY <2>1, Zenon
    DEF Otps!Generate, Otps!Submit, Otps!Continues, Otps!Dies, Otps!SetAttempts,
        Otps!GetAttempts, Otps!Incr, Otps!Expire, Otps!DelCode,
        Otps!DelAttempts, Otps!ghosts
  <2>2. CASE Otps!CodeLapses \/ Otps!AttemptsLapse
    BY <2>2, Zenon DEF Otps!CodeLapses, Otps!AttemptsLapse, Otps!ghosts
  <2> QED
    BY <2>1, <2>2, Zenon DEF Otps!Next
<1>3. wiped' \in BOOLEAN
    BY <1>2, Zenon DEF Flags
<1>4. \/ orphaned' = orphaned \/ orphaned' = FALSE
      \/ \E S : orphaned' = (orphaned \/ S)
  <2>1. ASSUME NEW c \in Clients, \/ Otps!Generate(c) \/ Otps!Submit(c)
                                  \/ Otps!Continues(c)
        PROVE  orphaned' = orphaned \/ orphaned' = FALSE
    BY <2>1, Zenon
    DEF Otps!Generate, Otps!Submit, Otps!Continues, Otps!SetAttempts,
        Otps!GetAttempts, Otps!Incr, Otps!Expire, Otps!DelCode,
        Otps!DelAttempts, Otps!ghosts
  <2>2. ASSUME NEW c \in Clients, Otps!Dies(c)
        PROVE  orphaned' = (orphaned \/ (Otps!At(c, "expire") /\ attempts > 0
                                         /\ ~expires))
    BY <2>2, Zenon DEF Otps!Dies
  <2>3. CASE Otps!CodeLapses \/ Otps!AttemptsLapse
    BY <2>3, Zenon DEF Otps!CodeLapses, Otps!AttemptsLapse, Otps!ghosts
  <2> QED
    BY <2>1, <2>2, <2>3, Zenon DEF Otps!Next
<1>5. orphaned' \in BOOLEAN
    BY <1>4, Zenon DEF Flags
<1> QED
    BY <1>1, <1>3, <1>5, Zenon DEF Flags

(* Each step keeps the types, and what is known of the codes and of the    *)
(* calls.                                                                  *)
LEMMA SpentStep ==
    ASSUME SpentInv, Otps!Next
    PROVE  SpentInv'
<1> USE DEF Otps!None, Otps!Codes
<1>1. /\ call \in [Clients -> CallRecord] /\ Numbers /\ Flags /\ Otps!TypeOK
      /\ CodesKnown
    BY TypeParts DEF SpentInv
<1>2. \A c \in Clients : call[c].pc \in Late => call[c].found # Otps!None
    BY <1>1 DEF CodesKnown
<1> DEFINE Kept == /\ Numbers' /\ call' \in [Clients -> CallRecord]
                   /\ CodesKnown' /\ CodesGone' /\ SpentOnce'
<1>3. SUFFICES Kept
  <2> SUFFICES ASSUME Kept PROVE SpentInv'
    OBVIOUS
  <2>1. Flags'
    BY <1>1, FlagsStep
  <2>2. Otps!TypeOK'
    BY <2>1, Zenon DEF Otps!TypeOK, Flags, Numbers, CallRecord
  <2> QED
    BY <2>2 DEF SpentInv
<1>4. ASSUME NEW c \in Clients, NEW r \in CallRecord,
             call' = [call EXCEPT ![c] = r],
             \/ r.pc \notin Late /\ r.found \in {Otps!None, call[c].found, code}
             \/ /\ r.found = call[c].found /\ call[c].found # Otps!None
                /\ \/ r.pc \notin Deleted
                   \/ call[c].pc \in Deleted \/ code' = Otps!None
      PROVE  /\ call' \in [Clients -> CallRecord]
             /\ \A d \in Clients : Follows(d)
    BY <1>1, <1>4 DEF Follows
<1>5. ASSUME NEW c \in Clients, NEW p \in Otps!Steps, Otps!Goto(c, p),
             \/ p \notin Late
             \/ /\ call[c].pc \in Late
                /\ p \notin Deleted \/ call[c].pc \in Deleted \/ code' = Otps!None
      PROVE  /\ call' \in [Clients -> CallRecord]
             /\ \A d \in Clients : Follows(d)
  <2> DEFINE r == [call[c] EXCEPT !.pc = p]
  <2>1. r \in CallRecord /\ r.pc = p /\ r.found = call[c].found
    BY <1>1 DEF CallRecord
  <2>2. call' = [call EXCEPT ![c] = r]
    BY <1>5 DEF Otps!Goto
  <2> HIDE DEF r
  <2> QED
    BY <1>2, <1>4, <1>5, <2>1, <2>2
<1>6. ASSUME NEW c \in Clients, Otps!Finish(c)
      PROVE  /\ call' \in [Clients -> CallRecord]
             /\ \A d \in Clients : Follows(d)
  <2>1. Otps!NoCall \in CallRecord /\ Otps!NoCall.pc \notin Late
        /\ Otps!NoCall.found = Otps!None
    BY DEF Otps!NoCall, CallRecord, Otps!Steps, Late
  <2> QED
    BY <1>4, <1>6, <2>1 DEF Otps!Finish
<1>7. ASSUME NEW c \in Clients, Otps!Generate(c)
      PROVE  Kept
  <2>1. /\ generated' = generated + 1 /\ generated < MaxCodes
        /\ code' = code \/ code' = generated'
        /\ Otps!Goto(c, "set_attempts")
        /\ channel' = channel /\ attempts' = attempts /\ guesses' = guesses
        /\ lost' = lost /\ spent' = spent /\ tries' = tries
    BY <1>7 DEF Otps!Generate, Otps!ghosts
  <2>2. /\ call' \in [Clients -> CallRecord]
        /\ \A d \in Clients : Follows(d)
    BY <1>5, <2>1 DEF Otps!Steps, Late
  <2>3. Numbers'
    BY <1>1, <2>1, Bounds DEF Numbers
  <2> QED
    BY <1>1, <2>1, <2>2, <2>3, KnownKept DEF Numbers
<1>8. ASSUME NEW c \in Clients, Otps!Submit(c)
      PROVE  Kept
  <2>1. /\ guesses' = guesses + 1 /\ guesses < MaxGuesses
        /\ code' = code /\ generated' = generated /\ channel' = channel
        /\ attempts' = attempts /\ lost' = lost /\ spent' = spent
        /\ tries' = tries
    BY <1>8 DEF Otps!Submit, Otps!ghosts, Otps!keys
  <2>2. PICK right \in BOOLEAN :
            call' = [call EXCEPT ![c] = [Otps!NoCall EXCEPT !.pc = "get_attempts",
                        !.found = code, !.valid = right /\ code # Otps!None]]
    BY <1>8 DEF Otps!Submit
  <2> DEFINE v == right /\ code # Otps!None
             r == [Otps!NoCall EXCEPT !.pc = "get_attempts", !.found = code,
                                      !.valid = v]
  <2>3. v \in BOOLEAN
    BY Zenon
  <2>4. call' = [call EXCEPT ![c] = r]
    BY <2>2
  <2> HIDE DEF v
  <2>5. r \in CallRecord /\ r.pc \notin Late /\ r.found = code
    BY <1>1, <2>3 DEF Otps!NoCall, CallRecord, Otps!Steps, Late, Numbers
  <2> HIDE DEF r
  <2>6. /\ call' \in [Clients -> CallRecord]
        /\ \A d \in Clients : Follows(d)
    BY <1>4, <2>4, <2>5
  <2>7. Numbers'
    BY <1>1, <2>1, Bounds DEF Numbers
  <2> QED
    BY <1>1, <2>1, <2>6, <2>7, KnownKept DEF Numbers
<1>9. ASSUME NEW c \in Clients, Otps!SetAttempts(c)
      PROVE  Kept
  <2>1. /\ code' = code /\ attempts' = attempts /\ Otps!Finish(c)
        /\ channel' = channel /\ generated' = generated
        /\ guesses' = guesses /\ lost' = lost /\ spent' = spent
        /\ tries' = tries
    BY <1>9 DEF Otps!SetAttempts, Otps!ghosts, Otps!bounds
  <2>2. Numbers'
    BY <1>1, <2>1 DEF Numbers
  <2> QED
    BY <1>1, <1>6, <2>1, <2>2, KnownKept DEF Numbers
<1>10. ASSUME NEW c \in Clients, Otps!GetAttempts(c)
       PROVE  Kept
  <2>1. /\ code' = code /\ attempts' = attempts /\ channel' = channel
        /\ generated' = generated /\ guesses' = guesses /\ lost' = lost
        /\ spent' = spent
    BY <1>10 DEF Otps!GetAttempts, Otps!keys, Otps!bounds
  <2>2. \/ Otps!Finish(c) /\ tries' = tries
        \/ /\ call[c].found # Otps!None /\ Otps!Compare(c)
           /\ Otps!Goto(c, "incr")
    BY <1>10 DEF Otps!GetAttempts
  <2>3. tries' \in [Otps!Codes -> Nat]
    BY <1>1, <2>2 DEF Numbers, Otps!Compare
  <2>4. Numbers'
    BY <1>1, <2>1, <2>3 DEF Numbers
  <2>5. /\ call' \in [Clients -> CallRecord]
        /\ \A d \in Clients : Follows(d)
    <3>1. CASE call[c].found # Otps!None /\ Otps!Goto(c, "incr")
      <4> DEFINE r == [call[c] EXCEPT !.pc = "incr"]
      <4>1. r \in CallRecord /\ r.pc = "incr" /\ r.found = call[c].found
        BY <1>1 DEF CallRecord, Otps!Steps
      <4>2. call' = [call EXCEPT ![c] = r]
        BY <3>1 DEF Otps!Goto
      <4> HIDE DEF r
      <4> QED
        BY <1>4, <3>1, <4>1, <4>2 DEF Deleted
    <3> QED
      BY <1>6, <2>2, <3>1
  <2> QED
    BY <1>1, <2>1, <2>4, <2>5, KnownKept DEF Numbers
<1>11. ASSUME NEW c \in Clients, Otps!Incr(c) \/ Otps!Expire(c)
       PROVE  Kept
  <2>1. /\ code' = code /\ attempts' \in {attempts, attempts + 1}
        /\ channel' = channel /\ generated' = generated
        /\ guesses' = guesses /\ lost' = lost /\ spent' = spent
        /\ tries' = tries
    BY <1>11 DEF Otps!Incr, Otps!Expire, Otps!ghosts, Otps!bounds
  <2>2. \/ Otps!Finish(c)
        \/ /\ call[c].pc \in Late
           /\ Otps!Goto(c, "expire") \/ Otps!Goto(c, "del_code")
    BY <1>11 DEF Otps!Incr, Otps!Expire, Otps!At, Late
  <2>3. /\ call' \in [Clients -> CallRecord]
        /\ \A d \in Clients : Follows(d)
    BY <1>5, <1>6, <2>2 DEF Otps!Steps, Deleted
  <2>4. Numbers'
    BY <1>1, <2>1 DEF Numbers
  <2> QED
    BY <1>1, <2>1, <2>3, <2>4, KnownKept DEF Numbers
<1>12. ASSUME NEW c \in Clients, Otps!DelCode(c)
       PROVE  Kept
  <2>1. /\ code' = Otps!None /\ attempts' = attempts
        /\ channel' = channel /\ generated' = generated
        /\ guesses' = guesses /\ lost' = lost /\ spent' = spent
        /\ tries' = tries
    BY <1>12 DEF Otps!DelCode, Otps!ghosts, Otps!bounds
  <2>2. /\ call[c].pc \in Late
        /\ Otps!Goto(c, "del_attempts") \/ Otps!Goto(c, "del_attempts_again")
    BY <1>12 DEF Otps!DelCode, Otps!At, Late
  <2>3. /\ call' \in [Clients -> CallRecord]
        /\ \A d \in Clients : Follows(d)
    BY <1>5, <2>1, <2>2 DEF Otps!Steps
  <2>4. Numbers'
    BY <1>1, <2>1 DEF Numbers
  <2> QED
    BY <1>1, <2>1, <2>3, <2>4, KnownKept DEF Numbers
<1>13. ASSUME NEW c \in Clients, Otps!DelAttempts(c)
       PROVE  Kept
  <2>1. /\ attempts' = 0 /\ code' = code /\ channel' = channel
        /\ generated' = generated /\ guesses' = guesses /\ lost' = lost
        /\ tries' = tries /\ call[c].pc \in Deleted /\ call[c].pc \in Late
    BY <1>13 DEF Otps!DelAttempts, Otps!At, Otps!bounds, Deleted, Late
  <2>2. \/ Otps!Goto(c, "del_code_again") /\ spent' = spent
        \/ Otps!Finish(c) /\ spent' = spent \cup {call[c].found}
    BY <1>13 DEF Otps!DelAttempts
  <2>3. /\ call[c].found \in Otps!Codes /\ call[c].found <= generated
        /\ call[c].found # code
    <3>1. call[c].found \in {Otps!None} \cup Otps!Codes
      BY <1>1 DEF CallRecord
    <3> QED
      BY <1>2, <2>1, <3>1 DEF SpentInv, CodesKnown, CodesGone
  <2>4. /\ call' \in [Clients -> CallRecord]
        /\ \A d \in Clients : Follows(d)
    BY <1>5, <1>6, <2>1, <2>2 DEF Otps!Steps
  <2>5. Numbers'
    BY <1>1, <2>1, <2>2, <2>3 DEF Numbers
  <2>6. \A k \in spent' : k \in spent \/ (k <= generated /\ k # code')
    BY <2>1, <2>2, <2>3
  <2> QED
    BY <1>1, <2>1, <2>4, <2>5, <2>6, KnownKept DEF Numbers
<1>14. ASSUME NEW c \in Clients, Otps!Dies(c)
       PROVE  Kept
  <2>1. /\ lost' = lost + 1 /\ lost < MaxFailures /\ Otps!Finish(c)
        /\ code' = code /\ attempts' = attempts /\ channel' = channel
        /\ generated' = generated /\ guesses' = guesses
        /\ spent' = spent /\ tries' = tries
    BY <1>14 DEF Otps!Dies, Otps!keys, Otps!ghosts
  <2>2. Numbers'
    BY <1>1, <2>1, Bounds DEF Numbers
  <2> QED
    BY <1>1, <1>6, <2>1, <2>2, KnownKept DEF Numbers
<1>15. CASE Otps!CodeLapses \/ Otps!AttemptsLapse
  <2>1. /\ code' \in {code, Otps!None} /\ attempts' \in {attempts, 0}
        /\ channel' = channel /\ call' = call /\ generated' = generated
        /\ guesses' = guesses /\ lost' = lost /\ spent' = spent
        /\ tries' = tries
    BY <1>15
    DEF Otps!CodeLapses, Otps!AttemptsLapse, Otps!ghosts, Otps!bounds
  <2>2. Numbers' /\ \A d \in Clients : Follows(d)
    BY <1>1, <2>1 DEF Numbers, Follows
  <2> QED
    BY <1>1, <2>1, <2>2, KnownKept DEF Numbers
<1> QED
    BY <1>7, <1>8, <1>9, <1>10, <1>11, <1>12, <1>13, <1>14, <1>15
    DEF Otps!Next, Otps!Continues

-----------------------------------------------------------------------------
(* The calls that compared with the code stored, after a step of c.        *)
LEMMA GuessingAfter ==
    ASSUME NEW steps, NEW c \in Clients, code' = code,
           \A d \in Clients \ {c} : call'[d] = call[d]
    PROVE  /\ Guessing(steps) \subseteq Clients
           /\ call'[c].pc \in steps /\ call'[c].found = code =>
                  Guessing(steps)' = Guessing(steps) \cup {c}
           /\ ~ (call'[c].pc \in steps /\ call'[c].found = code) =>
                  Guessing(steps)' = Guessing(steps) \ {c}
BY DEF Guessing

(* A step that compares nothing needs to keep the count only.              *)
LEMMA QuietKept ==
    ASSUME SpentInv, GuessInv, tries' = tries,
           generated' \in {generated, generated + 1}, lost' \in {lost, lost + 1},
           wiped => wiped', GuessesCounted'
    PROVE  GuessInv'
<1>1. generated \in Nat /\ lost \in Nat /\ tries \in [Otps!Codes -> Nat]
    BY Bounds DEF SpentInv, Otps!TypeOK
<1>2. Otps!Codes \subseteq Nat
    BY Bounds DEF Otps!Codes
<1>3. \A k \in Otps!Codes : k > generated' => tries'[k] = 0
    BY <1>1, <1>2 DEF GuessInv
<1>4. GuessesBounded'
  <2> SUFFICES ASSUME ~wiped', NEW k \in Otps!Codes
               PROVE  tries'[k] <= MaxAttempts + (Otps!Cardinality(Clients) - 1)
                                   + lost'
    BY DEF GuessesBounded, Otps!GuessesBounded
  <2>1. tries[k] <= MaxAttempts + (Otps!Cardinality(Clients) - 1) + lost
    BY DEF GuessInv, GuessesBounded, Otps!GuessesBounded
  <2>2. Otps!Cardinality(Clients) \in Nat
    BY SameCardinality, ClientsFinite, FS_CardinalityType
  <2> QED
    BY <1>1, <2>1, <2>2, Bounds
<1> QED
    BY <1>3, <1>4 DEF GuessInv

(* The history only grows.                                                 *)
LEMMA WipedStays ==
    ASSUME Otps!Next
    PROVE  wiped => wiped'
<1>1. ASSUME NEW c \in Clients, \/ Otps!Generate(c) \/ Otps!Submit(c)
                                \/ Otps!Continues(c) \/ Otps!Dies(c)
      PROVE  wiped => wiped'
    BY <1>1, Zenon
    DEF Otps!Generate, Otps!Submit, Otps!Continues, Otps!Dies, Otps!SetAttempts,
        Otps!GetAttempts, Otps!Incr, Otps!Expire, Otps!DelCode,
        Otps!DelAttempts, Otps!ghosts
<1>2. CASE Otps!CodeLapses \/ Otps!AttemptsLapse
    BY <1>2, Zenon DEF Otps!CodeLapses, Otps!AttemptsLapse, Otps!ghosts
<1> QED
    BY <1>1, <1>2, Zenon DEF Otps!Next

(* Each step keeps the guesses counted.                                    *)
LEMMA GuessStep ==
    ASSUME SpentInv, GuessInv, Otps!Next
    PROVE  GuessInv'
<1> USE DEF Otps!None
<1>1. /\ call \in [Clients -> CallRecord] /\ Numbers /\ CodesKnown
      /\ code \in Nat /\ attempts \in Nat /\ lost \in Nat /\ generated \in Nat
      /\ tries \in [Otps!Codes -> Nat] /\ Otps!Codes = 1..MaxCodes
      /\ code # 0 => code \in Otps!Codes
    BY TypeParts, Bounds DEF SpentInv, Numbers, Otps!Codes
<1>2. wiped => wiped'
    BY WipedStays
<1>3. ASSUME code # 0, ~wiped
      PROVE  /\ tries[code] <= attempts + Incrementing + lost
             /\ outlives \/ tries[code] <= Unrenewed + lost
             /\ Guessing({"expire"}) # {} => attempts > 0
    BY <1>3 DEF GuessInv, GuessesCounted
<1>4. /\ Incrementing \in Nat /\ Unrenewed \in Nat
  <2>1. \A steps : Guessing(steps) \subseteq Clients
    BY DEF Guessing
  <2> QED
    BY <2>1, ClientCount DEF Incrementing, Unrenewed
(* A step that leaves the code and its guesses alone.                      *)
<1>5. ASSUME NEW c \in Clients, code' = code, attempts' = attempts,
             lost' = lost, tries' = tries, outlives => outlives',
             generated' \in {generated, generated + 1},
             \A d \in Clients \ {c} : call'[d] = call[d],
             call[c].pc \notin {"incr", "expire"},
             call'[c].pc \notin {"incr", "expire"}
      PROVE  GuessInv'
  <2>1. ASSUME NEW steps, steps \subseteq {"incr", "expire"}
        PROVE  Guessing(steps)' = Guessing(steps)
    BY <1>5, <2>1 DEF Guessing
  <2>2. GuessesCounted'
    BY <1>2, <1>3, <1>5, <2>1 DEF GuessesCounted, Incrementing, Unrenewed
  <2> QED
    BY <1>2, <1>5, <2>2, QuietKept
(* A step after which no code is stored, or none whose count is known.     *)
<1>6. ASSUME code' = 0 \/ wiped', lost' \in {lost, lost + 1}, tries' = tries,
             generated' \in {generated, generated + 1}
      PROVE  GuessInv'
    BY <1>2, <1>6, QuietKept DEF GuessesCounted
<1>7. ASSUME NEW c \in Clients, NEW p, Otps!Goto(c, p) PROVE
             /\ call'[c].pc = p /\ call'[c].found = call[c].found
             /\ \A d \in Clients \ {c} : call'[d] = call[d]
    BY <1>1, <1>7 DEF Otps!Goto, CallRecord
<1>8. ASSUME NEW c \in Clients, Otps!Finish(c) PROVE
             /\ call'[c].pc = "idle"
             /\ \A d \in Clients \ {c} : call'[d] = call[d]
    BY <1>1, <1>8 DEF Otps!Finish, Otps!NoCall
<1>9. ASSUME NEW c \in Clients, Otps!Generate(c)
      PROVE  GuessInv'
  <2>1. /\ call[c].pc = "idle" /\ Otps!Goto(c, "set_attempts")
        /\ generated' = generated + 1 /\ generated < MaxCodes
        /\ attempts' = attempts /\ lost' = lost /\ tries' = tries
    BY <1>9 DEF Otps!Generate, Otps!At, Otps!ghosts
  <2>2. CASE code # 0
    <3>1. code' = code /\ (outlives => outlives')
      BY <1>9, <2>2, Zenon DEF Otps!Generate
    <3> QED
      BY <1>5, <1>7, <2>1, <3>1
  <2>3. CASE code = 0
    <3>1. code' = generated + 1
      BY <1>9, <2>1, <2>3 DEF Otps!Generate
    <3>2. code' \in Otps!Codes /\ tries'[code'] = 0
      BY <1>1, <2>1, <3>1, Bounds DEF GuessInv
    <3>3. \A d \in Clients : call'[d].found # code'
      <4>1. \A d \in Clients : call'[d].found = call[d].found
        BY <1>7, <2>1
      <4>2. \A d \in Clients : call[d].found \in Nat /\ call[d].found <= generated
        BY <1>1, Bounds DEF CallRecord, CodesKnown
      <4> QED
        BY <1>1, <3>1, <4>1, <4>2
    <3>4. \A steps : Guessing(steps)' = {}
      BY <3>3 DEF Guessing
    <3>5. Incrementing' = 0 /\ Unrenewed' = 0
      BY <3>4, FS_EmptySet DEF Incrementing, Unrenewed
    <3>6. GuessesCounted'
      BY <1>1, <2>1, <3>2, <3>4, <3>5 DEF GuessesCounted
    <3> QED
      BY <1>2, <2>1, <3>6, QuietKept
  <2> QED
    BY <2>2, <2>3
<1>10. ASSUME NEW c \in Clients, Otps!Submit(c)
       PROVE  GuessInv'
  <2>1. /\ call[c].pc = "idle" /\ code' = code /\ attempts' = attempts
        /\ lost' = lost /\ tries' = tries /\ generated' = generated
    BY <1>10 DEF Otps!Submit, Otps!At, Otps!keys, Otps!ghosts
  <2>2. outlives => outlives'
    BY <1>10, Zenon DEF Otps!Submit, Otps!keys
  <2>3. /\ call'[c].pc = "get_attempts"
        /\ \A d \in Clients \ {c} : call'[d] = call[d]
    BY <1>1, <1>10 DEF Otps!Submit, Otps!NoCall
  <2> QED
    BY <1>5, <2>1, <2>2, <2>3
<1>11. ASSUME NEW c \in Clients, Otps!SetAttempts(c)
       PROVE  GuessInv'
  <2>1. /\ call[c].pc = "set_attempts" /\ code' = code
        /\ attempts' = attempts /\ Otps!Finish(c)
        /\ lost' = lost /\ tries' = tries /\ generated' = generated
    BY <1>11 DEF Otps!SetAttempts, Otps!At, Otps!bounds, Otps!ghosts
  <2>2. outlives => outlives'
    BY <1>11, Zenon DEF Otps!SetAttempts
  <2> QED
    BY <1>5, <1>8, <2>1, <2>2
<1>12. ASSUME NEW c \in Clients, Otps!GetAttempts(c)
       PROVE  GuessInv'
  <2>1. /\ call[c].pc = "get_attempts" /\ code' = code
        /\ attempts' = attempts /\ lost' = lost /\ generated' = generated
    BY <1>12 DEF Otps!GetAttempts, Otps!At, Otps!keys, Otps!bounds
  <2>2. (outlives <=> outlives') /\ (wiped <=> wiped')
    BY <1>12, Zenon DEF Otps!GetAttempts, Otps!keys
  <2>3. \/ Otps!Finish(c) /\ tries' = tries
        \/ /\ attempts < MaxAttempts /\ call[c].found # 0
           /\ Otps!Compare(c) /\ Otps!Goto(c, "incr")
    BY <1>1, <1>12, Bounds DEF Otps!GetAttempts
  <2>4. CASE tries' = tries /\ Otps!Finish(c)
    BY <1>5, <1>8, <2>1, <2>2, <2>4
  <2>5. CASE /\ attempts < MaxAttempts /\ call[c].found # 0
             /\ Otps!Compare(c) /\ Otps!Goto(c, "incr")
    <3>1. /\ call'[c].pc = "incr" /\ call'[c].found = call[c].found
          /\ \A d \in Clients \ {c} : call'[d] = call[d]
      BY <1>7, <2>5
    <3>2. CASE code # call[c].found
      <4>1. tries' = tries
        BY <2>5, <3>2 DEF Otps!Compare
      <4>2. \A steps : Guessing(steps)' = Guessing(steps)
        BY <2>1, <3>1, <3>2 DEF Guessing
      <4>3. GuessesCounted'
        BY <1>3, <2>1, <2>2, <4>1, <4>2
        DEF GuessesCounted, Incrementing, Unrenewed
      <4> QED
        BY <1>2, <2>1, <4>1, <4>3, QuietKept
    <3>3. CASE code = call[c].found
      <4>1. code \in Otps!Codes /\ tries' = [tries EXCEPT ![code] = @ + 1]
        BY <1>1, <2>5, <3>3 DEF Otps!Compare
      <4>2. ASSUME NEW steps, "incr" \in steps
            PROVE  Guessing(steps)' = Guessing(steps) \cup {c}
        BY <2>1, <3>1, <3>3, <4>2 DEF Guessing
      <4>3. Guessing({"expire"})' = Guessing({"expire"})
        BY <2>1, <3>1 DEF Guessing
      <4>4. /\ \A steps : Guessing(steps) \subseteq Clients
            /\ c \notin Guessing({"incr"}) /\ c \notin Guessing({"incr", "expire"})
        BY <2>1 DEF Guessing
      <4>5. Incrementing' = Incrementing + 1 /\ Unrenewed' = Unrenewed + 1
        BY <4>2, <4>4, ClientJoins DEF Incrementing, Unrenewed
      <4>6. GuessesCounted'
        BY <1>1, <1>3, <1>4, <2>1, <2>2, <4>1, <4>3, <4>5 DEF GuessesCounted
      <4>7. Incrementing + 1 <= Cardinality(Clients)
        <5>1. Guessing({"incr"})' \subseteq Clients
          BY <4>2, <4>4
        <5> QED
          BY <4>5, <5>1, ClientCount DEF Incrementing
      <4>8. GuessesBounded'
        <5> SUFFICES ASSUME ~wiped', NEW k \in Otps!Codes
                     PROVE  tries'[k] <= MaxAttempts
                                + (Otps!Cardinality(Clients) - 1) + lost'
          BY DEF GuessesBounded, Otps!GuessesBounded
        <5>1. /\ tries[k] <= MaxAttempts + (Otps!Cardinality(Clients) - 1) + lost
              /\ Otps!Cardinality(Clients) = Cardinality(Clients)
              /\ Cardinality(Clients) \in Nat
          BY <2>2, SameCardinality, ClientsFinite, FS_CardinalityType
          DEF GuessInv, GuessesBounded, Otps!GuessesBounded
        <5>2. CASE k # code
          BY <2>1, <4>1, <5>1, <5>2
        <5>3. CASE k = code
          <6>1. tries[k] <= attempts + Incrementing + lost
            BY <1>1, <1>3, <2>2, <2>5, <3>3, <5>3
          <6>2. tries'[k] = tries[k] + 1 /\ tries[k] \in Nat
            BY <1>1, <4>1, <5>3
          <6> QED
            BY <1>1, <1>4, <2>1, <2>5, <4>7, <5>1, <6>1, <6>2, Bounds
        <5> QED
          BY <5>2, <5>3
      <4>9. \A k \in Otps!Codes : k > generated' => tries'[k] = 0
        BY <1>1, <2>1, <4>1, Bounds DEF GuessInv, CodesKnown
      <4> QED
        BY <4>6, <4>8, <4>9 DEF GuessInv
    <3> QED
      BY <3>2, <3>3
  <2> QED
    BY <2>3, <2>4, <2>5
<1>13. ASSUME NEW c \in Clients, Otps!Incr(c)
       PROVE  GuessInv'
  <2>1. /\ call[c].pc = "incr" /\ Otps!Goto(c, "expire") /\ code' = code
        /\ attempts' = attempts + 1 /\ lost' = lost
        /\ generated' = generated /\ tries' = tries
    BY <1>13 DEF Otps!Incr, Otps!At, Otps!bounds, Otps!ghosts
  <2>2. (outlives <=> outlives') /\ (wiped <=> wiped')
    BY <1>13, Zenon DEF Otps!Incr, Otps!ghosts
  <2>3. /\ call'[c].pc = "expire" /\ call'[c].found = call[c].found
        /\ \A d \in Clients \ {c} : call'[d] = call[d]
    BY <1>7, <2>1
  <2>4. Guessing({"incr", "expire"})' = Guessing({"incr", "expire"})
    BY <2>1, <2>3 DEF Guessing
  <2>5. Guessing({"incr"})' = Guessing({"incr"}) \ {c}
    BY <2>1, <2>3 DEF Guessing
  <2>6. Incrementing' >= Incrementing - 1 /\ Incrementing' \in Nat
    <3>1. Guessing({"incr"}) \subseteq Clients
      BY DEF Guessing
    <3>2. Guessing({"incr"})' \subseteq Clients
      BY <2>5, <3>1
    <3> QED
      BY <1>4, <2>5, <3>1, <3>2, ClientLeaves, ClientCount DEF Incrementing
  <2>7. ASSUME code # 0, ~wiped
        PROVE  /\ tries'[code'] <= attempts' + Incrementing' + lost'
               /\ outlives' \/ tries'[code'] <= Unrenewed' + lost'
               /\ attempts' > 0
    <3>1. tries[code] \in Nat
      BY <1>1, <2>7
    <3> QED
      BY <1>1, <1>3, <1>4, <2>1, <2>2, <2>4, <2>6, <2>7, <3>1 DEF Unrenewed
  <2>8. GuessesCounted'
    BY <2>1, <2>2, <2>7 DEF GuessesCounted
  <2> QED
    BY <1>2, <2>1, <2>8, QuietKept
(* A step with which a guess leaves those that EXPIRE has not reached.     *)
<1>14. ASSUME NEW c \in Clients, call[c].pc = "expire",
              call'[c].pc \notin {"incr", "expire"}, code' = code,
              \A d \in Clients \ {c} : call'[d] = call[d]
       PROVE  /\ Incrementing' = Incrementing
              /\ Guessing({"expire"})' \subseteq Guessing({"expire"})
              /\ call[c].found # code => Unrenewed' = Unrenewed
  <2>1. Guessing({"incr"})' = Guessing({"incr"})
    BY <1>14 DEF Guessing
  <2>2. Guessing({"expire"})' \subseteq Guessing({"expire"})
    BY <1>14 DEF Guessing
  <2>3. call[c].found # code =>
            Guessing({"incr", "expire"})' = Guessing({"incr", "expire"})
    BY <1>14 DEF Guessing
  <2> QED
    BY <2>1, <2>2, <2>3 DEF Incrementing, Unrenewed
<1>15. ASSUME NEW c \in Clients, Otps!Expire(c)
       PROVE  GuessInv'
  <2>1. /\ call[c].pc = "expire" /\ code' = code /\ attempts' = attempts
        /\ lost' = lost /\ generated' = generated /\ tries' = tries
        /\ Otps!Goto(c, "del_code") \/ Otps!Finish(c)
    BY <1>15 DEF Otps!Expire, Otps!At, Otps!bounds, Otps!ghosts
  <2>2. wiped <=> wiped'
    BY <1>15, Zenon DEF Otps!Expire, Otps!ghosts
  <2>3. outlives' \/ (~ (attempts > 0) /\ (outlives' <=> outlives))
    BY <1>15, Zenon DEF Otps!Expire
  <2>4. /\ call'[c].pc \notin {"incr", "expire"}
        /\ \A d \in Clients \ {c} : call'[d] = call[d]
    BY <1>7, <1>8, <2>1
  <2>5. ASSUME code # 0, ~wiped
        PROVE  /\ tries[code] <= attempts + Incrementing' + lost
               /\ outlives' \/ tries[code] <= Unrenewed' + lost
               /\ Guessing({"expire"})' # {} => attempts > 0
    <3>1. ~ (attempts > 0) => call[c].found # code
      BY <1>3, <2>1, <2>5 DEF Guessing
    <3> QED
      BY <1>3, <1>14, <2>1, <2>3, <2>4, <2>5, <3>1
  <2>6. GuessesCounted'
    BY <2>1, <2>2, <2>5 DEF GuessesCounted
  <2> QED
    BY <1>2, <2>1, <2>6, QuietKept
<1>16. ASSUME NEW c \in Clients, Otps!DelCode(c) \/ Otps!DelAttempts(c)
       PROVE  GuessInv'
  <2>1. code' = 0 \/ wiped'
    BY <1>16, Zenon DEF Otps!DelCode, Otps!DelAttempts, Otps!None
  <2>2. lost' = lost /\ generated' = generated /\ tries' = tries
    BY <1>16 DEF Otps!DelCode, Otps!DelAttempts, Otps!bounds, Otps!ghosts
  <2> QED
    BY <1>6, <2>1, <2>2
<1>17. ASSUME NEW c \in Clients, Otps!Dies(c)
       PROVE  GuessInv'
  <2>1. /\ Otps!Finish(c) /\ code' = code /\ attempts' = attempts
        /\ lost' = lost + 1 /\ generated' = generated /\ tries' = tries
    BY <1>17 DEF Otps!Dies, Otps!keys, Otps!ghosts
  <2>2. (outlives <=> outlives') /\ (wiped <=> wiped')
    BY <1>17, Zenon DEF Otps!Dies, Otps!keys, Otps!ghosts
  <2>3. \A steps : "idle" \notin steps =>
            Guessing(steps)' = Guessing(steps) \ {c}
    BY <1>8, <2>1 DEF Guessing
  <2>4. ASSUME NEW steps, "idle" \notin steps
        PROVE  /\ Cardinality(Guessing(steps))' >= Cardinality(Guessing(steps)) - 1
               /\ Cardinality(Guessing(steps)) \in Nat
               /\ Cardinality(Guessing(steps))' \in Nat
    <3>1. Guessing(steps) \subseteq Clients
      BY DEF Guessing
    <3>2. Guessing(steps)' \subseteq Clients
      BY <2>3, <2>4, <3>1
    <3> QED
      BY <2>3, <2>4, <3>1, <3>2, ClientLeaves, ClientCount
  <2>5. /\ Incrementing' >= Incrementing - 1 /\ Incrementing' \in Nat
        /\ Unrenewed' >= Unrenewed - 1 /\ Unrenewed' \in Nat
        /\ Guessing({"expire"})' \subseteq Guessing({"expire"})
    BY <2>3, <2>4 DEF Incrementing, Unrenewed
  <2>6. ASSUME code # 0, ~wiped
        PROVE  /\ tries[code] <= attempts + Incrementing' + lost'
               /\ outlives' \/ tries[code] <= Unrenewed' + lost'
               /\ Guessing({"expire"})' # {} => attempts > 0
    <3>1. tries[code] \in Nat
      BY <1>1, <2>6
    <3> QED
      BY <1>1, <1>3, <1>4, <2>1, <2>2, <2>5, <2>6, <3>1
  <2>7. GuessesCounted'
    BY <2>1, <2>2, <2>6 DEF GuessesCounted
  <2> QED
    BY <1>2, <2>1, <2>7, QuietKept
<1>18. CASE Otps!CodeLapses
  <2>1. code' = 0 /\ lost' = lost /\ generated' = generated /\ tries' = tries
    BY <1>18 DEF Otps!CodeLapses, Otps!bounds, Otps!ghosts
  <2> QED
    BY <1>6, <2>1
<1>19. CASE Otps!AttemptsLapse
  <2>1. /\ code' = code /\ attempts' = 0 /\ call' = call /\ lost' = lost
        /\ generated' = generated /\ tries' = tries
        /\ outlives => code = 0
    BY <1>19 DEF Otps!AttemptsLapse, Otps!bounds
  <2>2. ~wiped' => ~wiped /\ \A c \in Clients : call[c].pc # "expire"
    BY <1>19, Zenon DEF Otps!AttemptsLapse, Otps!At
  <2>3. \A steps : Guessing(steps)' = Guessing(steps)
    BY <2>1 DEF Guessing
  <2>4. ASSUME code # 0, ~wiped'
        PROVE  /\ tries[code] <= Incrementing + lost
               /\ tries[code] <= Unrenewed + lost
               /\ Guessing({"expire"}) = {}
    <3>1. Guessing({"incr", "expire"}) = Guessing({"incr"})
          /\ Guessing({"expire"}) = {}
      BY <2>2, <2>4 DEF Guessing
    <3> QED
      BY <1>3, <2>1, <2>2, <2>4, <3>1 DEF Incrementing, Unrenewed
  <2>5. GuessesCounted'
    BY <1>1, <1>4, <2>1, <2>3, <2>4
    DEF GuessesCounted, Incrementing, Unrenewed
  <2> QED
    BY <1>2, <2>1, <2>5, QuietKept
<1> QED
    BY <1>9, <1>10, <1>11, <1>12, <1>13, <1>15, <1>16, <1>17, <1>18, <1>19
    DEF Otps!Next, Otps!Continues

(* The codes rest while another part runs.                                 *)
LEMMA CodesRest ==
    ASSUME SpentInv, GuessInv, UNCHANGED otpVars
    PROVE  SpentInv' /\ GuessInv'
<1>1. SpentInv'
    BY Zenon
    DEF SpentInv, Otps!TypeOK, CodesKnown, CodesGone, SpentOnce, Otps!SpentOnce,
        otpVars
<1>2. GuessInv'
    BY Zenon
    DEF GuessInv, GuessesBounded, Otps!GuessesBounded, GuessesCounted,
        Incrementing, Unrenewed, Guessing, otpVars
<1> QED
    BY <1>1, <1>2

-----------------------------------------------------------------------------
(***************************************************************************)
(* The limiter.                                                            *)
(***************************************************************************)

(* Every route has a policy, with its limit.                               *)
LEMMA PolicyLimit ==
    ASSUME NEW r \in Routes
    PROVE  PolicyOf[r].limit \in Nat
<1> DEFINE S == {i \in 1..Len(Policies) : \/ Policies[i].scope = "GLOBAL"
                                         \/ Matches(Policies[i], r)}
<1>1. Len(Policies) \in Nat
      /\ \A i \in 1..Len(Policies) : Policies[i].limit \in Nat
  <2> DEFINE P == [scope: STRING, limit: Nat, failClosed: BOOLEAN,
                   method: STRING, prefix: Seq(STRING)]
  <2>1. Policies \in Seq(P)
    BY LimiterAssumption
  <2>2. \A p \in P : p.limit \in Nat
    OBVIOUS
  <2> HIDE DEF P
  <2> QED
    BY <2>1, <2>2
<1>2. S \subseteq Nat /\ S # {}
  <2>1. PICK i \in 1..Len(Policies) : Policies[i].scope = "GLOBAL"
    BY Zenon, LimiterAssumption
  <2>2. i \in S
    BY <2>1
  <2> QED
    BY <1>1, <2>2
<1>3. PolicyOf[r] = Policies[Min(S)]
    BY DEF PolicyOf
<1>4. S \subseteq 1..Len(Policies)
    OBVIOUS
<1> HIDE DEF S
<1>5. PICK x \in S : \A y \in S : ~ (<<y, x>> \in OpToRel(<, Nat))
    BY <1>2, NatLessThanWellFounded, WFMin
<1>6. \A y \in S : x <= y
  <2> SUFFICES ASSUME NEW y \in S, ~ (x <= y) PROVE FALSE
    OBVIOUS
  <2>1. x \in Nat /\ y \in Nat /\ y < x
    BY <1>2
  <2>2. <<y, x>> \in OpToRel(<, Nat)
    BY <2>1 DEF OpToRel
  <2> QED
    BY <1>5, <2>2
<1>7. Min(S) \in S
    BY <1>6 DEF Min
<1> QED
    BY <1>1, <1>3, <1>4, <1>7

LimiterInv == TypeOK /\ PassInv

LEMMA InitLimiter ==
    ASSUME Init
    PROVE  LimiterInv
<1>1. NoCheck \in [pc: {"idle", "expire", "ttl"}, route: Routes, n: Nat,
                   current: BOOLEAN]
    BY LimiterAssumption DEF NoCheck
<1>2. TypeOK
    BY <1>1, Bounds DEF Init, TypeOK
<1>3. PassInv
  <2> SUFFICES ASSUME NEW r \in Routes
               PROVE  /\ passed[r] + Cardinality(Passing(r)) <= count[r]
                      /\ passed[r] + Cardinality(Passing(r)) <= PolicyOf[r].limit
    BY DEF PassInv
  <2>1. Passing(r) = {}
    BY DEF Passing, Init, NoCheck
  <2> QED
    BY <2>1, PolicyLimit, FS_EmptySet DEF Init
<1> QED
    BY <1>2, <1>3 DEF LimiterInv

CheckRecord ==
    [pc: {"idle", "expire", "ttl"}, route: Routes, n: Nat, current: BOOLEAN]

(* A step that changes one request and no counter keeps the sums, if the   *)
(* request does not come to be passing.                                    *)
LEMMA PassKept ==
    ASSUME LimiterInv, NEW c \in Clients, count' = count, passed' = passed,
           \A d \in Clients \ {c} : checks'[d] = checks[d],
           \A r \in Routes : c \in Passing(r)' => c \in Passing(r)
    PROVE  PassInv'
<1> SUFFICES ASSUME NEW r \in Routes
             PROVE  /\ passed[r] + Cardinality(Passing(r)') <= count[r]
                    /\ passed[r] + Cardinality(Passing(r)') <= PolicyOf[r].limit
    BY DEF PassInv
<1>1. Passing(r)' \subseteq Passing(r) /\ Passing(r) \subseteq Clients
    BY DEF Passing
<1>2. /\ Cardinality(Passing(r)) \in Nat /\ Cardinality(Passing(r)') \in Nat
      /\ Cardinality(Passing(r)') <= Cardinality(Passing(r))
    BY <1>1, ClientCount
<1>3. passed[r] \in Nat /\ count[r] \in Nat /\ PolicyOf[r].limit \in Nat
    BY PolicyLimit DEF LimiterInv, TypeOK
<1> QED
    BY <1>2, <1>3 DEF LimiterInv, PassInv

LEMMA LimiterStep ==
    ASSUME LimiterInv, Next
    PROVE  LimiterInv'
<1>1. /\ count \in [Routes -> Nat] /\ passed \in [Routes -> Nat]
      /\ checks \in [Clients -> CheckRecord] /\ TypeOK
    BY DEF LimiterInv, TypeOK, CheckRecord
<1>2. NoCheck \in CheckRecord /\ NoCheck.pc = "idle"
    BY LimiterAssumption DEF NoCheck, CheckRecord
<1>3. \A r \in Routes : PolicyOf[r].limit \in Nat
    BY PolicyLimit
<1>4. ASSUME NEW r \in Routes
      PROVE  /\ Passing(r) \subseteq Clients /\ Passing(r)' \subseteq Clients
             /\ Cardinality(Passing(r)) \in Nat
             /\ passed[r] + Cardinality(Passing(r)) <= count[r]
             /\ passed[r] + Cardinality(Passing(r)) <= PolicyOf[r].limit
  <2>1. Passing(r) \subseteq Clients /\ Passing(r)' \subseteq Clients
    BY DEF Passing
  <2> QED
    BY <2>1, ClientCount DEF LimiterInv, PassInv
<1>5. SUFFICES TypeOK' /\ PassInv'
    BY DEF LimiterInv
<1>6. ASSUME NEW c \in Clients, CheckUnavailable(c)
      PROVE  TypeOK' /\ PassInv'
  <2>1. TypeOK'
    BY <1>1, <1>6, Bounds DEF CheckUnavailable, TypeOK
  <2>2. count' = count /\ passed' = passed /\ checks' = checks
    BY <1>6 DEF CheckUnavailable
  <2>3. \A r : Passing(r)' = Passing(r)
    BY <2>2 DEF Passing
  <2> QED
    BY <2>1, <2>2, <2>3, PassKept
<1>7. ASSUME NEW c \in Clients, Check(c)
      PROVE  TypeOK' /\ PassInv'
  <2>1. PICK r \in Routes :
            /\ count' = [count EXCEPT ![r] = @ + 1]
            /\ checks' = [checks EXCEPT ![c] = Counted(r, count[r] + 1)]
    BY <1>7 DEF Check
  <2>2. /\ checks[c].pc = "idle" /\ asked' = asked + 1 /\ asked < MaxChecks
        /\ timed' = timed /\ redis' = redis /\ failures' = failures
        /\ passed' = passed /\ unchecked' = unchecked /\ untimed' = untimed
    BY <1>7 DEF Check, ghosts
  <2> DEFINE k == Counted(r, count[r] + 1)
  <2>3. /\ k \in CheckRecord /\ k.pc # "idle" /\ k.route = r
        /\ k.n = count[r] + 1 /\ k.current = TRUE
    <3> DEFINE p == IF count[r] + 1 = 1 THEN "expire" ELSE "ttl"
               m == count[r] + 1
    <3>1. p \in {"expire", "ttl"} /\ m \in Nat
      BY <1>1
    <3>2. k = [NoCheck EXCEPT !.pc = p, !.route = r, !.n = m, !.current = TRUE]
      BY DEF Counted
    <3> HIDE DEF p, m, k
    <3>3. k \in [pc: {p}, route: {r}, n: {m}, current: {TRUE}]
      BY <1>2, <3>2 DEF CheckRecord
    <3>4. m = count[r] + 1
      BY DEF m
    <3> QED
      BY <3>1, <3>3, <3>4 DEF CheckRecord
  <2>4. checks' = [checks EXCEPT ![c] = k]
    BY <2>1
  <2> HIDE DEF k
  <2>5. TypeOK'
    <3>1. checks' \in [Clients -> CheckRecord]
      BY <1>1, <2>3, <2>4
    <3> QED
      BY <1>1, <2>1, <2>2, <3>1, Bounds DEF TypeOK, CheckRecord
  <2>6. /\ checks'[c] = k /\ \A d \in Clients \ {c} : checks'[d] = checks[d]
    BY <1>1, <2>4
  <2>7. \A q : c \notin Passing(q)
    BY <2>2 DEF Passing
  <2>8. ASSUME NEW q \in Routes
        PROVE  Passing(q)' = IF q = r /\ count[r] + 1 <= PolicyOf[r].limit
                             THEN Passing(q) \cup {c} ELSE Passing(q)
    BY <2>3, <2>6, <2>7 DEF Passing
  <2>9. ASSUME NEW q \in Routes
        PROVE  /\ passed'[q] + Cardinality(Passing(q)') <= count'[q]
               /\ passed'[q] + Cardinality(Passing(q)') <= PolicyOf[q].limit
    <3>1. CASE q = r /\ count[r] + 1 <= PolicyOf[r].limit
      <4>1. Cardinality(Passing(q)') = Cardinality(Passing(q)) + 1
        BY <1>4, <2>7, <2>8, <3>1, ClientJoins
      <4> QED
        BY <1>1, <1>3, <1>4, <2>1, <2>2, <3>1, <4>1
    <3>2. CASE ~ (q = r /\ count[r] + 1 <= PolicyOf[r].limit)
      <4>1. Passing(q)' = Passing(q) /\ count'[q] \in {count[q], count[q] + 1}
        BY <1>1, <2>1, <2>8, <3>2
      <4> QED
        BY <1>1, <1>3, <1>4, <2>2, <4>1
    <3> QED
      BY <3>1, <3>2
  <2> QED
    BY <2>5, <2>9 DEF PassInv
<1>8. ASSUME NEW c \in Clients, Expire(c)
      PROVE  TypeOK' /\ PassInv'
  <2>1. /\ checks[c].pc = "expire" /\ checks' = [checks EXCEPT ![c].pc = "ttl"]
        /\ timed' \subseteq timed \cup {checks[c].route}
        /\ count' = count /\ redis' = redis /\ asked' = asked
        /\ failures' = failures /\ passed' = passed /\ unchecked' = unchecked
        /\ untimed' \subseteq untimed
    BY <1>8 DEF Expire
  <2>2. TypeOK'
    BY <1>1, <2>1 DEF TypeOK, CheckRecord
  <2>3. /\ \A d \in Clients \ {c} : checks'[d] = checks[d]
        /\ checks'[c].route = checks[c].route /\ checks'[c].n = checks[c].n
        /\ checks'[c] = [checks[c] EXCEPT !.pc = "ttl"]
    BY <1>1, <2>1 DEF CheckRecord
  <2>4. \A r \in Routes : c \in Passing(r)' => c \in Passing(r)
    BY <1>1, <2>1, <2>3 DEF Passing, CheckRecord
  <2> QED
    BY <2>1, <2>2, <2>3, <2>4, PassKept
<1>9. ASSUME NEW c \in Clients, checks' = [checks EXCEPT ![c] = NoCheck]
      PROVE  /\ checks' \in [Clients -> CheckRecord]
             /\ \A d \in Clients \ {c} : checks'[d] = checks[d]
             /\ \A r : Passing(r)' = Passing(r) \ {c}
             /\ \A r \in Routes : c \in Passing(r)' => c \in Passing(r)
  <2>1. /\ checks' \in [Clients -> CheckRecord] /\ checks'[c].pc = "idle"
        /\ \A d \in Clients \ {c} : checks'[d] = checks[d]
    BY <1>1, <1>2, <1>9
  <2> QED
    BY <2>1 DEF Passing
<1>10. ASSUME NEW c \in Clients, Decide(c)
       PROVE  TypeOK' /\ PassInv'
  <2> DEFINE r == checks[c].route
  <2>1. /\ checks[c].pc = "ttl" /\ checks' = [checks EXCEPT ![c] = NoCheck]
        /\ count' = count /\ timed' = timed /\ redis' = redis
        /\ asked' = asked /\ failures' = failures /\ unchecked' = unchecked
        /\ untimed' = untimed
    BY <1>10 DEF Decide
  <2>2. r \in Routes
    BY <1>1 DEF CheckRecord
  <2>3. \/ c \in Passing(r) /\ passed' = [passed EXCEPT ![r] = @ + 1]
        \/ passed' = passed
    BY <1>10 DEF Decide, Passing
  <2>4. \A q : c \in Passing(q) => q = r
    BY DEF Passing
  <2> HIDE DEF r
  <2>5. passed' \in [Routes -> Nat]
    BY <1>1, <2>3
  <2>6. TypeOK'
    BY <1>1, <1>9, <2>1, <2>5 DEF TypeOK, CheckRecord
  <2>7. CASE passed' = passed
    BY <1>9, <2>1, <2>6, <2>7, PassKept
  <2>8. CASE c \in Passing(r) /\ passed' = [passed EXCEPT ![r] = @ + 1]
    <3>1. ASSUME NEW q \in Routes
          PROVE  passed'[q] + Cardinality(Passing(q)') =
                     passed[q] + Cardinality(Passing(q))
      <4>1. Passing(q)' = Passing(q) \ {c}
        BY <1>9, <2>1
      <4>2. CASE q = r
        BY <1>1, <1>4, <2>8, <4>1, <4>2, ClientLeaves
      <4>3. CASE q # r
        BY <1>1, <1>4, <2>2, <2>4, <2>8, <4>1, <4>3, ClientLeaves
      <4> QED
        BY <4>2, <4>3
    <3> QED
      BY <1>4, <2>1, <2>6, <3>1 DEF PassInv
  <2> QED
    BY <2>3, <2>7, <2>8
<1>11. ASSUME NEW c \in Clients, Rejected(c)
       PROVE  TypeOK' /\ PassInv'
  <2>1. /\ failures' = failures + 1 /\ failures < MaxFailures
        /\ checks' = [checks EXCEPT ![c] = NoCheck]
        /\ count' = count /\ timed' = timed /\ redis' = redis
        /\ asked' = asked /\ passed' = passed /\ unchecked' = unchecked
        /\ untimed' \subseteq untimed \cup {checks[c].route}
    BY <1>11 DEF Rejected
  <2>2. checks' \in [Clients -> CheckRecord]
    BY <1>9, <2>1
  <2>3. TypeOK'
    <3>1. checks[c].route \in Routes
      BY <1>1 DEF CheckRecord
    <3> QED
      BY <1>1, <2>1, <2>2, <3>1, Bounds DEF TypeOK, CheckRecord
  <2> QED
    BY <1>9, <2>1, <2>3, PassKept
<1>12. ASSUME NEW r \in Routes, WindowEnds(r)
       PROVE  TypeOK' /\ PassInv'
  <2>1. /\ count' = [count EXCEPT ![r] = 0] /\ timed' = timed \ {r}
        /\ passed' = [passed EXCEPT ![r] = 0]
        /\ redis' = redis /\ asked' = asked /\ failures' = failures
        /\ unchecked' = unchecked /\ untimed' = untimed
    BY <1>12 DEF WindowEnds
  <2>2. ASSUME NEW c \in Clients
        PROVE  /\ checks'[c] \in CheckRecord
               /\ checks[c].route = r => /\ checks'[c].current = FALSE
                                         /\ checks'[c].route = r
               /\ checks[c].route # r => checks'[c] = checks[c]
    <3>1. checks'[c] = IF checks[c].route = r
                       THEN [checks[c] EXCEPT !.current = FALSE] ELSE checks[c]
      BY <1>12 DEF WindowEnds
    <3> QED
      BY <1>1, <3>1 DEF CheckRecord
  <2>3. checks' \in [Clients -> CheckRecord]
    <3>1. checks' = [c \in Clients |-> checks'[c]]
      BY <1>12 DEF WindowEnds
    <3> QED
      BY <2>2, <3>1
  <2>4. TypeOK'
    BY <1>1, <2>1, <2>3 DEF TypeOK, CheckRecord
  <2>5. \A q : Passing(q)' = IF q = r THEN {} ELSE Passing(q)
    BY <2>2 DEF Passing
  <2>6. ASSUME NEW q \in Routes
        PROVE  /\ passed'[q] + Cardinality(Passing(q)') <= count'[q]
               /\ passed'[q] + Cardinality(Passing(q)') <= PolicyOf[q].limit
    <3>1. CASE q = r
      <4>1. Cardinality(Passing(q)') = 0
        BY <2>5, <3>1, FS_EmptySet
      <4> QED
        BY <1>1, <1>3, <2>1, <3>1, <4>1
    <3>2. CASE q # r
      BY <1>1, <1>4, <2>1, <2>5, <3>2
    <3> QED
      BY <3>1, <3>2
  <2> QED
    BY <2>4, <2>6 DEF PassInv
<1>13. CASE Loses \/ Reconnects
  <2>1. /\ count' = count /\ passed' = passed /\ checks' = checks
        /\ TypeOK'
    BY <1>1, <1>13, Bounds DEF Loses, Reconnects, TypeOK, ghosts
  <2>2. \A r : Passing(r)' = Passing(r)
    BY <2>1 DEF Passing
  <2>3. ASSUME NEW q \in Routes
        PROVE  /\ passed'[q] + Cardinality(Passing(q)') <= count'[q]
               /\ passed'[q] + Cardinality(Passing(q)') <= PolicyOf[q].limit
    BY <1>4, <2>1, <2>2
  <2> QED
    BY <2>1, <2>3 DEF PassInv
<1> QED
    BY <1>6, <1>7, <1>8, <1>10, <1>11, <1>12, <1>13 DEF Next, Continues

LEMMA LimiterRests ==
    ASSUME LimiterInv, UNCHANGED vars
    PROVE  LimiterInv'
BY Zenon DEF LimiterInv, TypeOK, PassInv, Passing, vars, ghosts

-----------------------------------------------------------------------------
(***************************************************************************)
(* The process.  LifecycleProofs is about Lifecycle; its invariant is      *)
(* taken over, LP and Process being two instances of the same definitions. *)
(***************************************************************************)
LEMMA SameAssumption ==
    LP!LifecycleAssumption
<1>1. ASSUME NEW S, Process!IsFiniteSet(S) PROVE LP!IsFiniteSet(S)
    BY <1>1 DEF Process!IsFiniteSet, LP!IsFiniteSet
<1> QED
    BY <1>1, EdgeAssumption DEF Process!LifecycleAssumption, LP!LifecycleAssumption

LEMMA SameNext ==
    Process!Next => LP!Next
BY Zenon
DEF Process!Next, LP!Next, Process!StartStep, LP!StartStep,
    Process!LoadStep, LP!LoadStep, Process!ConnectDatabase, LP!ConnectDatabase,
    Process!ConnectRedis, LP!ConnectRedis, Process!Listen, LP!Listen,
    Process!LoadAuth, LP!LoadAuth, Process!LoadUsers, LP!LoadUsers,
    Process!LoadSessions, LP!LoadSessions,
    Process!LoadRepositories, LP!LoadRepositories,
    Process!LoadInventory, LP!LoadInventory,
    Process!LoadCatalog, LP!LoadCatalog,
    Process!LoadCatalogAlone, LP!LoadCatalogAlone,
    Process!LoadCart, LP!LoadCart, Process!LoadWishlist, LP!LoadWishlist,
    Process!LoadCheckout, LP!LoadCheckout, Process!Load, LP!Load,
    Process!Exit, LP!Exit, Process!Trouble, LP!Trouble,
    Process!Transfer, LP!Transfer, Process!Becomes, LP!Becomes,
    Process!Open, LP!Open, Process!Connect, LP!Connect,
    Process!Respond, LP!Respond, Process!FallsQuiet, LP!FallsQuiet,
    Process!Traffic, LP!Traffic, Process!TimeOut, LP!TimeOut,
    Process!HandlerEnds, LP!HandlerEnds, Process!Alive, LP!Alive,
    Process!LoseStore, LP!LoseStore, Process!RegainStore, LP!RegainStore,
    Process!Signal, LP!Signal, Process!ServerCloses, LP!ServerCloses,
    Process!CloseRedis, LP!CloseRedis, Process!CloseDatabase, LP!CloseDatabase,
    Process!Finishes, LP!Finishes, Process!ForcedExit, LP!ForcedExit,
    Process!Crash, LP!Crash, Process!loads, LP!loads, Process!stores, LP!stores,
    Process!ending, LP!ending, Process!Startup, LP!Startup,
    Process!Shutdown, LP!Shutdown, Process!Modules, LP!Modules

LEMMA SameProperties ==
    ASSUME LP!ProcessInv
    PROVE  Process!TypeOK /\ FailureContained /\ DrainedFirst
<1>1. LP!TypeOK => Process!TypeOK
    BY Zenon
    DEF LP!TypeOK, Process!TypeOK, LP!Steps, Process!Steps, LP!Startup,
        Process!Startup, LP!Shutdown, Process!Shutdown, LP!Modules,
        Process!Modules, LP!Parts, Process!Parts, LP!Running, Process!Running
<1>2. LP!FailureContained => FailureContained
    BY Zenon
    DEF LP!FailureContained, FailureContained, Process!FailureContained,
        LP!Needs, Process!Needs, LP!Modules, Process!Modules
<1>3. LP!DrainedFirst => DrainedFirst
    BY Zenon
    DEF LP!DrainedFirst, DrainedFirst, Process!DrainedFirst, LP!Open, Process!Open
<1> QED
    BY <1>1, <1>2, <1>3, LP!InvImplies DEF LP!ProcessInv

(* A process that rests has exited.                                        *)
LEMMA InitProcess ==
    ASSUME EdgeInit
    PROVE  LP!ProcessInv
<1>1. CASE part = "process"
  <2>1. LP!Init
    BY <1>1 DEF EdgeInit, Process!Init, LP!Init, Process!Running, LP!Running
  <2> QED
    BY <2>1, SameAssumption, LP!InitProcess
<1>2. CASE part # "process"
  <2>1. /\ pc = "exited" /\ mounted = {} /\ broken = {} /\ db = "off"
        /\ cache = "off" /\ connection = [c \in Connections |-> "none"]
        /\ signalled = FALSE /\ timer = "unset" /\ status = 1 /\ troubles = 0
    BY <1>2 DEF EdgeInit
  <2>2. LP!TypeOK
    <3>1. connection \in [Connections -> {"none", "busy", "quiet", "detached"}]
      BY <2>1
    <3>2. 0 \in 0..MaxTroubles
      BY SameAssumption DEF LP!LifecycleAssumption
    <3> QED
      BY <2>1, <3>1, <3>2 DEF LP!TypeOK, LP!Steps
  <2>3. LP!LoadsInv
    BY <2>1 DEF LP!LoadsInv, LP!Loading, LP!Startup
  <2>4. LP!DrainInv /\ LP!DrainedFirst
    BY <2>1 DEF LP!DrainInv, LP!DrainedFirst, LP!Open, LP!Loading, LP!Startup
  <2> QED
    BY <2>2, <2>3, <2>4 DEF LP!ProcessInv
<1> QED
    BY <1>1, <1>2

LEMMA ProcessStep ==
    ASSUME LP!ProcessInv, Process!Next \/ UNCHANGED processVars
    PROVE  LP!ProcessInv'
<1>1. LP!Next \/ UNCHANGED LP!vars
  <2>1. CASE UNCHANGED processVars
    BY <2>1 DEF processVars, LP!vars, LP!loads, LP!stores, LP!ending
  <2> QED
    BY <2>1, SameNext
<1> QED
    BY <1>1, SameAssumption, LP!ProcessStep

-----------------------------------------------------------------------------
EdgeInv == SpentInv /\ GuessInv /\ LimiterInv /\ LP!ProcessInv

LEMMA InitEdge ==
    EdgeInit => EdgeInv
BY InitCodes, InitLimiter, InitProcess DEF EdgeInit, EdgeInv

LEMMA NextEdge ==
    EdgeInv /\ [EdgeNext]_<<part, vars, otpVars, processVars>> => EdgeInv'
<1> SUFFICES ASSUME EdgeInv, [EdgeNext]_<<part, vars, otpVars, processVars>>
             PROVE  EdgeInv'
    OBVIOUS
<1>1. /\ Otps!Next \/ UNCHANGED otpVars
      /\ Next \/ UNCHANGED vars
      /\ Process!Next \/ UNCHANGED processVars
    BY Zenon DEF EdgeNext
<1>2. SpentInv' /\ GuessInv'
    BY <1>1, SpentStep, GuessStep, CodesRest DEF EdgeInv
<1>3. LimiterInv'
    BY <1>1, LimiterStep, LimiterRests DEF EdgeInv
<1>4. LP!ProcessInv'
    BY <1>1, ProcessStep DEF EdgeInv
<1> QED
    BY <1>2, <1>3, <1>4 DEF EdgeInv

(* The invariant holds in every state.                                     *)
THEOREM EdgeInvariance ==
    EdgeSpec => []EdgeInv
BY InitEdge, NextEdge, PTL DEF EdgeSpec

(* The codes, the counters and the process keep their types.               *)
THEOREM TypeCorrect ==
    EdgeSpec => []EdgeTypeOK
<1>1. EdgeInv => EdgeTypeOK
    BY SameProperties DEF EdgeInv, EdgeTypeOK, SpentInv, LimiterInv
<1> QED
    BY <1>1, EdgeInvariance, PTL

(* A code whose acceptance has been answered is never stored again, with   *)
(* any number of requests under way, whichever are cut short               *)
(* (verifyOtp()).                                                          *)
THEOREM CodesAreSpent ==
    EdgeSpec => []SpentOnce
<1>1. EdgeInv => SpentOnce
    BY DEF EdgeInv, SpentInv
<1> QED
    BY <1>1, EdgeInvariance, PTL

(* Whatever maxAttempts is and however many requests race between GET and  *)
(* INCR, the guesses at one code exceed maxAttempts by at most the other   *)
(* requests and those cut short, unless the count was wiped                *)
(* (verifyOtp()).                                                          *)
THEOREM GuessesStayBounded ==
    EdgeSpec => []GuessesBounded
<1>1. EdgeInv => GuessesBounded
    BY DEF EdgeInv, GuessInv
<1> QED
    BY <1>1, EdgeInvariance, PTL

(* No window lets more through on its count than the limit of the policy,  *)
(* for any policies, routes and number of requests under way (check()).    *)
THEOREM WindowsStayBounded ==
    EdgeSpec => []WindowBounded
<1>1. EdgeInv => WindowBounded
  <2> SUFFICES ASSUME EdgeInv, NEW r \in Routes
               PROVE  passed[r] <= PolicyOf[r].limit
    BY DEF WindowBounded
  <2>1. Cardinality(Passing(r)) \in Nat
    <3>1. Passing(r) \subseteq Clients
      BY DEF Passing
    <3> QED
      BY <3>1, ClientCount
  <2>2. /\ passed[r] \in Nat
        /\ passed[r] + Cardinality(Passing(r)) <= PolicyOf[r].limit
    BY DEF EdgeInv, LimiterInv, TypeOK, PassInv
  <2> QED
    BY <2>1, <2>2, PolicyLimit
<1> QED
    BY <1>1, EdgeInvariance, PTL

(* Whichever parts fail to load, the modules mounted in the end are those  *)
(* that need none of them (loadOptionalModuleRoutes()).                    *)
THEOREM FailuresStayContained ==
    EdgeSpec => []FailureContained
<1>1. EdgeInv => FailureContained
    BY SameProperties DEF EdgeInv
<1> QED
    BY <1>1, EdgeInvariance, PTL

(* No store is closed under an open connection, and an exit with 0 leaves  *)
(* none open (setupGracefulShutdown()).                                    *)
THEOREM StoresCloseLast ==
    EdgeSpec => []DrainedFirst
<1>1. EdgeInv => DrainedFirst
    BY SameProperties DEF EdgeInv
<1> QED
    BY <1>1, EdgeInvariance, PTL

=============================================================================
