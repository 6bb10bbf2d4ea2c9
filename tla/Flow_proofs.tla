------------------------------ MODULE Flow_proofs ------------------------------
(***************************************************************************)
(* For every interval, key and order of timestamps, the throttle bounds    *)
(* the rate of what goes through and how far behind a key falls.  For      *)
(* every check interval, lateness, run time and cron expression, the       *)
(* schedulers emit once for what they are due, and miss nothing.           *)
(***************************************************************************)
EXTENDS MCFlow, FiniteSetTheorems, SequenceTheorems, TLAPS

-----------------------------------------------------------------------------
(* The throttle                                                            *)

(* An update of one key leaves the others as they were.                    *)
LEMMA OtherKeys ==
  ASSUME TypeOK, NEW k \in Key, NEW t \in Time, HandleUpdate(k, t), NEW j \in Key \ {k}
  PROVE  /\ last_seen'[j] = last_seen[j]
         /\ offered'[j] = offered[j]
         /\ accepted'[j] = accepted[j]
BY DEF TypeOK, HandleUpdate, FixedWindow

(* What becomes of the key itself, when the update is accepted and not.    *)
LEMMA OwnKey ==
  ASSUME TypeOK, NEW k \in Key, NEW t \in Time, HandleUpdate(k, t)
  PROVE  /\ offered'[k] = offered[k] \cup {t}
         /\ Allows(k, t) => last_seen'[k] = t /\ accepted'[k] = Append(accepted[k], t)
         /\ ~ Allows(k, t) => last_seen'[k] = last_seen[k] /\ accepted'[k] = accepted[k]
BY DEF TypeOK, HandleUpdate, FixedWindow

LEMMA HandleStep ==
  ASSUME IInv, NEW k \in Key, NEW t \in Time, HandleUpdate(k, t)
  PROVE  IInv'
<1>0. TypeOK /\ MinInterval \in Nat
  BY ConstantsAssumption DEF IInv
<1>1. TypeOK'
  <2>1. last_seen' \in [Key -> Time \cup {Unset}] /\ offered' \in [Key -> SUBSET Time]
    BY <1>0 DEF TypeOK, HandleUpdate, FixedWindow
  <2>2. Append(accepted[k], t) \in Seq(Time)
    BY <1>0 DEF TypeOK
  <2>3. accepted' \in [Key -> Seq(Time)]
    BY <1>0, <2>2 DEF TypeOK, HandleUpdate
  <2> QED
    BY <2>1, <2>3 DEF TypeOK
<1>2. /\ last_seen[k] \in Int /\ t \in Nat
      /\ accepted[k] \in Seq(Nat) /\ offered[k] \subseteq Int
  <2>1. Time \subseteq Nat
    BY ConstantsAssumption DEF Time
  <2>2. accepted[k] \in Seq(Time)
    BY <1>0 DEF TypeOK
  <2> QED
    BY <1>0, <2>1, <2>2, ConstantsAssumption DEF TypeOK, Time, Unset
<1>3. last_seen[k] = Unset => offered[k] = {} /\ accepted[k] = <<>>
  BY DEF IInv, LastSeenIsNewest
<1>4. \A i \in DOMAIN accepted[k] : accepted[k][i] =< last_seen[k]
  BY DEF IInv, LastSeenIsNewest
<1>11. ASSUME Allows(k, t)
       PROVE  /\ last_seen'[k] = t /\ t # Unset
              /\ DOMAIN accepted[k] = 1 .. Len(accepted[k]) /\ Len(accepted[k]) \in Nat
              /\ DOMAIN accepted'[k] = 1 .. Len(accepted[k]) + 1
              /\ \A i \in DOMAIN accepted[k] :
                   /\ accepted'[k][i] = accepted[k][i] /\ accepted[k][i] \in Nat
                   /\ t - accepted[k][i] >= MinInterval /\ accepted[k][i] =< t
              /\ accepted'[k][Len(accepted[k]) + 1] = t
  <2>1. last_seen'[k] = t /\ accepted'[k] = Append(accepted[k], t)
    BY <1>0, <1>11, OwnKey
  <2>2. \A i \in DOMAIN accepted[k] : accepted[k][i] \in Nat
    BY <1>2
  <2>3. ASSUME NEW i \in DOMAIN accepted[k]
        PROVE  t - accepted[k][i] >= MinInterval /\ accepted[k][i] =< t
    <3>1. last_seen[k] # Unset
      BY <1>3
    <3> QED
      BY <1>0, <1>2, <1>4, <1>11, <2>2, <3>1 DEF Allows
  <2> QED
    BY <1>2, <2>1, <2>2, <2>3 DEF Unset
<1>5. ASSUME NEW j \in Key
      PROVE  /\ last_seen'[j] = Unset => offered'[j] = {} /\ accepted'[j] = <<>>
             /\ \A i \in DOMAIN accepted'[j] : accepted'[j][i] =< last_seen'[j]
  <2>1. CASE j # k
    BY <1>0, <2>1, OtherKeys DEF IInv, LastSeenIsNewest
  <2>2. CASE j = k /\ Allows(k, t)
    <3>1. last_seen'[k] = t /\ t # Unset
      BY <1>11, <2>2
    <3>2. ASSUME NEW i \in DOMAIN accepted'[k]
          PROVE  accepted'[k][i] =< t
      <4>1. i \in DOMAIN accepted[k] \/ i = Len(accepted[k]) + 1
        BY <1>11, <2>2
      <4> QED
        BY <1>2, <1>11, <2>2, <4>1
    <3> QED
      BY <2>2, <3>1, <3>2
  <2>3. CASE j = k /\ ~ Allows(k, t)
    <3>1. last_seen'[k] = last_seen[k] /\ accepted'[k] = accepted[k]
            /\ offered'[k] = offered[k] \cup {t}
      BY <1>0, <2>3, OwnKey
    <3> QED
      BY <2>3, <3>1 DEF Allows, IInv, LastSeenIsNewest
  <2> QED
    BY <2>1, <2>2, <2>3
<1>6. ASSUME NEW j \in Key, NEW a \in DOMAIN accepted'[j], NEW b \in DOMAIN accepted'[j], a < b
      PROVE  accepted'[j][b] - accepted'[j][a] >= MinInterval
  <2>1. CASE j # k
    BY <1>0, <1>6, <2>1, OtherKeys DEF IInv, RateBound
  <2>2. CASE j = k /\ Allows(k, t)
    <3>1. a \in DOMAIN accepted[k] /\ (b \in DOMAIN accepted[k] \/ b = Len(accepted[k]) + 1)
      BY <1>6, <1>11, <2>2
    <3>2. CASE b \in DOMAIN accepted[k]
      BY <1>6, <1>11, <2>2, <3>1, <3>2 DEF IInv, RateBound
    <3>3. CASE b = Len(accepted[k]) + 1
      BY <1>11, <2>2, <3>1, <3>3
    <3> QED
      BY <3>1, <3>2, <3>3
  <2>3. CASE j = k /\ ~ Allows(k, t)
    BY <1>0, <1>6, <2>3, OwnKey DEF IInv, RateBound
  <2> QED
    BY <2>1, <2>2, <2>3
<1>7. ASSUME NEW j \in Key, NEW a \in offered'[j]
      PROVE  a =< last_seen'[j] \/ a - last_seen'[j] < MinInterval
  <2>0. \A c \in offered[k] : c =< last_seen[k] \/ c - last_seen[k] < MinInterval
    BY DEF IInv, WithinOneWindow
  <2>1. CASE j # k
    BY <1>0, <1>7, <2>1, OtherKeys DEF IInv, WithinOneWindow
  <2>2. CASE j = k /\ Allows(k, t)
    <3>1. last_seen'[k] = t /\ offered'[k] = offered[k] \cup {t}
      BY <1>0, <2>2, OwnKey
    <3> QED
      BY <1>0, <1>2, <1>3, <1>7, <2>0, <2>2, <3>1 DEF Allows
  <2>3. CASE j = k /\ ~ Allows(k, t)
    <3>1. last_seen'[k] = last_seen[k] /\ offered'[k] = offered[k] \cup {t}
      BY <1>0, <2>3, OwnKey
    <3> QED
      BY <1>0, <1>2, <1>7, <2>0, <2>3, <3>1 DEF Allows
  <2> QED
    BY <2>1, <2>2, <2>3
<1>8. LastSeenIsNewest'
  BY <1>5 DEF LastSeenIsNewest
<1>9. RateBound'
  BY <1>6 DEF RateBound
<1>10. WithinOneWindow'
  BY <1>7 DEF WithinOneWindow
<1> QED
  BY <1>1, <1>8, <1>9, <1>10 DEF IInv

(* A key that is reset starts over, the others stay.                       *)
LEMMA ResetStep ==
  ASSUME IInv, NEW keys \in SUBSET Key, Reset(keys)
  PROVE  IInv'
<1>1. TypeOK'
  BY DEF IInv, TypeOK, Reset
<1>2. \A j \in Key :
        \/ last_seen'[j] = Unset /\ offered'[j] = {} /\ accepted'[j] = <<>>
        \/ last_seen'[j] = last_seen[j] /\ offered'[j] = offered[j] /\ accepted'[j] = accepted[j]
  BY DEF Reset
<1>3. LastSeenIsNewest'
  BY <1>2 DEF IInv, LastSeenIsNewest
<1>4. RateBound'
  BY <1>2 DEF IInv, RateBound
<1>5. WithinOneWindow'
  BY <1>2 DEF IInv, WithinOneWindow
<1> QED
  BY <1>1, <1>3, <1>4, <1>5 DEF IInv

LEMMA NextStep == IInv /\ [Next]_vars => IInv'
<1> SUFFICES ASSUME IInv, [Next]_vars PROVE IInv'
  OBVIOUS
<1>1. CASE \E k \in Key, t \in Time : HandleUpdate(k, t)
  BY <1>1, HandleStep
<1>2. CASE Reset(Key) \/ \E k \in Key : Reset({k})
  BY <1>2, ResetStep
<1>3. CASE UNCHANGED vars
  BY <1>3 DEF IInv, TypeOK, LastSeenIsNewest, RateBound, WithinOneWindow, vars
<1> QED
  BY <1>1, <1>2, <1>3 DEF Next

(* Types, and what _last_seen means.                                       *)
THEOREM InvariantHolds == Spec => []IInv
<1>1. Init => IInv
  BY DEF Init, IInv, TypeOK, LastSeenIsNewest, RateBound, WithinOneWindow, Unset
<1> QED
  BY <1>1, NextStep, PTL DEF Spec

(* Accepted updates of a key are at least MinInterval apart, and two with  *)
(* one timestamp are never both accepted when MinInterval is positive.     *)
THEOREM RateBoundHolds == Spec => []RateBound
<1>1. IInv => RateBound
  BY DEF IInv
<1> QED
  BY <1>1, InvariantHolds, PTL

(* A dropped update is less than one window newer than the accepted one.   *)
THEOREM WithinOneWindowHolds == Spec => []WithinOneWindow
<1>1. IInv => WithinOneWindow
  BY DEF IInv
<1> QED
  BY <1>1, InvariantHolds, PTL

(* A key never goes back in time between resets.                           *)
THEOREM NeverBackHolds == Spec => NeverBack
<1> DEFINE Forward == \A k \in Key : accepted'[k] # <<>> => last_seen'[k] >= last_seen[k]
<1>1. ASSUME IInv, Next PROVE Forward
  <2> SUFFICES ASSUME NEW j \in Key, accepted'[j] # <<>> PROVE last_seen'[j] >= last_seen[j]
    OBVIOUS
  <2>0. TypeOK /\ MinInterval \in Nat /\ last_seen[j] \in Int
    BY <1>1, ConstantsAssumption DEF IInv, TypeOK, Time, Unset
  <2>1. ASSUME NEW k \in Key, NEW t \in Time, HandleUpdate(k, t)
        PROVE  last_seen'[j] >= last_seen[j]
    <3>1. CASE j # k
      BY <2>0, <2>1, <3>1, OtherKeys
    <3>2. CASE j = k /\ Allows(k, t)
      <4>1. last_seen'[k] = t /\ t \in Nat
        BY <2>0, <2>1, <3>2, OwnKey, ConstantsAssumption DEF Time
      <4> QED
        BY <2>0, <3>2, <4>1 DEF Allows, Unset
    <3>3. CASE j = k /\ ~ Allows(k, t)
      BY <2>0, <2>1, <3>3, OwnKey
    <3> QED
      BY <3>1, <3>2, <3>3
  <2>2. ASSUME NEW keys \in SUBSET Key, Reset(keys)
        PROVE  last_seen'[j] >= last_seen[j]
    BY <2>0, <2>2 DEF Reset
  <2> QED
    BY <1>1, <2>1, <2>2 DEF Next
<1>2. IInv /\ [Next]_vars => [Forward]_vars
  BY <1>1
<1> QED
  BY <1>2, InvariantHolds, PTL DEF Spec, NeverBack

-----------------------------------------------------------------------------
(* EodScheduler                                                            *)

(* Dates: an instant is its date and what is left of it.                   *)
LEMMA DateOfInstant ==
  ASSUME Eod!EodConstants, NEW t \in Nat
  PROVE  /\ Eod!DateOf(t) \in Nat
         /\ Eod!DateOf(t) * DayLength =< t
         /\ t < Eod!DateOf(t) * DayLength + DayLength
         /\ t % DayLength = t - Eod!DateOf(t) * DayLength
BY DEF Eod!EodConstants, Eod!DateOf

LEMMA DatesMonotone ==
  ASSUME Eod!EodConstants, NEW s \in Nat, NEW t \in Nat, s =< t
  PROVE  Eod!DateOf(s) =< Eod!DateOf(t)
BY DEF Eod!EodConstants, Eod!DateOf

(* A date that is over is a whole day behind.                              *)
LEMMA DateOver ==
  ASSUME Eod!EodConstants, NEW t \in Nat, NEW d \in Nat, d < Eod!DateOf(t)
  PROVE  d * DayLength + DayLength =< t
<1>1. DayLength \in Nat /\ Eod!DateOf(t) \in Nat /\ Eod!DateOf(t) * DayLength =< t
  BY DateOfInstant DEF Eod!EodConstants
<1>2. (d + 1) * DayLength =< Eod!DateOf(t) * DayLength
  BY <1>1
<1> QED
  BY <1>1, <1>2

(* Once a date's run time has come, and while the date lasts, it is the    *)
(* date of the instant.                                                    *)
LEMMA DateAfterRunTime ==
  ASSUME Eod!EodConstants, NEW t \in Nat, NEW d \in Nat,
         Eod!DueAt(d) =< t, t < d * DayLength + DayLength
  PROVE  Eod!DateOf(t) = d /\ t % DayLength >= RunTime
<1>1. DayLength \in Nat \ {0} /\ RunTime \in Nat
  BY DEF Eod!EodConstants
<1>2. d * DayLength =< t
  BY <1>1 DEF Eod!DueAt
<1>3. Eod!DateOf(t) = d
  BY <1>1, <1>2 DEF Eod!DateOf
<1> QED
  BY <1>1, <1>3, DateOfInstant DEF Eod!DueAt

LEMMA EodInit ==
  ASSUME Eod!EodConstants, Eod!Init
  PROVE  Eod!IInv
<1>1. Eod!TypeOK
  <2>1. clock = 0 /\ since = 0 /\ sleep = CheckInterval /\ running \in BOOLEAN
    BY DEF Eod!Init, Eod!LoopInit
  <2>3. Eod!LoopTypeOK
    BY <2>1 DEF Eod!LoopTypeOK, Eod!EodConstants, Eod!LoopConstants
  <2>2. emitted \in Seq(Eod!Emission)
    BY DEF Eod!Init
  <2> QED
    BY <2>2, <2>3 DEF Eod!Init, Eod!TypeOK
<1>2. Eod!DatesFollow
  BY DEF Eod!Init, Eod!DatesFollow
<1> QED
  BY <1>1, <1>2 DEF Eod!IInv, Eod!Init, Eod!LoopInit, Eod!ChecksEmit

(* The types of the loop, as integers.                                     *)
LEMMA EodTypes ==
  ASSUME Eod!EodConstants, Eod!TypeOK
  PROVE  /\ clock \in Nat /\ sleep \in Int /\ since \in Nat /\ Eod!LastCheck \in Int
         /\ 0 - MaxLate =< sleep /\ sleep =< CheckInterval
         /\ clock =< Eod!LastCheck + CheckInterval + MaxLate /\ Eod!LastCheck =< clock
         /\ CheckInterval \in Nat /\ MaxLate \in Nat /\ DayLength \in Nat /\ RunTime \in Nat
         /\ RunTime < DayLength
         /\ last_run_date \in Int /\ emitted \in Seq(Eod!Emission)
BY DEF Eod!EodConstants, Eod!LoopConstants, Eod!TypeOK, Eod!LoopTypeOK, Eod!LastCheck, Eod!NoDate

(* What a sequence is of.                                                  *)
LEMMA Elements ==
  ASSUME NEW S, NEW s \in Seq(S)
  PROVE  \A i \in DOMAIN s : s[i] \in S
  BY ElementOfSeq

LEMMA EodElements ==
  ASSUME emitted \in Seq(Eod!Emission)
  PROVE  \A i \in DOMAIN emitted : emitted[i].on \in Nat /\ emitted[i].date \in Nat
<1> SUFFICES ASSUME NEW i \in DOMAIN emitted
             PROVE  emitted[i].on \in Nat /\ emitted[i].date \in Nat
  OBVIOUS
<1>1. emitted[i] \in Eod!Emission
  BY Elements
<1> QED
  BY <1>1 DEF Eod!Emission

(* A tick adds at most one emission, behind all the others, and after it   *)
(* there is one for the tick's date if its run time has come.              *)
LEMMA EodTick ==
  ASSUME Eod!EodConstants, Eod!TypeOK, Eod!DatesFollow, NEW now \in Nat, Eod!Tick(now),
         clock' = clock
  PROVE  /\ last_run_date' \in Nat \cup {Eod!NoDate} /\ emitted' \in Seq(Eod!Emission)
         /\ Eod!DatesFollow'
         /\ \A i \in DOMAIN emitted : i \in DOMAIN emitted' /\ emitted'[i] = emitted[i]
         /\ now % DayLength >= RunTime =>
              \E i \in DOMAIN emitted' : emitted'[i].date = Eod!DateOf(now)
<1>1. /\ clock \in Nat /\ emitted \in Seq(Eod!Emission)
      /\ last_run_date \in Nat \cup {Eod!NoDate}
  BY EodTypes DEF Eod!TypeOK
<1>2. Eod!DateOf(clock) \in Nat /\ Eod!DateOf(now) \in Nat
  BY <1>1, DateOfInstant
<1>0. Eod!DateOf(clock)' = Eod!DateOf(clock)
  BY DEF Eod!DateOf
<1> DEFINE entry == [date |-> Eod!DateOf(now), on |-> Eod!DateOf(clock)]
<1>5. /\ entry \in Eod!Emission
      /\ entry.date = Eod!DateOf(now) /\ entry.on = Eod!DateOf(clock)
  BY <1>2 DEF Eod!Emission
<1>6. \A i \in DOMAIN emitted : emitted[i].on \in Nat /\ emitted[i].date \in Nat
  BY <1>1, EodElements
<1>3. CASE Eod!Due(now)
  <2>1. last_run_date' = Eod!DateOf(now) /\ emitted' = Append(emitted, entry)
    BY <1>3 DEF Eod!Tick
  <2>2. last_run_date # Eod!DateOf(now)
    BY <1>3 DEF Eod!Due, Eod!Done
  <2> HIDE DEF entry
  <2>5. /\ emitted' \in Seq(Eod!Emission) /\ Len(emitted') = Len(emitted) + 1
        /\ DOMAIN emitted' = 1 .. Len(emitted) + 1 /\ DOMAIN emitted = 1 .. Len(emitted)
        /\ \A i \in DOMAIN emitted : emitted'[i] = emitted[i]
        /\ emitted'[Len(emitted) + 1] = entry /\ Len(emitted) \in Nat
    BY <1>1, <1>5, <2>1
  <2>3. last_run_date' = emitted'[Len(emitted')].date /\ emitted' # <<>>
    BY <1>5, <2>1, <2>5
  <2>4. ASSUME NEW a \in DOMAIN emitted', NEW b \in DOMAIN emitted', a < b
        PROVE  /\ b = a + 1 => emitted'[a].date # emitted'[b].date
               /\ emitted'[a].on =< emitted'[b].on
    <3>1. a \in DOMAIN emitted /\ emitted'[a] = emitted[a]
      BY <2>4, <2>5
    <3>2. CASE b \in DOMAIN emitted
      BY <2>4, <2>5, <3>1, <3>2 DEF Eod!DatesFollow
    <3>3. CASE b = Len(emitted) + 1
      <4>1. b = a + 1 => emitted # <<>> /\ a = Len(emitted) /\ emitted[a].date = last_run_date
        BY <2>5, <3>1, <3>3 DEF Eod!DatesFollow
      <4>2. emitted[a].on =< entry.on
        BY <1>5, <3>1 DEF Eod!DatesFollow
      <4> QED
        BY <1>5, <2>2, <2>5, <3>1, <3>3, <4>1, <4>2
    <3> QED
      BY <2>5, <3>2, <3>3
  <2>6. ASSUME NEW a \in DOMAIN emitted'
        PROVE  emitted'[a].on =< Eod!DateOf(clock)
    <3>1. CASE a \in DOMAIN emitted
      BY <2>5, <3>1 DEF Eod!DatesFollow
    <3>2. CASE a = Len(emitted) + 1
      BY <1>2, <1>5, <2>5, <3>2
    <3> QED
      BY <2>5, <3>1, <3>2
  <2>7. \A a, b \in DOMAIN emitted' : b = a + 1 => a < b
    BY <2>5
  <2>8. Eod!DatesFollow'
    BY <1>0, <2>3, <2>4, <2>6, <2>7 DEF Eod!DatesFollow
  <2>9. Len(emitted) + 1 \in DOMAIN emitted'
        /\ emitted'[Len(emitted) + 1].date = Eod!DateOf(now)
    BY <1>5, <2>5
  <2>10. \A i \in DOMAIN emitted : i \in DOMAIN emitted'
    BY <2>5
  <2> QED
    BY <1>2, <2>1, <2>5, <2>8, <2>9, <2>10
<1>4. CASE ~ Eod!Due(now)
  <2>1. UNCHANGED <<last_run_date, emitted>>
    BY <1>4 DEF Eod!Tick
  <2>2. ASSUME now % DayLength >= RunTime
        PROVE  \E i \in DOMAIN emitted : emitted[i].date = Eod!DateOf(now)
    <3>1. last_run_date = Eod!DateOf(now)
      BY <1>4, <2>2 DEF Eod!Due, Eod!Done
    <3>2. emitted # <<>> /\ emitted[Len(emitted)].date = Eod!DateOf(now)
      BY <1>2, <3>1 DEF Eod!DatesFollow, Eod!NoDate
    <3> QED
      BY <1>1, <3>2
  <2>3. Eod!DatesFollow'
    BY <1>0, <2>1 DEF Eod!DatesFollow
  <2> QED
    BY <1>1, <2>1, <2>2, <2>3
<1> QED
  BY <1>3, <1>4

(* The emission for a date stays.                                          *)
LEMMA EodKept ==
  ASSUME \A i \in DOMAIN emitted : i \in DOMAIN emitted' /\ emitted'[i] = emitted[i],
         NEW d, Eod!EmittedFor(d)
  PROVE  \E i \in DOMAIN emitted' : emitted'[i].date = d
BY DEF Eod!EmittedFor

(* What a check of the loop, now, adds to what earlier checks emitted.     *)
LEMMA EodCheck ==
  ASSUME Eod!EodConstants, Eod!IInv, Eod!Tick(clock), Eod!LoopWakes
  PROVE  Eod!ChecksEmit'
<1> SUFFICES ASSUME CheckInterval + MaxLate =< DayLength - RunTime, NEW d \in Nat,
                    since' < Eod!DueAt(d), Eod!DueAt(d) =< Eod!LastCheck'
             PROVE  \E i \in DOMAIN emitted' : emitted'[i].date = d
  BY DEF Eod!ChecksEmit, Eod!DueAt, Eod!EmittedFor
<1>0. Eod!TypeOK /\ Eod!DatesFollow /\ clock \in Nat
  BY EodTypes DEF Eod!IInv
<1>1. /\ running /\ since' = since /\ clock' = clock /\ sleep' = CheckInterval
      /\ Eod!LastCheck' = clock
  BY <1>0, EodTypes DEF Eod!LoopWakes, Eod!SleepAgain, Eod!LastCheck
<1>4. /\ \A i \in DOMAIN emitted : i \in DOMAIN emitted' /\ emitted'[i] = emitted[i]
      /\ clock % DayLength >= RunTime =>
           \E i \in DOMAIN emitted' : emitted'[i].date = Eod!DateOf(clock)
  BY <1>0, <1>1, EodTick
<1>2. CASE Eod!DueAt(d) =< Eod!LastCheck
  <2>1. Eod!EmittedFor(d)
    BY <1>1, <1>2 DEF Eod!IInv, Eod!ChecksEmit
  <2> QED
    BY <1>4, <2>1, EodKept
<1>3. CASE ~ (Eod!DueAt(d) =< Eod!LastCheck)
  <2>0. /\ clock \in Nat /\ Eod!LastCheck \in Int
        /\ clock =< Eod!LastCheck + CheckInterval + MaxLate
        /\ CheckInterval \in Nat /\ MaxLate \in Nat /\ DayLength \in Nat /\ RunTime \in Nat
    BY <1>0, EodTypes
  <2>1. Eod!DueAt(d) \in Nat /\ Eod!DueAt(d) = d * DayLength + RunTime
    <3>1. d * DayLength \in Nat
      BY <2>0
    <3> QED
      BY <2>0, <3>1 DEF Eod!DueAt
  <2>2. d * DayLength \in Nat
    BY <2>0
  <2>3. clock < d * DayLength + DayLength
    BY <1>3, <2>0, <2>1, <2>2
  <2>4. Eod!DateOf(clock) = d /\ clock % DayLength >= RunTime
    BY <1>1, <2>0, <2>3, DateAfterRunTime
  <2> QED
    BY <1>4, <2>4
<1> QED
  BY <1>2, <1>3

LEMMA EodStep ==
  ASSUME Eod!EodConstants, Eod!IInv, [Eod!Next]_(Eod!vars)
  PROVE  Eod!IInv'
<1> USE DEF Eod!IInv
<1>1. CASE Eod!CallerTicks
  <2>1. UNCHANGED <<clock, sleep, running, since>>
    BY <1>1 DEF Eod!CallerTicks, Eod!loop
  <2>2. PICK now \in Eod!Nows : Eod!Tick(now)
    BY <1>1 DEF Eod!CallerTicks
  <2>3. now \in Nat
    BY EodTypes DEF Eod!Nows, Eod!EodConstants, Eod!LoopConstants
  <2>4. /\ last_run_date' \in Nat \cup {Eod!NoDate} /\ emitted' \in Seq(Eod!Emission)
        /\ Eod!DatesFollow'
        /\ \A i \in DOMAIN emitted : i \in DOMAIN emitted' /\ emitted'[i] = emitted[i]
    BY <2>1, <2>2, <2>3, EodTick
  <2>5. Eod!TypeOK'
    BY <2>1, <2>4 DEF Eod!TypeOK, Eod!LoopTypeOK
  <2>6. Eod!LastCheck' = Eod!LastCheck
    BY <2>1 DEF Eod!LastCheck
  <2>7. Eod!ChecksEmit'
    BY <2>1, <2>4, <2>6, EodKept DEF Eod!ChecksEmit, Eod!DueAt, Eod!EmittedFor
  <2> QED
    BY <2>1, <2>4, <2>5, <2>6, <2>7
<1>2. CASE Eod!Tick(clock) /\ Eod!LoopWakes
  <2>1. UNCHANGED <<clock, running, since>> /\ sleep' = CheckInterval /\ clock \in Nat
    BY <1>2, EodTypes DEF Eod!LoopWakes, Eod!SleepAgain
  <2>2. Eod!LoopTypeOK'
    BY <2>1, EodTypes DEF Eod!TypeOK, Eod!LoopTypeOK
  <2>3. Eod!TypeOK'
    BY <1>2, <2>1, <2>2, EodTick DEF Eod!TypeOK
  <2>4. Eod!DatesFollow'
    BY <1>2, <2>1, EodTick
  <2>5. since' =< Eod!LastCheck'
    BY <2>1, EodTypes DEF Eod!LastCheck, Eod!TypeOK, Eod!LoopTypeOK
  <2> QED
    BY <1>2, <2>3, <2>4, <2>5, EodCheck
<1>3. CASE Eod!StartLoop /\ UNCHANGED <<last_run_date, emitted>>
  <2>1. /\ clock' = clock /\ since' = clock /\ sleep' = CheckInterval /\ running'
        /\ UNCHANGED <<last_run_date, emitted>>
    BY <1>3 DEF Eod!StartLoop
  <2>2. Eod!LastCheck' = clock
    BY <2>1, EodTypes DEF Eod!LastCheck
  <2>3. Eod!LoopTypeOK'
    BY <1>3, <2>1, EodTypes DEF Eod!TypeOK, Eod!LoopTypeOK
  <2>4. Eod!ChecksEmit'
    BY <2>1, <2>2, EodTypes DEF Eod!ChecksEmit, Eod!DueAt
  <2>5. Eod!DatesFollow'
    BY <2>1 DEF Eod!DatesFollow, Eod!DateOf
  <2> QED
    BY <2>1, <2>2, <2>3, <2>4, <2>5, EodTypes DEF Eod!TypeOK
<1>4. CASE Eod!StopLoop /\ UNCHANGED <<last_run_date, emitted>>
  BY <1>4 DEF Eod!StopLoop, Eod!TypeOK, Eod!LoopTypeOK, Eod!DatesFollow, Eod!ChecksEmit,
              Eod!DateOf
<1>5. CASE Eod!Elapse /\ UNCHANGED <<last_run_date, emitted>>
  <2>1. /\ clock' = clock + 1 /\ clock < MaxClock /\ (running => sleep > 0 - MaxLate)
        /\ sleep' = IF running THEN sleep - 1 ELSE sleep
        /\ UNCHANGED <<running, since, last_run_date, emitted>>
    BY <1>5, EodTypes DEF Eod!Elapse
  <2>2. Eod!LoopTypeOK'
    BY <2>1, EodTypes DEF Eod!TypeOK, Eod!LoopTypeOK, Eod!EodConstants, Eod!LoopConstants
  <2>3. running => Eod!LastCheck' = Eod!LastCheck
    <3>1. clock \in Int /\ sleep \in Int /\ CheckInterval \in Int
      BY EodTypes
    <3> QED
      BY <2>1, <3>1 DEF Eod!LastCheck
  <2>4. Eod!DateOf(clock) =< Eod!DateOf(clock')
    BY <2>1, EodTypes, DatesMonotone
  <2>5. Eod!DateOf(clock) \in Nat /\ Eod!DateOf(clock') \in Nat
    BY <2>1, EodTypes, DateOfInstant
  <2>6. Eod!DatesFollow'
    <3>1. \A i \in DOMAIN emitted : emitted[i].on \in Nat
      BY EodTypes, EodElements
    <3>2. Eod!DateOf(clock)' = Eod!DateOf(clock')
      BY DEF Eod!DateOf
    <3>3. \A i \in DOMAIN emitted : emitted[i].on =< Eod!DateOf(clock')
      BY <2>4, <2>5, <3>1 DEF Eod!DatesFollow
    <3> QED
      BY <2>1, <3>2, <3>3 DEF Eod!DatesFollow
  <2>7. Eod!ChecksEmit'
    BY <2>1, <2>3 DEF Eod!ChecksEmit, Eod!DueAt, Eod!EmittedFor
  <2> QED
    BY <2>1, <2>2, <2>3, <2>6, <2>7 DEF Eod!TypeOK
<1>6. CASE UNCHANGED Eod!vars
  <2>1. UNCHANGED <<clock, sleep, running, since, last_run_date, emitted>>
    BY <1>6 DEF Eod!vars, Eod!loop
  <2>2. Eod!DatesFollow' /\ Eod!ChecksEmit'
    BY <2>1 DEF Eod!DatesFollow, Eod!DateOf, Eod!ChecksEmit, Eod!EmittedFor, Eod!LastCheck,
                Eod!DueAt
  <2> QED
    BY <2>1, <2>2 DEF Eod!TypeOK, Eod!LoopTypeOK, Eod!LastCheck
<1> QED
  BY <1>1, <1>2, <1>3, <1>4, <1>5, <1>6 DEF Eod!Next

(* In such a state a date was emitted for twice only across a foreign      *)
(* emission, and none is missed.                                           *)
LEMMA EodPromises ==
  ASSUME Eod!EodConstants, Eod!IInv
  PROVE  Eod!TypeOK /\ Eod!TwiceOnlyAcross /\ Eod!Covered
<1>1. Eod!TwiceOnlyAcross
  <2> SUFFICES ASSUME NEW a \in DOMAIN emitted, NEW b \in DOMAIN emitted, a < b,
                      emitted[a].date = emitted[b].date,
                      \A k \in a .. b : ~ Eod!Foreign(emitted[k])
               PROVE  FALSE
    BY DEF Eod!TwiceOnlyAcross
  <2>1. emitted \in Seq(Eod!Emission)
    BY EodTypes DEF Eod!IInv
  <2>2. DOMAIN emitted = 1 .. Len(emitted) /\ Len(emitted) \in Nat
    BY <2>1
  <2>3. a + 1 \in DOMAIN emitted /\ a \in a .. b /\ a + 1 \in a .. b /\ b \in a .. b
    BY <2>2
  <2>4. /\ emitted[a].date = emitted[a].on /\ emitted[a + 1].date = emitted[a + 1].on
        /\ emitted[b].date = emitted[b].on
    BY <2>3 DEF Eod!Foreign
  <2>5. emitted[a].date # emitted[a + 1].date /\ emitted[a].on =< emitted[a + 1].on
    BY <2>2, <2>3 DEF Eod!IInv, Eod!DatesFollow
  <2>6. a + 1 = b \/ emitted[a + 1].on =< emitted[b].on
    BY <2>2, <2>3 DEF Eod!IInv, Eod!DatesFollow
  <2>7. emitted[a].on \in Nat /\ emitted[a + 1].on \in Nat /\ emitted[b].on \in Nat
    BY <2>1, <2>3, EodElements
  <2>8. CASE a + 1 = b
    BY <2>5, <2>8
  <2>9. CASE emitted[a + 1].on =< emitted[b].on
    <3>1. emitted[a].on = emitted[b].on /\ emitted[a].on # emitted[a + 1].on
      BY <2>4, <2>5
    <3> QED
      BY <2>5, <2>7, <2>9, <3>1
  <2> QED
    BY <2>6, <2>8, <2>9
<1>2. Eod!Covered
  <2> SUFFICES ASSUME CheckInterval + MaxLate =< DayLength - RunTime,
                      NEW d \in 0 .. Eod!DateOf(clock) - 1, running, since < Eod!DueAt(d)
               PROVE  Eod!EmittedFor(d)
    BY DEF Eod!Covered, Eod!NoDateMissed, Eod!DueAt
  <2>1. clock \in Nat /\ Eod!DateOf(clock) \in Nat
    BY EodTypes, DateOfInstant DEF Eod!IInv
  <2>2. d \in Nat /\ d * DayLength + DayLength =< clock
    BY <2>1, DateOver
  <2>3. Eod!DueAt(d) =< Eod!LastCheck
    <3>1. /\ Eod!LastCheck \in Int /\ clock =< Eod!LastCheck + CheckInterval + MaxLate
          /\ CheckInterval \in Nat /\ MaxLate \in Nat /\ DayLength \in Nat /\ RunTime \in Nat
      BY EodTypes DEF Eod!IInv
    <3>2. d * DayLength \in Nat
      BY <2>2, <3>1
    <3> QED
      BY <2>1, <2>2, <3>1, <3>2 DEF Eod!DueAt
  <2> QED
    BY <2>2, <2>3 DEF Eod!IInv, Eod!ChecksEmit
<1> QED
  BY <1>1, <1>2 DEF Eod!IInv

-----------------------------------------------------------------------------
(* CronScheduler                                                           *)

(* A set of numbers has a least one.                                       *)
LEMMA LeastNat ==
  ASSUME NEW S \in SUBSET Nat, S # {}
  PROVE  Cron!Min(S) \in S /\ \A y \in S : Cron!Min(S) =< y
<1>1. PICK x \in S : \A y \in S : ~ (<<y, x>> \in OpToRel(<, Nat))
  BY NatLessThanWellFounded, WFMin
<1>2. \A y \in S : ~ (y < x)
  BY <1>1 DEF OpToRel
<1>3. \A y \in S : x =< y
  BY <1>2
<1> QED
  BY <1>3 DEF Cron!Min

(* The next run is the first instant after the given time.                 *)
LEMMA NextRun ==
  ASSUME Cron!CronConstants, NEW t \in Cron!Time
  PROVE  /\ Cron!NextAfter(t) \in Instant /\ Cron!NextAfter(t) \in Nat /\ t < Cron!NextAfter(t)
         /\ \A d \in Instant : t < d => Cron!NextAfter(t) =< d
<1> DEFINE S == {d \in Instant : d > t}
<1>0. Instant \subseteq Nat /\ \E d \in Instant : d > t
  BY DEF Cron!CronConstants
<1>1. S \in SUBSET Nat /\ S # {}
  BY <1>0
<1>3. t \in Nat
  BY DEF Cron!CronConstants, Cron!LoopConstants, Cron!Time
<1>2. Cron!NextAfter(t) \in S /\ \A y \in S : Cron!NextAfter(t) =< y
  BY <1>1, LeastNat DEF Cron!NextAfter
<1> QED
  BY <1>1, <1>2

(* The types of the loop, as integers.                                     *)
LEMMA CronTypes ==
  ASSUME Cron!CronConstants, Cron!TypeOK
  PROVE  /\ clock \in Nat /\ sleep \in Int /\ since \in Nat /\ Cron!LastCheck \in Int
         /\ clock \in 0 .. MaxClock /\ clock \in Cron!Time /\ Cron!Time \subseteq Nat
         /\ 0 - MaxLate =< sleep /\ sleep =< CheckInterval
         /\ clock =< Cron!LastCheck + CheckInterval + MaxLate /\ Cron!LastCheck =< clock
         /\ CheckInterval \in Nat /\ MaxLate \in Nat /\ MaxClock \in Nat
         /\ Instant \subseteq Nat
         /\ next_run \in Int /\ armed \in Int /\ emitted \in Seq(Cron!Emission)
         /\ armed # Cron!Unset => armed \in Cron!Time
         /\ \A i \in DOMAIN emitted :
              emitted[i].now \in Cron!Time /\ emitted[i].now \in Nat /\ emitted[i].at \in Nat
<1>0. Cron!Time \subseteq Nat
  BY DEF Cron!CronConstants, Cron!LoopConstants, Cron!Time
<1>1. emitted \in Seq(Cron!Emission)
  BY DEF Cron!TypeOK
<1>2. \A i \in DOMAIN emitted :
        emitted[i].now \in Cron!Time /\ emitted[i].now \in Nat /\ emitted[i].at \in Nat
  <2> SUFFICES ASSUME NEW i \in DOMAIN emitted
               PROVE  emitted[i].now \in Cron!Time /\ emitted[i].at \in 0 .. MaxClock
    <3>1. \A n \in 0 .. MaxClock : n \in Nat
      BY DEF Cron!CronConstants, Cron!LoopConstants
    <3> QED
      BY <1>0, <3>1
  <2>1. emitted[i] \in Cron!Emission
    BY <1>1, Elements
  <2> QED
    BY <2>1 DEF Cron!Emission
<1>3. clock \in 0 .. MaxClock /\ clock \in Cron!Time
  BY DEF Cron!TypeOK, Cron!LoopTypeOK, Cron!Time
<1>4. armed \in Int /\ next_run \in Int /\ (armed # Cron!Unset => armed \in Cron!Time)
  BY <1>0 DEF Cron!TypeOK, Cron!CronConstants, Cron!Unset
<1> QED
  BY <1>0, <1>1, <1>2, <1>3, <1>4
     DEF Cron!CronConstants, Cron!LoopConstants, Cron!TypeOK, Cron!LoopTypeOK, Cron!LastCheck

LEMMA CronInit ==
  ASSUME Cron!CronConstants, Cron!Init
  PROVE  Cron!IInv
<1>1. clock = 0 /\ since = 0 /\ sleep = CheckInterval /\ running = FALSE
  BY DEF Cron!Init, Cron!LoopInit
<1>2. next_run = Cron!Unset /\ armed = Cron!Unset /\ emitted = <<>>
  BY DEF Cron!Init
<1>6. running \in BOOLEAN
  BY <1>1
<1>3. Cron!LoopTypeOK
  BY <1>1, <1>6 DEF Cron!LoopTypeOK, Cron!CronConstants, Cron!LoopConstants
<1>4. Cron!TypeOK
  BY <1>2, <1>3 DEF Cron!TypeOK
<1>5. Cron!NextRunFollows /\ Cron!EmissionsWait /\ Cron!ChecksAnswer
  BY <1>2 DEF Cron!NextRunFollows, Cron!EmissionsWait, Cron!ChecksAnswer
<1> QED
  BY <1>1, <1>4, <1>5 DEF Cron!IInv

(* What is known of the last emission, or of the arming before the first.  *)
LEMMA LastEmission ==
  ASSUME Cron!CronConstants, Cron!IInv, armed # Cron!Unset
  PROVE  /\ Cron!Before(Len(emitted) + 1) \in Cron!Time
         /\ Cron!Before(Len(emitted) + 1) \in Nat
         /\ next_run = Cron!NextAfter(Cron!Before(Len(emitted) + 1))
         /\ next_run \in Instant /\ Cron!Before(Len(emitted) + 1) < next_run
         /\ \A d \in Instant : Cron!Before(Len(emitted) + 1) < d => next_run =< d
         /\ armed \in Nat /\ armed =< Cron!Before(Len(emitted) + 1)
         /\ \A j \in DOMAIN emitted : emitted[j].now =< Cron!Before(Len(emitted) + 1)
<1>0. /\ emitted \in Seq(Cron!Emission) /\ Cron!Time \subseteq Nat
      /\ armed \in Cron!Time /\ armed \in Nat
      /\ \A j \in DOMAIN emitted : emitted[j].now \in Cron!Time /\ emitted[j].now \in Nat
  BY CronTypes DEF Cron!IInv
<1>1. CASE emitted = <<>>
  <2>1. Cron!Before(Len(emitted) + 1) = armed
    BY <1>1 DEF Cron!Before
  <2> QED
    BY <1>0, <1>1, <2>1, NextRun DEF Cron!IInv, Cron!NextRunFollows
<1>2. CASE emitted # <<>>
  <2>1. Len(emitted) \in DOMAIN emitted /\ Len(emitted) + 1 # 1
    BY <1>0, <1>2
  <2>2. Cron!Before(Len(emitted) + 1) = emitted[Len(emitted)].now
    BY <1>0, <2>1 DEF Cron!Before
  <2>3. armed < emitted[Len(emitted)].now
    BY <2>1 DEF Cron!IInv, Cron!EmissionsWait
  <2>4. \A j \in DOMAIN emitted : emitted[j].now =< emitted[Len(emitted)].now
    <3> SUFFICES ASSUME NEW j \in DOMAIN emitted
                 PROVE  emitted[j].now =< emitted[Len(emitted)].now
      OBVIOUS
    <3>1. j = Len(emitted) \/ j < Len(emitted)
      BY <1>0, <2>1
    <3>2. emitted[j].now < emitted[Len(emitted)].now \/ emitted[j] = emitted[Len(emitted)]
      BY <2>1, <3>1 DEF Cron!IInv, Cron!EmissionsWait
    <3> QED
      BY <1>0, <2>1, <3>2
  <2> QED
    BY <1>0, <2>1, <2>2, <2>3, <2>4, NextRun DEF Cron!IInv, Cron!NextRunFollows
<1> QED
  BY <1>1, <1>2

(* A tick arms the scheduler, waits or emits.                              *)
LEMMA CronTick ==
  ASSUME Cron!CronConstants, Cron!IInv, NEW now \in Cron!Time, Cron!Tick(now), clock' = clock
  PROVE  /\ next_run' \in Instant
         /\ armed' \in Cron!Time
         /\ emitted' \in Seq(Cron!Emission)
         /\ Cron!NextRunFollows' /\ Cron!EmissionsWait'
         /\ \A i \in DOMAIN emitted : i \in DOMAIN emitted' /\ emitted'[i] = emitted[i]
         /\ armed # Cron!Unset => armed' = armed
         /\ armed = Cron!Unset => armed' = now
         /\ \A d \in Instant : armed' < d /\ d =< now =>
              \E i \in DOMAIN emitted' : d =< emitted'[i].now /\ emitted'[i].at =< clock
<1>0. /\ clock \in Nat /\ clock \in 0 .. MaxClock /\ emitted \in Seq(Cron!Emission)
      /\ armed \in Int /\ (armed # Cron!Unset => armed \in Nat) /\ Instant \subseteq Nat
      /\ (armed # Cron!Unset => armed \in Cron!Time)
      /\ next_run \in Instant \cup {Cron!Unset} /\ Cron!Time \subseteq Nat /\ now \in Nat
      /\ \A j \in DOMAIN emitted :
           emitted[j].now \in Cron!Time /\ emitted[j].now \in Nat /\ emitted[j].at \in Nat
  BY CronTypes DEF Cron!IInv, Cron!TypeOK
<1>4. now # Cron!Unset
  BY <1>0 DEF Cron!Unset
<1>1. CASE next_run = Cron!Unset
  <2>1. next_run' = Cron!NextAfter(now) /\ armed' = now /\ emitted' = emitted
    BY <1>1 DEF Cron!Tick
  <2>2. armed = Cron!Unset /\ emitted = <<>>
    <3>1. armed # Cron!Unset => next_run \in Nat
      BY <1>0, LastEmission
    <3> QED
      BY <1>1, <3>1 DEF Cron!Unset, Cron!IInv, Cron!NextRunFollows
  <2>3. Cron!NextRunFollows'
    <3>1. Cron!Before(Len(emitted) + 1)' = now
      BY <2>1, <2>2 DEF Cron!Before
    <3>2. Cron!NextAfter(now)' = Cron!NextAfter(now)
      BY DEF Cron!NextAfter
    <3>3. Len(emitted') + 1 = 1 /\ Len(emitted) + 1 = 1
      BY <2>1, <2>2
    <3> QED
      BY <1>4, <2>1, <2>2, <3>3 DEF Cron!NextRunFollows, Cron!Before, Cron!NextAfter
  <2>4. Cron!EmissionsWait'
    BY <2>1, <2>2 DEF Cron!EmissionsWait
  <2> QED
    BY <1>0, <2>1, <2>2, <2>3, <2>4, NextRun
<1>2. CASE next_run # Cron!Unset /\ now < next_run
  <2>0. armed # Cron!Unset
    BY <1>2 DEF Cron!IInv, Cron!NextRunFollows
  <2>1. UNCHANGED <<next_run, armed, emitted>> /\ armed # Cron!Unset
    <3>1. ~ (now >= next_run)
      <4>1. next_run \in Nat
        BY <1>0, <2>0, LastEmission
      <4> QED
        BY <1>0, <1>2, <4>1
    <3> QED
      BY <1>2, <2>0, <3>1 DEF Cron!Tick
  <2>2. ASSUME NEW d \in Instant, armed < d, d =< now
        PROVE  \E i \in DOMAIN emitted : d =< emitted[i].now /\ emitted[i].at =< clock
    <3>1. d =< Cron!Before(Len(emitted) + 1)
      BY <1>0, <1>2, <2>1, <2>2, LastEmission
    <3>2. emitted # <<>>
      BY <1>0, <2>2, <3>1 DEF Cron!Before
    <3>3. Len(emitted) \in DOMAIN emitted /\ Len(emitted) + 1 # 1
      BY <1>0, <3>2
    <3>4. Cron!Before(Len(emitted) + 1) = emitted[Len(emitted)].now
      BY <1>0, <3>3 DEF Cron!Before
    <3> QED
      BY <1>0, <3>1, <3>3, <3>4 DEF Cron!IInv, Cron!EmissionsWait
  <2>3. Cron!NextRunFollows' /\ Cron!EmissionsWait'
    BY <2>1 DEF Cron!IInv, Cron!NextRunFollows, Cron!EmissionsWait, Cron!Before
  <2>4. next_run \in Instant /\ armed \in Cron!Time
    BY <1>0, <1>2, <2>0
  <2> QED
    BY <1>0, <2>1, <2>2, <2>3, <2>4
<1>3. CASE next_run # Cron!Unset /\ now >= next_run
  <2> DEFINE entry == [now |-> now, at |-> clock]
  <2>8. entry \in Cron!Emission /\ entry.now = now /\ entry.at = clock
    BY <1>0 DEF Cron!Emission
  <2>1. /\ emitted' = Append(emitted, entry) /\ next_run' = Cron!NextAfter(now)
        /\ armed' = armed /\ armed # Cron!Unset
    <3>0. armed # Cron!Unset
      BY <1>3 DEF Cron!IInv, Cron!NextRunFollows
    <3>1. ~ (now < next_run)
      BY <1>0, <1>3, <3>0, LastEmission
    <3> QED
      BY <1>3, <3>0, <3>1 DEF Cron!Tick
  <2> HIDE DEF entry
  <2>2. /\ emitted' \in Seq(Cron!Emission) /\ Len(emitted') = Len(emitted) + 1
        /\ DOMAIN emitted' = 1 .. Len(emitted) + 1 /\ DOMAIN emitted = 1 .. Len(emitted)
        /\ \A i \in DOMAIN emitted : emitted'[i] = emitted[i]
        /\ emitted'[Len(emitted) + 1] = entry /\ Len(emitted) \in Nat
    BY <1>0, <2>1, <2>8
  <2>3. \A j \in 1 .. Len(emitted) + 1 : Cron!Before(j)' = Cron!Before(j)
    BY <2>1, <2>2 DEF Cron!Before
  <2>4. /\ Cron!Before(Len(emitted) + 1) \in Nat /\ Cron!Before(Len(emitted) + 1) < next_run
        /\ next_run = Cron!NextAfter(Cron!Before(Len(emitted) + 1)) /\ next_run \in Nat
        /\ armed =< Cron!Before(Len(emitted) + 1) /\ armed \in Nat
        /\ \A j \in DOMAIN emitted : emitted[j].now =< Cron!Before(Len(emitted) + 1)
    BY <1>0, <2>1, LastEmission
  <2>5. armed < now /\ \A j \in DOMAIN emitted : emitted[j].now < now
    BY <1>0, <1>3, <2>4
  <2>6. Cron!EmissionsWait'
    <3>1. \A i, j \in DOMAIN emitted' : i < j => emitted'[i].now < emitted'[j].now
      BY <2>2, <2>5, <2>8 DEF Cron!IInv, Cron!EmissionsWait
    <3>2. ASSUME NEW j \in DOMAIN emitted'
          PROVE  /\ armed' < emitted'[j].now /\ emitted'[j].at =< clock'
                 /\ Cron!NextAfter(Cron!Before(j)') =< emitted'[j].now
      <4>1. CASE j = Len(emitted) + 1
        BY <1>0, <1>3, <2>1, <2>2, <2>3, <2>4, <2>5, <2>8, <4>1
      <4>2. CASE j \in DOMAIN emitted
        <5>1. Cron!Before(j)' = Cron!Before(j)
          BY <2>2, <2>3, <4>2
        <5> QED
          BY <2>1, <2>2, <4>2, <5>1 DEF Cron!IInv, Cron!EmissionsWait
      <4> QED
        BY <2>2, <4>1, <4>2
    <3> QED
      BY <3>1, <3>2 DEF Cron!EmissionsWait, Cron!NextAfter
  <2>7. Cron!NextRunFollows'
    <3>1. Len(emitted') + 1 # 1 /\ Len(emitted') + 1 - 1 = Len(emitted) + 1
      BY <2>2
    <3>2. (Cron!Before(Len(emitted) + 1))' = now
      BY <2>2, <2>8, <3>1 DEF Cron!Before
    <3> QED
      BY <1>0, <2>1, <2>4, <2>5, <3>2 DEF Cron!NextRunFollows, Cron!NextAfter, Cron!Min
  <2>9. \A d \in Instant : d =< now =>
          \E i \in DOMAIN emitted' : d =< emitted'[i].now /\ emitted'[i].at =< clock
    BY <1>0, <2>2, <2>8
  <2>10. next_run' \in Instant
    BY <2>1, NextRun
  <2> QED
    BY <1>0, <2>1, <2>2, <2>6, <2>7, <2>9, <2>10
<1> QED
  BY <1>1, <1>2, <1>3 DEF Cron!Tick

(* The answer to an instant stays.                                         *)
LEMMA CronKept ==
  ASSUME \A i \in DOMAIN emitted : i \in DOMAIN emitted' /\ emitted'[i] = emitted[i],
         NEW d, Cron!Answered(d)
  PROVE  Cron!Answered(d)'
BY DEF Cron!Answered

(* What a check of the loop, now, answers.                                 *)
LEMMA CronCheck ==
  ASSUME Cron!CronConstants, Cron!IInv, Cron!Tick(clock), Cron!LoopWakes
  PROVE  Cron!ChecksAnswer'
<1> SUFFICES ASSUME NEW d \in Instant, since' < d, armed' # Cron!Unset, armed' < d,
                    d =< Cron!LastCheck'
             PROVE  Cron!Answered(d)'
  BY DEF Cron!ChecksAnswer, Cron!RunningBefore, Cron!Answered
<1>0. /\ clock \in Nat /\ Cron!LastCheck \in Int /\ Cron!LastCheck =< clock
      /\ clock =< Cron!LastCheck + CheckInterval + MaxLate /\ clock \in Cron!Time
      /\ CheckInterval \in Nat /\ MaxLate \in Nat /\ since \in Nat
      /\ d \in Nat /\ Cron!Time \subseteq Nat
  BY CronTypes DEF Cron!IInv
<1>1. /\ running /\ since' = since /\ clock' = clock /\ sleep' = CheckInterval
      /\ Cron!LastCheck' = clock
  BY <1>0 DEF Cron!LoopWakes, Cron!SleepAgain, Cron!LastCheck
<1>2. /\ \A i \in DOMAIN emitted : i \in DOMAIN emitted' /\ emitted'[i] = emitted[i]
      /\ armed # Cron!Unset => armed' = armed
      /\ armed = Cron!Unset => armed' = clock
      /\ emitted' \in Seq(Cron!Emission)
      /\ \A e \in Instant : armed' < e /\ e =< clock =>
           \E i \in DOMAIN emitted' : e =< emitted'[i].now /\ emitted'[i].at =< clock
  BY <1>0, <1>1, CronTick
<1>5. armed # Cron!Unset /\ armed' = armed
  BY <1>0, <1>1, <1>2
<1>3. CASE d =< Cron!LastCheck
  <2>1. Cron!Answered(d)
    BY <1>1, <1>3, <1>5 DEF Cron!IInv, Cron!ChecksAnswer, Cron!RunningBefore
  <2> QED
    BY <1>2, <2>1, CronKept
<1>4. CASE ~ (d =< Cron!LastCheck)
  <2>1. PICK i \in DOMAIN emitted' : d =< emitted'[i].now /\ emitted'[i].at =< clock
    BY <1>1, <1>2
  <2>2. emitted'[i] \in Cron!Emission
    BY <1>2, <2>1, Elements
  <2>3. emitted'[i].at \in Nat /\ emitted'[i].now \in Nat
    <3>1. emitted'[i].at \in 0 .. MaxClock /\ emitted'[i].now \in Cron!Time
      BY <2>2 DEF Cron!Emission
    <3>2. \A n \in 0 .. MaxClock : n \in Nat
      BY DEF Cron!CronConstants, Cron!LoopConstants
    <3>3. emitted'[i].at \in Nat
      BY <3>1, <3>2, Zenon
    <3> QED
      BY <1>0, <3>1, <3>3, Zenon
  <2>4. emitted'[i].now >= d /\ emitted'[i].at =< d + CheckInterval + MaxLate
    BY <1>0, <1>4, <2>1, <2>3
  <2> QED
    BY <2>4 DEF Cron!Answered
<1> QED
  BY <1>3, <1>4

LEMMA CronStep ==
  ASSUME Cron!CronConstants, Cron!IInv, [Cron!Next]_(Cron!vars)
  PROVE  Cron!IInv'
<1> USE DEF Cron!IInv
<1>0. /\ clock \in Nat /\ sleep \in Int /\ since \in Nat /\ Cron!LastCheck \in Int
      /\ 0 - MaxLate =< sleep /\ sleep =< CheckInterval
      /\ CheckInterval \in Nat /\ MaxLate \in Nat /\ MaxClock \in Nat
      /\ emitted \in Seq(Cron!Emission) /\ Cron!LastCheck =< clock
      /\ clock \in Cron!Time /\ Cron!Time \subseteq Nat /\ Instant \subseteq Nat
  BY CronTypes
<1>1. CASE Cron!CallerTicks
  <2>1. UNCHANGED <<clock, sleep, running, since>>
    BY <1>1 DEF Cron!CallerTicks, Cron!loop
  <2>2. PICK now \in Cron!Nows : Cron!Tick(now)
    BY <1>1 DEF Cron!CallerTicks
  <2>3. now \in Cron!Time
    BY <1>0 DEF Cron!Nows, Cron!Time
  <2>4. /\ next_run' \in Instant /\ armed' \in Cron!Time /\ emitted' \in Seq(Cron!Emission)
        /\ Cron!NextRunFollows' /\ Cron!EmissionsWait'
        /\ \A i \in DOMAIN emitted : i \in DOMAIN emitted' /\ emitted'[i] = emitted[i]
        /\ armed # Cron!Unset => armed' = armed
    BY <2>1, <2>2, <2>3, CronTick
  <2>5. Cron!TypeOK'
    BY <2>1, <2>4 DEF Cron!TypeOK, Cron!LoopTypeOK
  <2>6. Cron!LastCheck' = Cron!LastCheck
    BY <2>1 DEF Cron!LastCheck
  <2>7. Cron!ChecksAnswer'
    <3> SUFFICES ASSUME NEW d \in Instant, running, since < d, armed' # Cron!Unset,
                        armed' < d, d =< Cron!LastCheck
                 PROVE  Cron!Answered(d)'
      BY <2>1, <2>6 DEF Cron!ChecksAnswer, Cron!RunningBefore, Cron!Answered
    <3>1. since < Cron!LastCheck
      BY <1>0
    <3>2. armed # Cron!Unset /\ armed' = armed
      BY <2>4, <3>1
    <3>3. Cron!Answered(d)
      BY <3>2 DEF Cron!ChecksAnswer, Cron!RunningBefore
    <3> QED
      BY <2>4, <3>3, CronKept
  <2>8. armed' # Cron!Unset
    BY <1>0, <2>4 DEF Cron!Unset
  <2> QED
    BY <2>1, <2>4, <2>5, <2>6, <2>7, <2>8
<1>2. CASE Cron!Tick(clock) /\ Cron!LoopWakes
  <2>1. UNCHANGED <<clock, running, since>> /\ sleep' = CheckInterval
    BY <1>2 DEF Cron!LoopWakes, Cron!SleepAgain
  <2>2. Cron!LoopTypeOK'
    BY <1>0, <2>1 DEF Cron!TypeOK, Cron!LoopTypeOK
  <2>3. /\ next_run' \in Instant /\ armed' \in Cron!Time /\ emitted' \in Seq(Cron!Emission)
        /\ Cron!NextRunFollows' /\ Cron!EmissionsWait'
    BY <1>0, <1>2, <2>1, CronTick
  <2>4. Cron!TypeOK'
    BY <2>2, <2>3 DEF Cron!TypeOK
  <2>5. since' =< Cron!LastCheck'
    BY <1>0, <2>1 DEF Cron!LastCheck, Cron!TypeOK, Cron!LoopTypeOK
  <2>6. armed' # Cron!Unset
    BY <1>0, <2>3 DEF Cron!Unset
  <2> QED
    BY <1>2, <2>3, <2>4, <2>5, <2>6, CronCheck
<1>3. CASE Cron!StartLoop /\ UNCHANGED <<next_run, armed, emitted>>
  <2>1. /\ clock' = clock /\ since' = clock /\ sleep' = CheckInterval
        /\ running' \in BOOLEAN /\ UNCHANGED <<next_run, armed, emitted>>
    BY <1>3 DEF Cron!StartLoop
  <2>2. Cron!LastCheck' = clock
    BY <1>0, <2>1 DEF Cron!LastCheck
  <2>3. Cron!LoopTypeOK'
    BY <1>0, <2>1 DEF Cron!TypeOK, Cron!LoopTypeOK
  <2>4. Cron!TypeOK'
    BY <2>1, <2>3 DEF Cron!TypeOK
  <2>5. Cron!NextRunFollows' /\ Cron!EmissionsWait'
    BY <2>1 DEF Cron!NextRunFollows, Cron!EmissionsWait, Cron!Before
  <2>7. ~ (since' < Cron!LastCheck')
    BY <1>0, <2>1, <2>2
  <2>6. Cron!ChecksAnswer'
    <3>1. \A d \in Instant : d \in Nat
      BY CronTypes
    <3> QED
      BY <1>0, <2>1, <2>2, <3>1 DEF Cron!ChecksAnswer, Cron!RunningBefore
  <2> QED
    BY <1>0, <2>1, <2>2, <2>4, <2>5, <2>6, <2>7
<1>4. CASE Cron!StopLoop /\ UNCHANGED <<next_run, armed, emitted>>
  <2>1. /\ UNCHANGED <<clock, since, sleep, next_run, armed, emitted>>
        /\ running' = FALSE /\ running' \in BOOLEAN
    BY <1>4 DEF Cron!StopLoop
  <2>2. Cron!NextRunFollows' /\ Cron!EmissionsWait'
    BY <2>1 DEF Cron!NextRunFollows, Cron!EmissionsWait, Cron!Before
  <2>3. Cron!TypeOK'
    BY <2>1 DEF Cron!TypeOK, Cron!LoopTypeOK
  <2>4. Cron!ChecksAnswer'
    BY <2>1 DEF Cron!ChecksAnswer, Cron!RunningBefore
  <2> QED
    BY <2>1, <2>2, <2>3, <2>4
<1>5. CASE Cron!Elapse /\ UNCHANGED <<next_run, armed, emitted>>
  <2>1. /\ clock' = clock + 1 /\ clock < MaxClock /\ (running => sleep > 0 - MaxLate)
        /\ sleep' = IF running THEN sleep - 1 ELSE sleep
        /\ UNCHANGED <<running, since, next_run, armed, emitted>>
    BY <1>0, <1>5 DEF Cron!Elapse
  <2>2. Cron!LoopTypeOK'
    BY <1>0, <2>1 DEF Cron!TypeOK, Cron!LoopTypeOK
  <2>3. Cron!TypeOK'
    BY <2>1, <2>2 DEF Cron!TypeOK
  <2>4. running => Cron!LastCheck' = Cron!LastCheck
    BY <1>0, <2>1 DEF Cron!LastCheck
  <2>5. Cron!NextRunFollows'
    BY <2>1 DEF Cron!NextRunFollows, Cron!Before
  <2>6. Cron!EmissionsWait'
    <3>1. \A j \in DOMAIN emitted : emitted[j].at \in Nat
      BY CronTypes
    <3>2. \A j \in DOMAIN emitted : emitted[j].at =< clock'
      BY <1>0, <2>1, <3>1 DEF Cron!EmissionsWait
    <3> QED
      BY <2>1, <3>2 DEF Cron!EmissionsWait, Cron!Before
  <2>7. Cron!ChecksAnswer'
    BY <2>1, <2>4 DEF Cron!ChecksAnswer, Cron!RunningBefore, Cron!Answered
  <2> QED
    BY <2>1, <2>3, <2>4, <2>5, <2>6, <2>7
<1>6. CASE UNCHANGED Cron!vars
  <2>1. UNCHANGED <<clock, sleep, running, since, next_run, armed, emitted>>
    BY <1>6 DEF Cron!vars, Cron!loop
  <2>2. Cron!NextRunFollows' /\ Cron!EmissionsWait' /\ Cron!ChecksAnswer'
    BY <2>1 DEF Cron!NextRunFollows, Cron!EmissionsWait, Cron!Before, Cron!ChecksAnswer,
                Cron!RunningBefore, Cron!Answered, Cron!LastCheck
  <2>3. Cron!TypeOK'
    BY <2>1 DEF Cron!TypeOK, Cron!LoopTypeOK
  <2> QED
    BY <2>1, <2>2, <2>3 DEF Cron!LastCheck
<1> QED
  BY <1>1, <1>2, <1>3, <1>4, <1>5, <1>6 DEF Cron!Next

(* The instance has the cardinality of the library's theorems.             *)
LEMMA SameCardinality ==
  ASSUME NEW S
  PROVE  Cron!Cardinality(S) = Cardinality(S)
BY Zenon DEF Cron!Cardinality, Cardinality

(* The instants waited for are as many as the emissions, up to any time.   *)
LEMMA CronOnce ==
  ASSUME Cron!CronConstants, Cron!IInv
  PROVE  Cron!OneEmissionPerInstant
<1> SUFFICES ASSUME NEW i \in DOMAIN emitted
             PROVE  Cardinality({j \in DOMAIN emitted : emitted[j].now =< emitted[i].now}) =<
                      Cardinality({d \in Instant : armed < d /\ d =< emitted[i].now})
  BY SameCardinality, Zenon DEF Cron!OneEmissionPerInstant
<1> DEFINE t == emitted[i].now
           Es == {j \in DOMAIN emitted : emitted[j].now =< t}
           Ds == {d \in Instant : armed < d /\ d =< t}
           f == [j \in Es |-> Cron!NextAfter(Cron!Before(j))]
<1>0. /\ emitted \in Seq(Cron!Emission) /\ Instant \subseteq Nat /\ Cron!Time \subseteq Nat
  BY CronTypes DEF Cron!IInv
<1>1. /\ DOMAIN emitted = 1 .. Len(emitted) /\ Len(emitted) \in Nat
      /\ \A j \in DOMAIN emitted : emitted[j].now \in Cron!Time /\ emitted[j].now \in Nat
  BY <1>0, CronTypes DEF Cron!IInv
<1>2. armed # Cron!Unset /\ armed \in Nat /\ armed \in Cron!Time
  <2>1. emitted # <<>>
    BY <1>0
  <2> QED
    BY <1>0, <2>1, CronTypes DEF Cron!IInv, Cron!NextRunFollows
<1>3. ASSUME NEW j \in DOMAIN emitted
      PROVE  /\ Cron!Before(j) \in Cron!Time /\ Cron!Before(j) \in Nat /\ armed =< Cron!Before(j)
             /\ \A k \in DOMAIN emitted : k < j => emitted[k].now =< Cron!Before(j)
  <2>1. CASE j = 1
    <3>1. \A k \in DOMAIN emitted : ~ (k < j)
      BY <1>1, <2>1
    <3> QED
      BY <1>0, <1>2, <2>1, <3>1 DEF Cron!Before
  <2>2. CASE j # 1
    <3>1. j - 1 \in DOMAIN emitted /\ Cron!Before(j) = emitted[j - 1].now
      BY <1>1, <2>2 DEF Cron!Before
    <3>2. \A k \in DOMAIN emitted : k < j => k = j - 1 \/ k < j - 1
      BY <1>1
    <3>3. \A k \in DOMAIN emitted : k < j - 1 => emitted[k].now < emitted[j - 1].now
      BY <3>1 DEF Cron!IInv, Cron!EmissionsWait
    <3>4. armed < emitted[j - 1].now
      BY <3>1 DEF Cron!IInv, Cron!EmissionsWait
    <3> QED
      BY <1>1, <1>2, <3>1, <3>2, <3>3, <3>4
  <2> QED
    BY <2>1, <2>2
<1>4. ASSUME NEW j \in DOMAIN emitted
      PROVE  /\ Cron!NextAfter(Cron!Before(j)) \in Instant
             /\ Cron!NextAfter(Cron!Before(j)) \in Nat
             /\ Cron!Before(j) < Cron!NextAfter(Cron!Before(j))
             /\ Cron!NextAfter(Cron!Before(j)) =< emitted[j].now
  BY <1>3, NextRun DEF Cron!IInv, Cron!EmissionsWait
<1>5. f \in [Es -> Ds]
  <2> SUFFICES ASSUME NEW j \in Es
               PROVE  Cron!NextAfter(Cron!Before(j)) \in Ds
    OBVIOUS
  <2>1. j \in DOMAIN emitted /\ emitted[j].now =< t /\ t \in Nat /\ emitted[j].now \in Nat
    BY <1>1
  <2> QED
    BY <1>2, <1>3, <1>4, <2>1
<1>6. ASSUME NEW j \in Es, NEW k \in Es, j # k
      PROVE  f[j] # f[k]
  <2>1. ASSUME NEW a \in Es, NEW b \in Es, a < b
        PROVE  Cron!NextAfter(Cron!Before(a)) < Cron!NextAfter(Cron!Before(b))
    <3>1. /\ Cron!NextAfter(Cron!Before(a)) =< emitted[a].now /\ emitted[a].now =< Cron!Before(b)
          /\ Cron!Before(b) < Cron!NextAfter(Cron!Before(b))
          /\ Cron!NextAfter(Cron!Before(a)) \in Nat /\ Cron!NextAfter(Cron!Before(b)) \in Nat
          /\ emitted[a].now \in Nat /\ Cron!Before(b) \in Nat
      BY <1>1, <1>3, <1>4, <2>1
    <3> QED
      BY <3>1
  <2>2. j < k \/ k < j
    BY <1>1, <1>6
  <2>3. Cron!NextAfter(Cron!Before(j)) \in Nat /\ Cron!NextAfter(Cron!Before(k)) \in Nat
    BY <1>4
  <2>4. Cron!NextAfter(Cron!Before(j)) # Cron!NextAfter(Cron!Before(k))
    BY <2>1, <2>2, <2>3
  <2> QED
    BY <2>4
<1>7. IsFiniteSet(Ds)
  <2>1. t \in Nat
    BY <1>1
  <2>2. Ds \subseteq 0 .. t
    <3> SUFFICES ASSUME NEW d \in Instant, d =< t
                 PROVE  d \in 0 .. t
      OBVIOUS
    <3>1. d \in Nat
      BY <1>0
    <3> QED
      BY <2>1, <3>1
  <2>3. IsFiniteSet(0 .. t)
    BY <2>1, FS_Interval
  <2> QED
    BY <2>2, <2>3, FS_Subset
<1>8. f \in Injection(Es, Ds)
  BY <1>5, <1>6 DEF Injection, IsInjective
<1> QED
  BY <1>7, <1>8, FS_Injection

LEMMA CronPunctual ==
  ASSUME Cron!CronConstants, Cron!IInv
  PROVE  Cron!Punctual
<1> SUFFICES ASSUME NEW d \in Instant, Cron!RunningBefore(d),
                    clock > d + CheckInterval + MaxLate, armed # Cron!Unset, armed < d
             PROVE  Cron!Answered(d)
  BY DEF Cron!Punctual, Cron!Overdue
<1>1. /\ d \in Nat /\ clock \in Nat /\ Cron!LastCheck \in Int
      /\ clock =< Cron!LastCheck + CheckInterval + MaxLate
      /\ CheckInterval \in Nat /\ MaxLate \in Nat
  BY CronTypes DEF Cron!IInv
<1>2. d =< Cron!LastCheck
  BY <1>1
<1> QED
  BY <1>2 DEF Cron!IInv, Cron!ChecksAnswer

-----------------------------------------------------------------------------
(* The parts together: a behaviour is one of a single part, and each part  *)
(* keeps its own invariant.                                                *)
PartInv ==
  /\ part \in {"throttle", "eod", "cron"}
  /\ part = "eod" => Eod!IInv
  /\ part = "cron" => Cron!IInv

LEMMA PartStarts == PartInit => PartInv
BY PartsAssumption, EodInit, CronInit DEF PartInit, PartInv

LEMMA PartStep == PartInv /\ [PartNext]_all => PartInv'
<1> SUFFICES ASSUME PartInv, [PartNext]_all PROVE PartInv'
  OBVIOUS
<1>1. Eod!EodConstants /\ Cron!CronConstants
  BY PartsAssumption
<1>2. CASE part = "throttle" /\ Next /\ UNCHANGED <<part, scheduling>>
  BY <1>2 DEF PartInv
<1>3. CASE part = "eod" /\ Eod!Next /\ UNCHANGED <<part, vars, next_run, armed>>
  BY <1>1, <1>3, EodStep DEF PartInv
<1>4. CASE part = "cron" /\ Cron!Next /\ UNCHANGED <<part, vars, last_run_date>>
  BY <1>1, <1>4, CronStep DEF PartInv
<1>5. CASE UNCHANGED all
  <2>1. part' = part /\ UNCHANGED scheduling
    BY <1>5 DEF all
  <2>2. UNCHANGED Eod!vars /\ UNCHANGED Cron!vars
    BY <2>1 DEF scheduling, Eod!vars, Eod!loop, Cron!vars, Cron!loop
  <2> QED
    BY <1>1, <2>1, <2>2, EodStep, CronStep DEF PartInv
<1> QED
  BY <1>2, <1>3, <1>4, <1>5 DEF PartNext

(* Types, and the strengthenings of the schedulers.                        *)
THEOREM PartInvariantHolds == PartSpec => []PartInv
BY PartStarts, PartStep, PTL DEF PartSpec

(* However ticks of the loop, ticks of callers with times of their own and *)
(* restarts interleave, EodScheduler emits twice for a date only when a    *)
(* caller's tick for another date emitted in between, and CronScheduler no *)
(* more often than there are instants since the time it was armed with.    *)
THEOREM EmitsOnceHolds == PartSpec => []EmitsOnce
<1>1. PartInv => EmitsOnce
  BY PartsAssumption, EodPromises, CronOnce DEF PartInv, EmitsOnce, Cron!IInv
<1> QED
  BY <1>1, PartInvariantHolds, PTL

(* A loop that runs misses no date, when its checks are no further apart   *)
(* than the rest of the date, and no instant of the cron expression,       *)
(* whatever times callers tick with meanwhile: an instant is answered by   *)
(* the next check, or ahead of it.                                         *)
THEOREM NoneMissedHolds == PartSpec => []NoneMissed
<1>1. PartInv => NoneMissed
  BY PartsAssumption, EodPromises, CronPunctual DEF PartInv, NoneMissed
<1> QED
  BY <1>1, PartInvariantHolds, PTL
=============================================================================
