------------------------ MODULE RegistrationProofs ------------------------
(***************************************************************************)
(* For every environment, every number of boots, restarts and failures:    *)
(* the heartbeat's interval is sound, and it heals within one of them.     *)
(***************************************************************************)
EXTENDS Registration, TLAPS

\* While posting, the beat of this boot is the one in flight; once it is
\* answered well an upserting platform holds the boot's entry, so nothing slept
\* since the loss counts any more.
Flight ==
  /\ loop = "posting" => \E b \in beats : b.boot = boot
  /\ loop \in {"due", "sleeping"} => \A b \in beats : b.boot # boot
  /\ loop = "posting" /\ ~legacy => \A b \in beats : b.boot = boot /\ b.answer \in Registering => lost = 0

\* What is slept and what is left to sleep fit in one interval.
Slept ==
  ~legacy => /\ lost <= beatEvery
             /\ loop = "sleeping" => lost + wait <= beatEvery

Booted == loop # "down" => boot > 0

IInv == TypeOK /\ Flight /\ Slept /\ Booted

LEMMA CadenceIsSound ==
  ASSUME NEW raw \in RawCadences
  PROVE  Cadence(raw) \in Nat /\ Cadence(raw) >= Floor
<1>1. CASE raw \in {Unset, Malformed, NonFinite}
  BY <1>1, RegistrationAssumption DEF Cadence
<1>2. CASE raw \in Int
  <2>1. raw \notin {Unset, Malformed, NonFinite}
    BY <1>2, RegistrationAssumption
  <2>2. Cadence(raw) = IF raw < Floor THEN Floor ELSE raw
    BY <1>2, <2>1 DEF Cadence
  <2>. QED  BY <1>2, <2>2, RegistrationAssumption
<1>. QED  BY <1>1, <1>2, RegistrationAssumption

LEMMA InitIInv == Init => IInv
<1>. SUFFICES ASSUME Init PROVE IInv
  OBVIOUS
<1>1. TypeOK
  <2>1. confirmed \in BOOLEAN /\ legacy \in BOOLEAN
    BY DEF Init
  <2>. QED  BY <2>1, RegistrationAssumption DEF Init, TypeOK, Loops
<1>. QED  BY <1>1, RegistrationAssumption DEF Init, IInv, Flight, Slept, Booted

\* A step that leaves the beats alone or answers one.
LEMMA AnsweringTyped ==
  ASSUME TypeOK, boot' = boot, NEW b \in beats, NEW answer \in Answers, Answer(b, answer)
  PROVE  /\ beats' \subseteq [boot : 1 .. boot, answer : Answers]
         /\ \A c, d \in beats' : c.boot = d.boot => c = d
         /\ \A c \in beats' : c \in beats \/ (c.boot = b.boot /\ c.answer = answer)
         /\ \A c \in beats : \E d \in beats' : d.boot = c.boot
<1>. DEFINE new == [b EXCEPT !.answer = answer]
<1>1. /\ new.boot = b.boot /\ new.answer = answer
      /\ new \in [boot : 1 .. boot, answer : Answers]
  BY DEF TypeOK
<1>2. beats' = (beats \ {b}) \cup {new}
  BY DEF Answer
<1>. HIDE DEF new
<1>. QED  BY <1>1, <1>2 DEF TypeOK

LEMMA BootPreserves ==
  ASSUME IInv, NEW raw \in RawCadences, Boot(raw)
  PROVE  IInv'
<1>1. beatEvery' \in Nat /\ beatEvery' >= Floor
  BY CadenceIsSound DEF Boot
<1>2. TypeOK'
  <2>1. boot' \in 0 .. MaxBoots /\ boot' = boot + 1 /\ boot \in Nat
    BY RegistrationAssumption DEF IInv, TypeOK, Boot
  <2>2. [boot : 1 .. boot, answer : Answers] \subseteq [boot : 1 .. boot', answer : Answers]
    BY <2>1
  <2>3. beats' \subseteq [boot : 1 .. boot', answer : Answers]
    BY <2>2 DEF IInv, TypeOK, Boot
  <2>4. confirmed' \in BOOLEAN
    BY DEF Boot
  <2>. QED  BY <1>1, <2>1, <2>3, <2>4 DEF IInv, TypeOK, Boot, Loops, platform
<1>3. \A b \in beats : b.boot # boot'
  BY RegistrationAssumption DEF IInv, TypeOK, Boot
<1>. QED  BY <1>1, <1>2, <1>3 DEF IInv, TypeOK, Boot, Flight, Slept, Booted, platform

LEMMA PostPreserves == IInv /\ Post => IInv'
<1>. SUFFICES ASSUME IInv, Post PROVE IInv'
  OBVIOUS
<1>. DEFINE new == [boot |-> boot, answer |-> "none"]
<1>1. new \in [boot : 1 .. boot, answer : Answers] /\ new.boot = boot /\ new.answer = "none"
  BY DEF IInv, TypeOK, Booted, Post, Answers, Registering
<1>2. beats' = beats \cup {new} /\ \A b \in beats : b.boot # boot
  BY DEF IInv, Flight, Post
<1>. HIDE DEF new
<1>3. TypeOK'
  BY <1>1, <1>2 DEF IInv, TypeOK, Post, Loops, platform
<1>4. Flight'
  BY <1>1, <1>2 DEF Post, Flight, Registering
<1>. QED  BY <1>3, <1>4 DEF IInv, TypeOK, Post, Slept, Booted, platform

LEMMA PostRaisesPreserves == IInv /\ PostRaises => IInv'
BY RegistrationAssumption
DEF IInv, TypeOK, PostRaises, Loops, platform, Flight, Slept, Booted

LEMMA LandPreserves ==
  ASSUME IInv, NEW b \in beats, Land(b)
  PROVE  IInv'
<1>1. PICK answer \in Registering : Answer(b, answer)
  BY DEF Land, Registering
<1>2. answer \in Answers
  BY DEF Answers
<1>3. /\ loop' = loop /\ boot' = boot /\ beatEvery' = beatEvery /\ wait' = wait
      /\ confirmed' = confirmed /\ legacy' = legacy /\ restarts' = restarts /\ faults' = faults
      /\ (~legacy => registry' = b.boot)
      /\ registry' \in {registry, b.boot}
      /\ lost' = IF registry' = boot THEN 0 ELSE lost
  BY DEF Land, plugin
<1>4. /\ beats' \subseteq [boot : 1 .. boot, answer : Answers]
      /\ \A c, d \in beats' : c.boot = d.boot => c = d
      /\ \A c \in beats' : c \in beats \/ (c.boot = b.boot /\ c.answer = answer)
      /\ \A c \in beats : \E d \in beats' : d.boot = c.boot
  BY <1>1, <1>2, <1>3, AnsweringTyped DEF IInv
<1>5. b.boot \in 1 .. boot
  BY DEF IInv, TypeOK
<1>6. TypeOK'
  BY <1>3, <1>4, <1>5 DEF IInv, TypeOK
<1>7. Flight'
  BY <1>3, <1>4 DEF IInv, Flight
<1>. QED  BY <1>3, <1>6, <1>7 DEF IInv, TypeOK, Slept, Booted

LEMMA FailPreserves ==
  ASSUME IInv, NEW b \in beats, Fail(b)
  PROVE  IInv'
<1>1. /\ beats' \subseteq [boot : 1 .. boot, answer : Answers]
      /\ \A c, d \in beats' : c.boot = d.boot => c = d
      /\ \A c \in beats' : c \in beats \/ (c.boot = b.boot /\ c.answer = "failed")
      /\ \A c \in beats : \E d \in beats' : d.boot = c.boot
  BY AnsweringTyped DEF IInv, Fail, plugin, Answers
<1>2. TypeOK'
  BY <1>1, RegistrationAssumption DEF IInv, TypeOK, Fail, plugin, platform
<1>3. Flight'
  BY <1>1 DEF IInv, Flight, Fail, plugin, platform, Registering
<1>. QED  BY <1>2, <1>3 DEF IInv, Slept, Booted, Fail, plugin, platform

LEMMA AnsweredPreserves ==
  ASSUME IInv, NEW b \in beats, Answered(b)
  PROVE  IInv'
<1>1. TypeOK'
  BY DEF IInv, TypeOK, Answered, Loops, platform
<1>2. Flight'
  BY DEF IInv, TypeOK, Flight, Answered, platform
<1>3. ~legacy => lost' = 0
  BY DEF IInv, Flight, Answered
<1>. QED  BY <1>1, <1>2, <1>3 DEF IInv, TypeOK, Slept, Booted, Answered, platform

LEMMA SleepingPreserves == IInv /\ (Tick \/ Wake \/ Shutdown) => IInv'
<1>1. IInv /\ Tick => IInv'
  BY DEF IInv, TypeOK, Tick, Loops, platform, Flight, Slept, Booted
<1>2. IInv /\ Wake => IInv'
  BY DEF IInv, TypeOK, Wake, Loops, platform, Flight, Slept, Booted
<1>3. IInv /\ Shutdown => IInv'
  BY DEF IInv, TypeOK, Shutdown, Loops, platform, Flight, Slept, Booted
<1>. QED  BY <1>1, <1>2, <1>3

LEMMA AbandonedPreserves ==
  ASSUME IInv, NEW b \in beats, Abandoned(b)
  PROVE  IInv'
BY DEF IInv, TypeOK, Abandoned, Loops, plugin, platform, Flight, Slept, Booted

LEMMA PlatformRestartPreserves == IInv /\ PlatformRestart => IInv'
BY RegistrationAssumption
DEF IInv, TypeOK, PlatformRestart, Loops, plugin, Flight, Slept, Booted

LEMMA NextIInv == IInv /\ [Next]_vars => IInv'
<1>1. IInv /\ UNCHANGED vars => IInv'
  BY DEF IInv, TypeOK, vars, plugin, platform, Flight, Slept, Booted
<1>. QED
  BY <1>1, BootPreserves, PostPreserves, PostRaisesPreserves, LandPreserves, FailPreserves,
     AnsweredPreserves, SleepingPreserves, AbandonedPreserves, PlatformRestartPreserves
  DEF Next

LEMMA IInvAlways == Spec => []IInv
BY InitIInv, NextIInv, PTL DEF Spec

-----------------------------------------------------------------------------
(* Whatever the environment says, the heartbeat's interval is a finite     *)
(* number of at least the floor, and every variable keeps its type.        *)
THEOREM TypeCorrect == Spec => []TypeOK
<1>1. IInv => TypeOK
  BY DEF IInv
<1>. QED  BY IInvAlways, <1>1, PTL

(* Between failures, the plugin never sleeps more than one interval while  *)
(* an upserting platform does not hold the entry of the running boot.      *)
THEOREM HealsInTime == Spec => []HealsWithinInterval
<1>1. IInv => HealsWithinInterval
  BY DEF IInv, Slept, HealsWithinInterval
<1>. QED  BY IInvAlways, <1>1, PTL

=============================================================================
