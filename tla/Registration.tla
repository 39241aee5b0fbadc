---------------------------- MODULE Registration ----------------------------
(***************************************************************************)
(* The registration heartbeat (registration.py) of a plugin that is        *)
(* started and stopped by its lifespan (app.py), against a platform whose  *)
(* registry of plugins is in memory.                                       *)
(*                                                                         *)
(* Every boot of the plugin may advertise another base_url, so the         *)
(* registry holds the boot that wrote its entry.  A beat is a POST on a    *)
(* thread; a cancelled lifespan abandons it, and it may still land.        *)
(***************************************************************************)
EXTENDS Integers

CONSTANTS
  RawCadences,          \* SNOWLINE_REGISTRATION_HEARTBEAT_SECONDS: ticks, or
  Unset, Malformed, NonFinite,
  DefaultCadence,       \* 15 s
  Floor,                \* 1 s
  MaxBoots,             \* bound: boots of the plugin
  MaxRestarts,          \* bound: restarts of the platform
  MaxFaults             \* bound: beats that fail

ASSUME RegistrationAssumption ==
  /\ Floor \in Nat \ {0} /\ DefaultCadence \in Nat /\ Floor <= DefaultCadence
  /\ MaxBoots \in Nat /\ MaxRestarts \in Nat /\ MaxFaults \in Nat
  /\ {Unset, Malformed, NonFinite} \cap Int = {}
  /\ RawCadences \subseteq Int \cup {Unset, Malformed, NonFinite}

VARIABLES
  loop,        \* where the heartbeat is, or "down"
  boot,        \* the boot of the plugin, the latest one
  beatEvery,   \* this boot's interval
  wait,        \* ticks the heartbeat still sleeps
  confirmed,   \* this boot logged its confirmation
  beats,       \* the POSTs in flight: [boot, answer]
  registry,    \* the boot whose entry the platform holds, or 0
  legacy,      \* the platform answers 409 and keeps the entry it has
  restarts, faults,
  lost         \* ticks slept since an upserting platform lost this boot, or a beat failed

plugin == <<loop, boot, beatEvery, wait, confirmed>>
platform == <<registry, legacy, restarts>>
vars == <<plugin, beats, platform, faults, lost>>

Loops == {"down", "due", "posting", "sleeping"}
Registering == {"created", "updated", "conflict"}
Answers == Registering \cup {"none", "failed"}

(* Mistake: a float is taken as it parses.                                 *)
CadenceAsParsed(raw) == IF raw \in {Unset, Malformed} THEN DefaultCadence ELSE raw

\* registration_heartbeat_seconds
Cadence(raw) ==
  CASE raw \in {Unset, Malformed, NonFinite} -> DefaultCadence
    [] raw \in Int -> IF raw < Floor THEN Floor ELSE raw

Init ==
  /\ loop = "down"
  /\ boot = 0
  /\ beatEvery = DefaultCadence
  /\ wait = 0
  /\ confirmed = FALSE
  /\ beats = {}
  /\ registry = 0
  /\ legacy \in BOOLEAN
  /\ restarts = 0
  /\ faults = 0
  /\ lost = 0

\* The lifespan starts the heartbeat, whose first beat is due at once.
Boot(raw) ==
  /\ loop = "down"
  /\ boot < MaxBoots
  /\ loop' = "due"
  /\ boot' = boot + 1
  /\ beatEvery' = Cadence(raw)
  /\ wait' = 0
  /\ confirmed' = FALSE
  /\ lost' = 0
  /\ UNCHANGED <<beats, platform, faults>>

\* register_with_platform goes to a thread.
Post ==
  /\ loop = "due"
  /\ loop' = "posting"
  /\ beats' = beats \cup {[boot |-> boot, answer |-> "none"]}
  /\ UNCHANGED <<boot, beatEvery, wait, confirmed, platform, faults, lost>>

\* Building the client, or dispatching the thread, raises: the backstop holds.
PostRaises ==
  /\ loop = "due"
  /\ faults < MaxFaults
  /\ faults' = faults + 1
  /\ loop' = "sleeping"
  /\ wait' = beatEvery
  /\ lost' = 0
  /\ UNCHANGED <<boot, beatEvery, confirmed, beats, platform>>

Answer(b, answer) == beats' = (beats \ {b}) \cup {[b EXCEPT !.answer = answer]}

\* POST /plugins reaches the platform.
Land(b) ==
  /\ b.answer = "none"
  /\ \/ registry = 0 /\ registry' = b.boot /\ Answer(b, "created")
     \/ registry # 0 /\ ~legacy /\ registry' = b.boot /\ Answer(b, "updated")
     \/ registry # 0 /\ legacy /\ registry' = registry /\ Answer(b, "conflict")
  /\ lost' = IF registry' = boot THEN 0 ELSE lost
  /\ UNCHANGED <<plugin, legacy, restarts, faults>>

\* A transport error or another status, before the POST landed or after.
Fail(b) ==
  /\ b.answer # "failed"
  /\ faults < MaxFaults
  /\ faults' = faults + 1
  /\ Answer(b, "failed")
  /\ UNCHANGED <<plugin, platform, lost>>

(* Mistake: a plugin that is registered beats half as often.               *)
AnsweredBackingOff(b) ==
  LET ok == b.answer \in Registering IN
  /\ loop = "posting" /\ b.boot = boot /\ b.answer # "none"
  /\ confirmed' = (confirmed \/ ok)
  /\ loop' = "sleeping"
  /\ wait' = IF ok THEN 2 * beatEvery ELSE beatEvery
  /\ beats' = beats \ {b}
  /\ lost' = IF ok THEN lost ELSE 0
  /\ UNCHANGED <<boot, beatEvery, platform, faults>>

(* Mistake: only a new entry is confirmed.                                 *)
AnsweredIfCreated(b) ==
  /\ loop = "posting" /\ b.boot = boot /\ b.answer # "none"
  /\ confirmed' = (confirmed \/ b.answer = "created")
  /\ loop' = "sleeping"
  /\ wait' = beatEvery
  /\ beats' = beats \ {b}
  /\ lost' = IF b.answer \in Registering THEN lost ELSE 0
  /\ UNCHANGED <<boot, beatEvery, platform, faults>>

\* The heartbeat takes its beat's answer and sleeps.
Answered(b) ==
  LET ok == b.answer \in Registering IN
  /\ loop = "posting" /\ b.boot = boot /\ b.answer # "none"
  /\ confirmed' = (confirmed \/ ok)
  /\ loop' = "sleeping"
  /\ wait' = beatEvery
  /\ beats' = beats \ {b}
  /\ lost' = IF ok THEN lost ELSE 0
  /\ UNCHANGED <<boot, beatEvery, platform, faults>>

\* anyio.sleep
Tick ==
  /\ loop = "sleeping"
  /\ wait > 0
  /\ wait' = wait - 1
  /\ lost' = IF registry = boot \/ legacy THEN 0 ELSE lost + 1
  /\ UNCHANGED <<loop, boot, beatEvery, confirmed, beats, platform, faults>>

(* Mistake: a registered plugin sleeps on.                                 *)
WakeUntilConfirmed ==
  /\ loop = "sleeping"
  /\ wait = 0
  /\ loop' = IF confirmed THEN "sleeping" ELSE "due"
  /\ UNCHANGED <<boot, beatEvery, wait, confirmed, beats, platform, faults, lost>>

Wake ==
  /\ loop = "sleeping"
  /\ wait = 0
  /\ loop' = "due"
  /\ UNCHANGED <<boot, beatEvery, wait, confirmed, beats, platform, faults, lost>>

\* The lifespan ends: the scope is cancelled, a beat in flight is abandoned.
Shutdown ==
  /\ loop # "down"
  /\ boot < MaxBoots
  /\ loop' = "down"
  /\ lost' = 0
  /\ UNCHANGED <<boot, beatEvery, wait, confirmed, beats, platform, faults>>

\* The client was closed under an abandoned beat, or its answer has no reader.
Abandoned(b) ==
  /\ b.boot # boot \/ loop = "down"
  /\ beats' = beats \ {b}
  /\ UNCHANGED <<plugin, platform, faults, lost>>

PlatformRestart ==
  /\ restarts < MaxRestarts
  /\ restarts' = restarts + 1
  /\ registry' = 0
  /\ UNCHANGED <<plugin, beats, legacy, faults, lost>>

Next ==
  \/ \E raw \in RawCadences : Boot(raw)
  \/ Post \/ PostRaises \/ Tick \/ Wake \/ Shutdown \/ PlatformRestart
  \/ \E b \in beats : Land(b) \/ Fail(b) \/ Answered(b) \/ Abandoned(b)

\* What runs by itself: the event loop, its threads, the clock, the platform.
Running ==
  \/ Post \/ Tick \/ Wake
  \/ \E b \in beats : Land(b) \/ Answered(b) \/ Abandoned(b)

Spec == Init /\ [][Next]_vars
FairSpec == Spec /\ WF_vars(Running)

-----------------------------------------------------------------------------
(* Properties.                                                             *)

(* Every variable holds what the code can put there; whatever the          *)
(* environment says, the interval neither stops the heartbeat nor lets it  *)
(* spin, and no boot has two beats in flight.                              *)
TypeOK ==
  /\ loop \in Loops
  /\ boot \in 0 .. MaxBoots
  /\ beatEvery \in Nat /\ beatEvery >= Floor
  /\ wait \in 0 .. beatEvery
  /\ confirmed \in BOOLEAN
  /\ beats \subseteq [boot : 1 .. boot, answer : Answers]
  /\ \A b, c \in beats : b.boot = c.boot => b = c
  /\ registry \in 0 .. boot
  /\ legacy \in BOOLEAN
  /\ restarts \in 0 .. MaxRestarts /\ faults \in 0 .. MaxFaults
  /\ lost \in Nat

(* registration.py: "a deploy (or a crash-restart) heals within one        *)
(* interval".  As long as no beat fails, the plugin never sleeps more than *)
(* one interval while an upserting platform lacks its entry, or holds that *)
(* of an earlier boot.                                                     *)
HealsWithinInterval == ~legacy => lost <= beatEvery

(* However platform and plugin restart, and whatever abandoned beat lands  *)
(* late, once the failures stop the platform holds the entry of the boot   *)
(* that runs, for good.                                                    *)
RegistrationHeals ==
  ~legacy /\ <>[](loop # "down") => <>[](registry = boot)

(* registration.py: "One guaranteed INFO confirmation per process boot",   *)
(* also on a platform that already had the plugin.                         *)
EachBootConfirms == [](loop # "down" => <>(confirmed \/ loop = "down"))

=============================================================================
