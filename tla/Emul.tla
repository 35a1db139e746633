-------------------------------- MODULE Emul --------------------------------
(***************************************************************************)
(* The emulated sensor (biometrics_emul.c): a template store in slots, one *)
(* staged enrollment and blocking matching, under one mutex.  Every call   *)
(* is one step but enroll_capture and match: they check under the mutex,   *)
(* release it for the time of a capture, and go on with what they find.    *)
(*                                                                         *)
(* A call that is refused changes nothing and is left out, as are calls    *)
(* that only read.  Attributes and test controls may be set at any time by *)
(* anyone, while a match sleeps in particular; those that nothing depends  *)
(* on (quality, timeout, the levels but one) are left out.                 *)
(***************************************************************************)
EXTENDS Integers, FiniteSets

CONSTANTS Callers,          \* the application threads
          Slots,            \* the places of data->templates; which one is taken is left open
          Ids,              \* template ids: positive numbers
          Samples,          \* BIOMETRICS_EMUL_ENROLL_SAMPLES
          BufferSamples,    \* samples enroll_temp_data has room for (512 / 32)
          Settings          \* the settings that are tried (a bound)

(* biometrics_emul_init *)
DefaultSettings ==
    [match_threshold |-> 50, security_level |-> 5, led_state |-> "off",
     next_match_score |-> 0, next_match_id |-> 0,
     force_match_fail |-> FALSE, force_capture_timeout |-> FALSE]

Attributes == {"match_threshold", "security_level"}
Controls == {"next_match_score", "next_match_id", "force_match_fail", "force_capture_timeout"}

ASSUME EmulAssumption ==
    /\ IsFiniteSet(Callers)
    /\ IsFiniteSet(Slots)
    /\ Ids \subseteq Nat \ {0}
    /\ Samples \in Nat \ {0} /\ BufferSamples \in Nat
    /\ Samples <= BufferSamples
    /\ Samples + Cardinality(Callers) <= BufferSamples + 1
    /\ DefaultSettings \in Settings

VARIABLES
    templates,          \* data->templates: what each slot holds
    template_count,
    enrolling, enroll_id, samples,  \* samples is enroll_samples_captured
    temp,               \* enroll_temp_data: the id written with each sample
    last_matched_id,
    settings,           \* attributes, LED and test controls
    pc,                 \* of each caller: ready, or asleep in a capture or a match
    arg                 \* the id its match verifies, 0 to identify

storeVars == <<templates, template_count>>
enrollVars == <<enrolling, enroll_id, samples, temp>>
deviceVars == <<last_matched_id, settings>>
callVars == <<pc, arg>>
vars == <<storeVars, enrollVars, deviceVars, callVars>>

(* own: the template consists of samples of its id, or comes from the host. *)
NoTemplate == [id |-> 0, own |-> TRUE]
EmptyBuffer == [i \in 0..(BufferSamples - 1) |-> 0]

Init == /\ templates = [s \in Slots |-> NoTemplate]
        /\ template_count = 0
        /\ enrolling = FALSE
        /\ enroll_id = 0
        /\ samples = 0
        /\ temp = EmptyBuffer
        /\ last_matched_id = -1
        /\ settings = DefaultSettings
        /\ pc = [t \in Callers |-> "ready"]
        /\ arg = [t \in Callers |-> 0]

Valid == {s \in Slots : templates[s].id # 0}
SlotsOf(id) == {s \in Valid : templates[s].id = id}
Full == template_count >= Cardinality(Slots)

Store(slot, id, own) == templates' = [templates EXCEPT ![slot] = [id |-> id, own |-> own]]
Capturing == {t \in Callers : pc[t] = "capture"}
-----------------------------------------------------------------------------
(***************************************************************************)
(* Staged enrollment.                                                      *)
(***************************************************************************)

(* Mutants: Bug_F is F with one plausible mistake. *)

(* The samples of the last enrollment are still counted. *)
Bug_EnrollStart(t, id) ==
    /\ pc[t] = "ready"
    /\ ~enrolling
    /\ SlotsOf(id) = {} /\ ~Full
    /\ enrolling' = TRUE
    /\ enroll_id' = id
    /\ UNCHANGED <<storeVars, samples, temp, deviceVars, pc, arg>>

(* An enrollment that is open is not noticed. *)
Bug_EnrollStart2(t, id) ==
    /\ pc[t] = "ready"
    /\ SlotsOf(id) = {} /\ ~Full
    /\ enrolling' = TRUE
    /\ enroll_id' = id
    /\ samples' = 0
    /\ temp' = EmptyBuffer
    /\ UNCHANGED <<storeVars, deviceVars, pc, arg>>

EnrollStart(t, id) ==
    /\ pc[t] = "ready"
    /\ ~enrolling
    /\ SlotsOf(id) = {} /\ ~Full
    /\ enrolling' = TRUE
    /\ enroll_id' = id
    /\ samples' = 0
    /\ temp' = EmptyBuffer
    /\ UNCHANGED <<storeVars, deviceVars, pc, arg>>

EnrollCapture(t) ==
    /\ pc[t] = "ready"
    /\ enrolling
    /\ samples < Samples
    /\ ~settings.force_capture_timeout
    /\ pc' = [pc EXCEPT ![t] = "capture"]
    /\ UNCHANGED <<storeVars, enrollVars, deviceVars, arg>>

(* After the sleep nothing is checked again. *)
EnrollCaptureDone(t) ==
    /\ pc[t] = "capture"
    /\ temp' = [temp EXCEPT ![samples] = enroll_id]
    /\ samples' = samples + 1
    /\ pc' = [pc EXCEPT ![t] = "ready"]
    /\ UNCHANGED <<storeVars, enrolling, enroll_id, deviceVars, arg>>

(* The id is not looked up again. *)
EnrollFinalize(t) ==
    /\ pc[t] = "ready"
    /\ enrolling
    /\ samples >= Samples
    /\ \E slot \in Slots \ Valid :
        Store(slot, enroll_id, \A i \in 0..(Samples - 1) : temp[i] = enroll_id)
    /\ template_count' = template_count + 1
    /\ enrolling' = FALSE
    /\ UNCHANGED <<enroll_id, samples, temp, deviceVars, callVars>>

EnrollAbort(t) ==
    /\ pc[t] = "ready"
    /\ enrolling
    /\ enrolling' = FALSE
    /\ samples' = 0
    /\ UNCHANGED <<storeVars, enroll_id, temp, deviceVars, callVars>>
-----------------------------------------------------------------------------
(***************************************************************************)
(* The template store.                                                     *)
(***************************************************************************)

(* Replace the template of that id, or take a free slot. *)
TemplateStore(t, id) ==
    /\ pc[t] = "ready"
    /\ \/ /\ \E slot \in SlotsOf(id) : Store(slot, id, TRUE)
          /\ UNCHANGED template_count
       \/ /\ SlotsOf(id) = {}
          /\ ~Full
          /\ \E slot \in Slots \ Valid : Store(slot, id, TRUE)
          /\ template_count' = template_count + 1
    /\ UNCHANGED <<enrollVars, deviceVars, callVars>>

TemplateDelete(t, id) ==
    /\ pc[t] = "ready"
    /\ \E slot \in SlotsOf(id) : templates' = [templates EXCEPT ![slot] = NoTemplate]
    /\ template_count' = template_count - 1
    /\ UNCHANGED <<enrollVars, deviceVars, callVars>>

TemplateDeleteAll(t) ==
    /\ pc[t] = "ready"
    /\ templates' = [s \in Slots |-> NoTemplate]
    /\ template_count' = 0
    /\ UNCHANGED <<enrollVars, deviceVars, callVars>>
-----------------------------------------------------------------------------
(***************************************************************************)
(* Matching, which shares last_matched_id between all callers.             *)
(***************************************************************************)

Match(t, id) ==
    /\ pc[t] = "ready"
    /\ ~settings.force_capture_timeout /\ ~settings.force_match_fail
    /\ pc' = [pc EXCEPT ![t] = "match"]
    /\ arg' = [arg EXCEPT ![t] = id]
    /\ UNCHANGED <<storeVars, enrollVars, deviceVars>>

Score == IF settings.next_match_score > 0 THEN settings.next_match_score ELSE 80

(* Identification takes the first template, or the one a test asked for, whatever its *)
(* score; slots are not ordered here, so that any can be the first.                   *)
Accepts(t, id) ==
    /\ SlotsOf(id) # {}
    /\ IF arg[t] = 0 THEN settings.next_match_id \in {0, id}
                     ELSE arg[t] = id /\ Score >= settings.match_threshold

MatchDone(t) ==
    /\ pc[t] = "match"
    /\ \/ \E id \in Ids : Accepts(t, id) /\ last_matched_id' = id
       \/ (\A id \in Ids : ~Accepts(t, id)) /\ UNCHANGED last_matched_id
    /\ pc' = [pc EXCEPT ![t] = "ready"]
    /\ arg' = [arg EXCEPT ![t] = 0]
    /\ UNCHANGED <<storeVars, enrollVars, settings>>
-----------------------------------------------------------------------------
(***************************************************************************)
(* Settings.                                                               *)
(***************************************************************************)

Set(t, field, val) ==
    /\ pc[t] = "ready"
    /\ settings' = [settings EXCEPT ![field] = val]
    /\ UNCHANGED <<storeVars, enrollVars, last_matched_id, callVars>>

AttrSet(t, attr, val) ==
    /\ attr = "security_level" => 1 <= val /\ val <= 10
    /\ Set(t, attr, val)

LedControl(t, state) == Set(t, "led_state", state)

(* biometrics_emul_set_match_score and its like, for tests. *)
SetControl(t, control, val) == Set(t, control, val)

SettingsStep(t) ==
    /\ \E s \in Settings :
        \/ \E attr \in Attributes : AttrSet(t, attr, s[attr])
        \/ LedControl(t, s.led_state)
        \/ \E control \in Controls : SetControl(t, control, s[control])
    /\ settings' \in Settings

CallStep(t) ==
    \/ \E id \in Ids : EnrollStart(t, id) \/ TemplateStore(t, id) \/ TemplateDelete(t, id)
    \/ \E id \in Ids \cup {0} : Match(t, id)
    \/ EnrollCapture(t) \/ EnrollCaptureDone(t) \/ EnrollFinalize(t) \/ EnrollAbort(t)
    \/ TemplateDeleteAll(t) \/ MatchDone(t) \/ SettingsStep(t)

Next == \E t \in Callers : CallStep(t)

Spec == Init /\ [][Next]_vars
-----------------------------------------------------------------------------
(***************************************************************************)
(* Properties.                                                             *)
(***************************************************************************)

(* Every variable has the type of its counterpart. *)
TypeOK ==
    /\ templates \in [Slots -> [id : Ids \cup {0}, own : BOOLEAN]]
    /\ template_count \in Nat
    /\ enrolling \in BOOLEAN
    /\ enroll_id \in Ids \cup {0}
    /\ samples \in Nat
    /\ temp \in [0..(BufferSamples - 1) -> Ids \cup {0}]
    /\ last_matched_id \in Ids \cup {-1}
    /\ settings \in Settings
    /\ pc \in [Callers -> {"ready", "capture", "match"}]
    /\ arg \in [Callers -> Ids \cup {0}]

(* template_count, which enroll_start and template_store trust instead of looking *)
(* for a free slot, is the number of valid slots: without this, template_store    *)
(* writes to templates[-1].                                                       *)
CountIsExact == template_count = Cardinality(Valid)

(* A capture that wakes up writes inside enroll_temp_data, though the number of *)
(* samples is not checked again and concurrent captures exceed it.              *)
SampleFits == Capturing # {} => samples < BufferSamples

(* A template made by enrollment consists of samples written for its own id, even  *)
(* when captures of an aborted enrollment complete in the middle of the next one.  *)
TemplateIsOwn == \A s \in Valid : templates[s].own

(* Its store calls take one step each and may begin at any time. *)
AnyHostCall == [kind : {"template_store", "template_delete"}, id : Ids]
               \cup [kind : {"template_delete_all"}, id : {0}]

Stored == {templates[s].id : s \in Valid}

Library == INSTANCE BiometricStore
            WITH db <- Stored, open <- enrolling, template_id <- enroll_id, calls <- AnyHostCall

(* The emulator keeps the promises of the blocking API (biometrics.h:487-698), on    *)
(* which SharedWorkflow relies: captures that sleep while others enroll, abort and   *)
(* delete never bring a template in or out.                                          *)
StoreContract == Library!Spec
-----------------------------------------------------------------------------
(***************************************************************************)
(* The inductive invariant behind the safety properties.                   *)
(***************************************************************************)

(* Captures are admitted one by one, each below the limit; those admitted may all  *)
(* still complete.                                                                 *)
SampleBudget ==
    samples + Cardinality(Capturing) <= Samples - 1 + Cardinality(Callers)

(* What is in the buffer was written for the enrollment that is open. *)
OwnSamples == \A i \in 0..(samples - 1) : temp[i] = enroll_id

(* Templates that are stored have an id. *)
EnrollmentHasId == enrolling => enroll_id # 0

IInv == TypeOK /\ CountIsExact /\ SampleBudget /\ OwnSamples /\ EnrollmentHasId /\ TemplateIsOwn
=============================================================================
