-------------------------------- MODULE ZFM ---------------------------------
(***************************************************************************)
(* The ZFM-x0 driver (biometrics_zfm_x0.c): staged enrollment and matching *)
(* share the sensor's image buffer and its two character buffers.  Every   *)
(* call holds the mutex from its first command to its last; an enrollment  *)
(* is several calls.                                                       *)
(*                                                                         *)
(* One action is one exchange of a call, answered in time or failed.  The  *)
(* sensor is external.  Calls refused at once are left out, and what no    *)
(* call reads again: template_count, led_state, the default timeout.       *)
(***************************************************************************)
EXTENDS Integers, FiniteSets

CONSTANTS Callers,       \* the threads that use the driver
          max_templates, \* library size, as read from the sensor
          MaxCount,      \* ids the caller of a listing has room for
          Fingers,       \* the fingers that may touch the sensor
          Scores,        \* how alike the sensor may find two of them
          Thresholds, Levels, \* what attr_set is given for these attributes
          Interleaved    \* whether matches are made while an enrollment is open

ASSUME ZFMAssumption ==
    /\ max_templates \in Nat \ {0} /\ MaxCount \in Nat
    /\ Interleaved \in BOOLEAN
    /\ Scores \subseteq Int /\ Thresholds \subseteq Int
    /\ Levels \subseteq 1 .. 10 /\ Levels # {}
    /\ "nobody" \notin Callers /\ "none" \notin Fingers

VARIABLES
    lock,                       \* who holds the mutex
    call, step,                 \* the API call of each thread and its next command
    enroll_state, enroll_id,    \* 0 idle, 1..2 the sample awaited, 3 ready
    last_match_id,
    match_threshold, security_level,    \* attributes
    out, ret,                   \* ids reported by the last call to end, and its result
    image,                      \* the sensor: the finger last imaged,
    buffer,                     \* the character files in its two buffers,
    db,                         \* its library, by 0-based index,
    level                       \* and its security level, 1..5

driverVars == <<enroll_state, enroll_id, last_match_id>>
attributeVars == <<match_threshold, security_level>>
fileVars == <<image, buffer, db>>
sensorVars == <<fileVars, level>>
vars == <<lock, call, step, driverVars, attributeVars, out, ret, sensorVars>>

Ids == 1 .. max_templates
Indices == 0 .. max_templates - 1

Idle == 0
Ready == 3

(* A character file: whose finger it is of, the enrollment it was captured for (0 *)
(* if it was not), and whether it is a model made of two samples.                 *)
NoFile == [finger |-> "none", id |-> 0, merged |-> FALSE]
Sample(finger, id) == [finger |-> finger, id |-> id, merged |-> FALSE]
Model(finger, id) == [finger |-> finger, id |-> id, merged |-> TRUE]

UINT16_MAX == 65535

(* Levels of the API, 1..10, and of the sensor. *)
Clamp(n, low, high) == IF n < low THEN low ELSE IF n > high THEN high ELSE n
SensorLevel(val) == Clamp((val + 1) \div 2, 1, 5)
ApiLevel(n) == n * 2

Matches == {"verify", "identify"}
Calls == [kind : {"verify", "template_delete"}, id : Ids]
         \cup [kind : {"security_level"}, id : Levels]
         \cup [kind : {"enroll_capture", "enroll_finalize", "identify", "led_control",
                       "template_delete_all", "template_list"}, id : {0}]
NoCall == [kind |-> "none", id |-> 0]

Init == /\ lock = "nobody"
        /\ call = [t \in Callers |-> NoCall]
        /\ step = [t \in Callers |-> "none"]
        /\ enroll_state = Idle /\ enroll_id = 0 /\ last_match_id = 0
        /\ match_threshold = 0
        /\ level \in {SensorLevel(val) : val \in Levels} /\ security_level = ApiLevel(level)
        /\ out = {}
        /\ ret = "OK"
        /\ image = "none"
        /\ buffer = [b \in 1..2 |-> NoFile]
        /\ \E found \in [Indices -> Fingers \cup {"none"}] :
            db = [i \in Indices |-> IF found[i] = "none" THEN NoFile ELSE Model(found[i], i + 1)]
-----------------------------------------------------------------------------
(***************************************************************************)
(* The sensor.                                                             *)
(***************************************************************************)

Stored == {i \in Indices : db[i] # NoFile}

(* The buffer of a sample.  Matching uses the first one, too. *)
BufferOf(c) == IF c.kind = "enroll_capture" /\ enroll_state = 2 THEN 2 ELSE 1

(* The sensor carries out the command.  Matching never confuses two fingers. *)
Carries(t) ==
    \/ /\ step[t] = "GET_IMAGE"
       /\ image' \in Fingers
       /\ UNCHANGED <<buffer, db>>
    \/ /\ step[t] = "IMG_2_TZ"
       /\ buffer' = [buffer EXCEPT ![BufferOf(call[t])] =
                        Sample(image, IF call[t].kind = "enroll_capture" THEN enroll_id ELSE 0)]
       /\ UNCHANGED <<image, db>>
    \/ /\ step[t] = "REG_MODEL"
       /\ buffer[1].finger = buffer[2].finger
       /\ buffer' = [b \in 1..2 |->
             Model(buffer[1].finger, IF buffer[1].id = buffer[2].id THEN buffer[1].id ELSE 0)]
       /\ UNCHANGED <<image, db>>
    \/ /\ step[t] = "STORE"
       /\ db' = [db EXCEPT ![enroll_id - 1] = buffer[1]]
       /\ UNCHANGED <<image, buffer>>
    \/ /\ step[t] = "LOAD" /\ call[t].id - 1 \in Stored
       /\ buffer' = [buffer EXCEPT ![2] = [db[call[t].id - 1] EXCEPT !.id = 0]]
       /\ UNCHANGED <<image, db>>
    \/ /\ step[t] = "MATCH" /\ buffer[1].finger = buffer[2].finger
       /\ UNCHANGED fileVars
    \/ /\ step[t] = "SEARCH" /\ \E i \in Stored : db[i].finger = buffer[1].finger
       /\ UNCHANGED fileVars
    \/ /\ step[t] = "DELETE"
       /\ db' = [db EXCEPT ![call[t].id - 1] = NoFile]
       /\ UNCHANGED <<image, buffer>>
    \/ /\ step[t] = "EMPTY"
       /\ db' = [i \in Indices |-> NoFile]
       /\ UNCHANGED <<image, buffer>>
    \/ /\ step[t] \in {"READ_INDEX", "SET_PARAM", "LED_CONFIG"}
       /\ UNCHANGED fileVars

Executes(t) ==
    /\ Carries(t)
    /\ level' = IF step[t] = "SET_PARAM" THEN SensorLevel(call[t].id) ELSE level

(* zfm_x0_err_to_errno() of the codes a command may be refused with. *)
Refused(t) == IF step[t] \in {"MATCH", "SEARCH"} THEN "ENOENT" ELSE "EIO"

(* The transmitter does not come to the end of the packet in time, or the packet is *)
(* lost.  A timeout becomes -EIO, too: the errno is converted again.                *)
NotSent(r) == r = "EIO" /\ UNCHANGED sensorVars

(* What has been received is too long, damaged, or not complete in time. *)
NotReceived(t, r) == r = "EIO" /\ Executes(t)

(* zfm_x0_transceive() *)
Exchange(t, r) ==
    \/ r = "OK" /\ Executes(t)
    \/ r = Refused(t) /\ UNCHANGED sensorVars
    \/ NotSent(r) \/ NotReceived(t, r)
-----------------------------------------------------------------------------
(***************************************************************************)
(* API calls.                                                              *)
(***************************************************************************)

(* Mutants: Bug_F is F with one plausible mistake. *)

(* The mutex is not taken. *)
Bug_LockFree == TRUE

LockFree == lock = "nobody"

FirstStep == [enroll_capture |-> "GET_IMAGE", enroll_finalize |-> "REG_MODEL",
              verify |-> "GET_IMAGE", identify |-> "GET_IMAGE",
              template_delete |-> "DELETE", template_delete_all |-> "EMPTY",
              template_list |-> "READ_INDEX",
              security_level |-> "SET_PARAM", led_control |-> "LED_CONFIG"]

(* Off by one: a single sample is enough. *)
Bug_Admitted(c) ==
    CASE c.kind = "enroll_capture" -> enroll_state \notin {Idle, Ready}
      [] c.kind = "enroll_finalize" -> enroll_state >= Ready - 1
      [] c.kind \in Matches -> Interleaved \/ enroll_state = Idle
      [] OTHER -> TRUE

Admitted(c) ==
    CASE c.kind = "enroll_capture" -> enroll_state \notin {Idle, Ready}
      [] c.kind = "enroll_finalize" -> enroll_state = Ready
      [] c.kind \in Matches -> Interleaved \/ enroll_state = Idle
      [] OTHER -> TRUE

Begin(t) ==
    /\ LockFree /\ step[t] = "none"
    /\ \E c \in Calls : /\ Admitted(c)
                       /\ call' = [call EXCEPT ![t] = c]
                       /\ step' = [step EXCEPT ![t] = FirstStep[c.kind]]
    /\ lock' = t
    /\ out' = {} /\ ret' = "OK"
    /\ UNCHANGED <<driverVars, attributeVars, sensorVars>>

(* Neither tells the sensor anything. *)
EnrollStart(t) ==
    /\ LockFree /\ step[t] = "none" /\ enroll_state = Idle
    /\ enroll_state' = 1
    /\ enroll_id' \in Ids
    /\ out' = {} /\ ret' = "OK"
    /\ UNCHANGED <<lock, call, step, last_match_id, attributeVars, sensorVars>>

(* It does not wait for the call that uses the enrollment. *)
Bug_EnrollAbort(t) ==
    /\ step[t] = "none" /\ enroll_state # Idle
    /\ enroll_state' = Idle
    /\ out' = {} /\ ret' = "OK"
    /\ UNCHANGED <<lock, call, step, enroll_id, last_match_id, attributeVars, sensorVars>>

EnrollAbort(t) ==
    /\ LockFree /\ step[t] = "none" /\ enroll_state # Idle
    /\ enroll_state' = Idle
    /\ out' = {} /\ ret' = "OK"
    /\ UNCHANGED <<lock, call, step, enroll_id, last_match_id, attributeVars, sensorVars>>

(* An attribute that the sensor does not know of. *)
AttrSet(t) ==
    /\ LockFree /\ step[t] = "none"
    /\ match_threshold' \in {val \in Thresholds : 0 <= val /\ val <= UINT16_MAX}
    /\ out' = {} /\ ret' = "OK"
    /\ UNCHANGED <<lock, call, step, driverVars, security_level, sensorVars>>

(* Of what it reads only the last match is an id. *)
AttrGet(t) ==
    /\ LockFree /\ step[t] = "none"
    /\ out' = {last_match_id} \ {0} /\ ret' = "OK"
    /\ UNCHANGED <<lock, call, step, driverVars, attributeVars, sensorVars>>

Return(t, r, ids) ==
    /\ ret' = r /\ out' = ids
    /\ lock' = "nobody"
    /\ step' = [step EXCEPT ![t] = "none"]
    /\ call' = [call EXCEPT ![t] = NoCall]

Continue(t, s) == step' = [step EXCEPT ![t] = s] /\ UNCHANGED <<lock, call, out, ret>>

(* zfm_x0_poll_finger(): a timeout of zero ends before the first command. *)
PollTimesOut(t) ==
    /\ step[t] = "GET_IMAGE"
    /\ Return(t, "ETIMEDOUT", {})
    /\ enroll_state' = IF call[t].kind = "enroll_capture" THEN Idle ELSE enroll_state
    /\ UNCHANGED <<enroll_id, last_match_id, attributeVars, sensorVars>>

(* A failed command ends its call, and the enrollment with it. *)
Fails(t, r) ==
    /\ r # "OK"
    /\ Return(t, r, {})
    /\ enroll_state' = IF call[t].kind \in {"enroll_capture", "enroll_finalize"}
                       THEN Idle ELSE enroll_state
    /\ UNCHANGED <<enroll_id, last_match_id, attributeVars>>

NextStep == [GET_IMAGE |-> "IMG_2_TZ", REG_MODEL |-> "STORE", LOAD |-> "MATCH"]

StepDone(t) ==
    /\ step[t] \in DOMAIN NextStep
    /\ Continue(t, NextStep[step[t]])
    /\ UNCHANGED driverVars

Converted(t) ==
    /\ step[t] = "IMG_2_TZ"
    /\ CASE call[t].kind = "enroll_capture" ->
                Return(t, "OK", {}) /\ enroll_state' = enroll_state + 1
         [] call[t].kind = "verify" -> Continue(t, "LOAD") /\ UNCHANGED enroll_state
         [] call[t].kind = "identify" -> Continue(t, "SEARCH") /\ UNCHANGED enroll_state
    /\ UNCHANGED <<enroll_id, last_match_id>>

EnrollStored(t) ==
    /\ step[t] = "STORE"
    /\ enroll_state' = Idle
    /\ Return(t, "OK", {})
    /\ UNCHANGED <<enroll_id, last_match_id>>

Enough(score) == score >= match_threshold

Verified(t) ==
    /\ step[t] = "MATCH" /\ \E score \in Scores : Enough(score)
    /\ Return(t, "OK", {call[t].id})
    /\ UNCHANGED driverVars

(* The id reported is the one kept for BIOMETRIC_ATTR_PRIV_START. *)
Identified(t) ==
    /\ step[t] = "SEARCH" /\ \E score \in Scores : Enough(score)
    /\ \E i \in Stored : db[i].finger = buffer[1].finger /\ last_match_id' = i + 1
    /\ Return(t, "OK", {last_match_id'})
    /\ UNCHANGED <<enroll_state, enroll_id>>

ScoreTooLow(t) ==
    /\ step[t] \in {"MATCH", "SEARCH"} /\ \E score \in Scores : ~Enough(score)
    /\ Return(t, "ENOENT", {})
    /\ UNCHANGED driverVars

Deleted(t) ==
    /\ step[t] \in {"DELETE", "EMPTY"}
    /\ Return(t, "OK", {})
    /\ UNCHANGED driverVars

(* The lowest MaxCount ids of the index, of its first page only. *)
Listed(t) ==
    /\ step[t] = "READ_INDEX"
    /\ LET listed == {i \in Stored : i < 256 /\ Cardinality({j \in Stored : j < i}) < MaxCount}
       IN  Return(t, "OK", {i + 1 : i \in listed})
    /\ UNCHANGED driverVars

LightSwitched(t) ==
    /\ step[t] = "LED_CONFIG"
    /\ Return(t, "OK", {})
    /\ UNCHANGED driverVars

(* The copy is what the sensor's level means to the API, not the value asked for. *)
LevelSet(t) ==
    /\ step[t] = "SET_PARAM"
    /\ security_level' = ApiLevel(SensorLevel(call[t].id))
    /\ Return(t, "OK", {})
    /\ UNCHANGED <<driverVars, match_threshold>>

Done(t) == \/ StepDone(t) \/ Converted(t) \/ EnrollStored(t) \/ Verified(t) \/ Identified(t)
           \/ ScoreTooLow(t) \/ Deleted(t) \/ Listed(t) \/ LightSwitched(t)

Proceed(t) ==
    \E r \in {"OK", "ENOENT", "EIO"} :
        /\ step[t] # "none" /\ Exchange(t, r)
        /\ \/ Fails(t, r)
           \/ r = "OK" /\ Done(t) /\ UNCHANGED attributeVars
           \/ r = "OK" /\ LevelSet(t)

Next == \E t \in Callers : \/ Begin(t) \/ EnrollStart(t) \/ EnrollAbort(t)
                           \/ AttrSet(t) \/ AttrGet(t) \/ PollTimesOut(t) \/ Proceed(t)

Spec == Init /\ [][Next]_vars
-----------------------------------------------------------------------------
(***************************************************************************)
(* Properties.                                                             *)
(***************************************************************************)

Files == [finger : Fingers \cup {"none"}, id : Ids \cup {0}, merged : BOOLEAN]

(* Every variable has the type of its counterpart; a thread inside a call holds the *)
(* mutex.                                                                           *)
TypeOK ==
    /\ lock \in Callers \cup {"nobody"}
    /\ call \in [Callers -> Calls \cup {NoCall}]
    /\ \A t \in Callers : /\ step[t] # "none" <=> lock = t
                          /\ step[t] = "none" <=> call[t] = NoCall
    /\ enroll_state \in Idle .. Ready
    /\ enroll_id \in Ids \cup {0} /\ last_match_id \in Ids \cup {0}
    /\ out \subseteq Ids
    /\ ret \in {"OK", "ENOENT", "EIO", "ETIMEDOUT"}
    /\ image \in Fingers \cup {"none"}
    /\ buffer \in [1..2 -> Files]
    /\ db \in [Indices -> Files]

(* A stored template is made of samples captured for its id.  The buffers they wait   *)
(* in survive failed commands, lost answers, aborts and restarts of an enrollment,    *)
(* but not a match: finalize "completes enrollment and stores the template"           *)
(* (biometrics.h:550) of "all required samples" (biometrics.h:520) only if nobody     *)
(* matches while an enrollment is open.                                               *)
StoredIsSampled == \A i \in Stored : db[i].id = i + 1

(* Only a merged model is stored: the sensor refuses to merge samples of two fingers, *)
(* and a refusal must not leave a single sample in the library.                       *)
StoredIsMerged == \A i \in Stored : db[i].merged

(* A match that returned 0 reported a template of the finger that was imaged for it,  *)
(* though other threads use the same buffers.                                         *)
MatchIsReal ==
    [][\A t \in Callers :
        call[t].kind \in Matches /\ step[t] # "none" /\ step'[t] = "none" /\ ret' = "OK"
            => \A id \in out' : db[id - 1].finger = image]_vars

Library == INSTANCE BiometricStore
            WITH db <- {i + 1 : i \in Stored}, open <- enroll_state # Idle,
                 template_id <- enroll_id, calls <- {call[t] : t \in Callers}

(* The driver keeps the promises of the blocking API (biometrics.h:487-698), on which *)
(* SharedWorkflow relies: though commands are lost with or without their effect, and  *)
(* other threads abort and restart the enrollment, the library changes only under the *)
(* call that asked for it.                                                            *)
StoreContract == Library!Spec
-----------------------------------------------------------------------------
(***************************************************************************)
(* The inductive invariant.  What the buffers hold is known only relative  *)
(* to the step of the thread that holds the mutex and to enroll_state.     *)
(***************************************************************************)

CallSteps == [none |-> {"none"},
              enroll_capture |-> {"GET_IMAGE", "IMG_2_TZ"},
              enroll_finalize |-> {"REG_MODEL", "STORE"},
              verify |-> {"GET_IMAGE", "IMG_2_TZ", "LOAD", "MATCH"},
              identify |-> {"GET_IMAGE", "IMG_2_TZ", "SEARCH"},
              template_delete |-> {"DELETE"},
              template_delete_all |-> {"EMPTY"},
              template_list |-> {"READ_INDEX"},
              security_level |-> {"SET_PARAM"},
              led_control |-> {"LED_CONFIG"}]

Steps == UNION {CallSteps[k] : k \in DOMAIN CallSteps}

(* A thread is at a step of the call it is in. *)
StepsOfCall == /\ step \in [Callers -> Steps]
               /\ \A t \in Callers : step[t] \in CallSteps[call[t].kind]

(* The stage that admitted a call lasts until the call ends. *)
StagesLast ==
    /\ enroll_state # Idle => enroll_id \in Ids
    /\ \A t \in Callers :
        /\ call[t].kind = "enroll_capture" => enroll_state \in 1..2
        /\ call[t].kind = "enroll_finalize" => enroll_state = Ready
        /\ call[t].kind \in Matches => Interleaved \/ enroll_state = Idle

(* An open enrollment finds its samples where it left them, unless there are matches. *)
SamplesKept ==
    ~Interleaved => /\ enroll_state \in 2..3 => buffer[1].id = enroll_id
                    /\ enroll_state = Ready => buffer[2].id = enroll_id

(* What a call has put in the buffers is still there when it uses it. *)
BuffersOfCall ==
    \A t \in Callers :
        /\ step[t] = "STORE" => buffer[1].merged
        /\ step[t] \in {"LOAD", "MATCH", "SEARCH"} => buffer[1].finger = image
        /\ step[t] = "MATCH" => buffer[2].finger = db[call[t].id - 1].finger

(* The driver knows the level its sensor works with unless setting it has failed, in *)
(* which case the sensor may have changed it all the same: a level that was set is   *)
(* the one that attr_get reads, though the sensor has only five for the ten of the   *)
(* API (biometrics.h:74), and no other call disturbs it.                             *)
LevelKnown ==
    [][security_level = ApiLevel(level) \/ security_level' # security_level
         => security_level' = ApiLevel(level') \/ ret' = "EIO"]_vars

(* Attributes keep within their range. *)
AttributesOK == /\ match_threshold \in 0 .. UINT16_MAX
                /\ level \in 1 .. 5 /\ security_level \in {2, 4, 6, 8, 10}

(* With it the safety properties hold for every instance: see ZFMProofs. *)
IInv == /\ TypeOK /\ StepsOfCall /\ StagesLast
        /\ SamplesKept /\ BuffersOfCall
        /\ ~Interleaved => StoredIsSampled
        /\ StoredIsMerged
=============================================================================
