----------------------------- MODULE ZFMProofs ------------------------------
(***************************************************************************)
(* Proofs about the ZFM-x0 driver, for any number of callers, any library  *)
(* size and any set of fingers: what is stored was captured for its id if  *)
(* nobody matches while an enrollment is open, only models are stored, and *)
(* a match that succeeds is of the finger that was imaged.                 *)
(***************************************************************************)
EXTENDS ZFM, TLAPS

LEMMA InitInv == Init => IInv
  <1>. SUFFICES ASSUME Init PROVE IInv
    OBVIOUS
  <1>. PICK found \in [Indices -> Fingers \cup {"none"}] :
         db = [i \in Indices |-> IF found[i] = "none" THEN NoFile ELSE Model(found[i], i + 1)]
    BY DEF Init
  <1>1. db \in [Indices -> Files]
    BY ZFMAssumption DEF ZFMAssumption, Indices, Ids, Files, NoFile, Model
  <1>2. TypeOK
    BY <1>1, ZFMAssumption
    DEF ZFMAssumption, Init, TypeOK, Files, NoFile, Idle, Ready
  <1>3. StepsOfCall
    BY DEF Init, StepsOfCall, Steps, CallSteps, NoCall
  <1>4. StagesLast /\ SamplesKept /\ BuffersOfCall
    BY DEF Init, StagesLast, SamplesKept, BuffersOfCall, Idle, Ready, NoCall, Matches
  <1>5. StoredIsSampled /\ StoredIsMerged
    BY DEF StoredIsSampled, StoredIsMerged, Stored, NoFile, Model
  <1>. QED
    BY <1>2, <1>3, <1>4, <1>5 DEF IInv

(* A thread at a step of a call is the only one. *)
LEMMA Alone ==
  ASSUME IInv, NEW t \in Callers, step[t] # "none", NEW s \in Callers, s # t
  PROVE  step[s] = "none" /\ call[s] = NoCall
  BY DEF IInv, TypeOK

(* Which call a thread is in follows from its step. *)
LEMMA CallOfStep ==
  ASSUME IInv, NEW t \in Callers
  PROVE  /\ call[t] \in Calls \cup {NoCall}
         /\ step[t] \in Steps
         /\ step[t] \in {"GET_IMAGE", "IMG_2_TZ"}
              => call[t].kind \in {"enroll_capture", "verify", "identify"}
         /\ step[t] \in {"REG_MODEL", "STORE"} => call[t].kind = "enroll_finalize"
         /\ step[t] \in {"LOAD", "MATCH"} => call[t].kind = "verify" /\ call[t].id \in Ids
         /\ step[t] = "SEARCH" => call[t].kind = "identify"
         /\ step[t] = "DELETE" => call[t].kind = "template_delete" /\ call[t].id \in Ids
         /\ step[t] = "EMPTY" => call[t].kind = "template_delete_all"
         /\ step[t] = "READ_INDEX" => call[t].kind = "template_list"
         /\ step[t] = "SET_PARAM" => call[t].kind = "security_level" /\ call[t].id \in Levels
         /\ step[t] = "LED_CONFIG" => call[t].kind = "led_control"
  <1>1. call[t] \in Calls \cup {NoCall} /\ step[t] \in Steps /\ step[t] \in CallSteps[call[t].kind]
    BY DEF IInv, TypeOK, StepsOfCall
  <1>. QED
    BY <1>1 DEF Calls, NoCall, CallSteps

(* A command that is executed leaves a sensor whose templates are as they should be. *)
LEMMA ExecutedSensor ==
  ASSUME IInv, NEW t \in Callers, step[t] # "none", Executes(t)
  PROVE  /\ image' \in Fingers \cup {"none"}
         /\ buffer' \in [1..2 -> Files]
         /\ db' \in [Indices -> Files]
         /\ ~Interleaved => StoredIsSampled'
         /\ StoredIsMerged'
  <1>0. /\ image \in Fingers \cup {"none"}
        /\ buffer \in [1..2 -> Files]
        /\ db \in [Indices -> Files]
        /\ enroll_id \in Ids \cup {0}
        /\ ~Interleaved => StoredIsSampled
        /\ StoredIsMerged
    BY DEF IInv, TypeOK
  <1>1. ASSUME UNCHANGED db
        PROVE  /\ db' \in [Indices -> Files]
               /\ ~Interleaved => StoredIsSampled'
               /\ StoredIsMerged'
    BY <1>0, <1>1 DEF StoredIsSampled, StoredIsMerged, Stored
  <1>2. CASE step[t] = "GET_IMAGE"
    BY <1>0, <1>1, <1>2 DEF Executes, Carries
  <1>3. CASE step[t] = "IMG_2_TZ"
    <2>1. BufferOf(call[t]) \in 1..2
      BY DEF BufferOf
    <2>2. Sample(image, IF call[t].kind = "enroll_capture" THEN enroll_id ELSE 0) \in Files
      BY <1>0 DEF Sample, Files
    <2>. QED
      BY <1>0, <1>1, <1>3, <2>1, <2>2 DEF Executes, Carries
  <1>4. CASE step[t] = "REG_MODEL"
    <2>1. Model(buffer[1].finger, IF buffer[1].id = buffer[2].id THEN buffer[1].id ELSE 0) \in Files
      BY <1>0 DEF Model, Files
    <2>. QED
      BY <1>0, <1>1, <1>4, <2>1 DEF Executes, Carries
  <1>5. CASE step[t] = "STORE"
    <2>1. enroll_state = Ready /\ enroll_id \in Ids /\ buffer[1].merged
      BY <1>5, CallOfStep DEF IInv, StagesLast, BuffersOfCall, Ready, Idle
    <2>2. enroll_id - 1 \in Indices /\ (enroll_id - 1) + 1 = enroll_id
      BY <2>1, ZFMAssumption DEF ZFMAssumption, Ids, Indices
    <2>3. /\ db' = [db EXCEPT ![enroll_id - 1] = buffer[1]]
          /\ image' = image /\ buffer' = buffer
      BY <1>5 DEF Executes, Carries
    <2>4. ~Interleaved => buffer[1].id = enroll_id
      BY <2>1 DEF IInv, SamplesKept, Ready
    <2>. QED
      BY <1>0, <2>1, <2>2, <2>3, <2>4 DEF StoredIsSampled, StoredIsMerged, Stored
  <1>6. CASE step[t] = "LOAD"
    <2>1. call[t].id - 1 \in Indices
      BY <1>6, CallOfStep, ZFMAssumption DEF ZFMAssumption, Ids, Indices
    <2>2. [db[call[t].id - 1] EXCEPT !.id = 0] \in Files
      BY <1>0, <2>1 DEF Files
    <2>. QED
      BY <1>0, <1>1, <1>6, <2>2 DEF Executes, Carries
  <1>7. CASE step[t] \in {"MATCH", "SEARCH", "READ_INDEX", "SET_PARAM", "LED_CONFIG"}
    BY <1>0, <1>1, <1>7 DEF Executes, Carries, sensorVars, fileVars
  <1>8. CASE step[t] \in {"DELETE", "EMPTY"}
    <2>1. NoFile \in Files
      BY DEF NoFile, Files
    <2>. QED
      BY <1>0, <1>8, <2>1 DEF Executes, Carries, StoredIsSampled, StoredIsMerged, Stored
  <1>. QED
    BY <1>2, <1>3, <1>4, <1>5, <1>6, <1>7, <1>8 DEF Executes, Carries

(* So does every exchange; one that is refused changes nothing. *)
LEMMA SensorAfter ==
  ASSUME IInv, NEW t \in Callers, step[t] # "none", NEW r, Exchange(t, r)
  PROVE  /\ image' \in Fingers \cup {"none"}
         /\ buffer' \in [1..2 -> Files]
         /\ db' \in [Indices -> Files]
         /\ ~Interleaved => StoredIsSampled'
         /\ StoredIsMerged'
  <1>1. CASE Executes(t)
    BY <1>1, ExecutedSensor
  <1>2. CASE UNCHANGED sensorVars
    BY <1>2 DEF IInv, TypeOK, sensorVars, fileVars, StoredIsSampled, StoredIsMerged, Stored
  <1>. QED
    BY <1>1, <1>2 DEF Exchange, NotSent, NotReceived

(* A call that returns leaves the invariant to the stage and the samples it leaves. *)
LEMMA ReturnInv ==
  ASSUME IInv, NEW t \in Callers, step[t] # "none",
         NEW r \in {"OK", "ENOENT", "EIO", "ETIMEDOUT"}, NEW ids \in SUBSET Ids,
         Return(t, r, ids), UNCHANGED enroll_id,
         enroll_state' \in Idle .. Ready,
         enroll_state' # Idle => enroll_id \in Ids,
         last_match_id' \in Ids \cup {0},
         image' \in Fingers \cup {"none"},
         buffer' \in [1..2 -> Files],
         db' \in [Indices -> Files],
         SamplesKept',
         ~Interleaved => StoredIsSampled',
         StoredIsMerged'
  PROVE  IInv'
  <1>1. \A s \in Callers : step'[s] = "none" /\ call'[s] = NoCall
    BY Alone DEF Return, IInv, TypeOK, StepsOfCall
  <1>2. TypeOK'
    BY <1>1, ZFMAssumption DEF ZFMAssumption, Return, IInv, TypeOK
  <1>3. StepsOfCall'
    BY <1>1 DEF Return, IInv, StepsOfCall, Steps, CallSteps, NoCall
  <1>4. StagesLast' /\ BuffersOfCall'
    BY <1>1 DEF StagesLast, BuffersOfCall, NoCall, Matches
  <1>. QED
    BY <1>2, <1>3, <1>4 DEF IInv

(* A call that goes on has put in the buffers what its next command needs. *)
LEMMA ContinueInv ==
  ASSUME IInv, NEW t \in Callers, step[t] # "none",
         NEW s \in CallSteps[call[t].kind], s \in Steps \ {"none"},
         Continue(t, s), UNCHANGED driverVars,
         image' \in Fingers \cup {"none"},
         buffer' \in [1..2 -> Files],
         db' \in [Indices -> Files],
         SamplesKept',
         ~Interleaved => StoredIsSampled',
         StoredIsMerged',
         s = "STORE" => buffer'[1].merged,
         s \in {"LOAD", "MATCH", "SEARCH"} => buffer'[1].finger = image',
         s = "MATCH" => buffer'[2].finger = db'[call[t].id - 1].finger
  PROVE  IInv'
  <1>1. /\ call' = call /\ lock' = lock /\ out' = out /\ ret' = ret
        /\ enroll_state' = enroll_state /\ enroll_id' = enroll_id
        /\ last_match_id' = last_match_id
        /\ step' = [step EXCEPT ![t] = s]
    BY DEF Continue, driverVars, attributeVars
  <1>2. step'[t] = s /\ \A u \in Callers \ {t} : step'[u] = "none" /\ call[u] = NoCall
    BY <1>1, Alone DEF IInv, StepsOfCall
  <1>3. TypeOK'
    BY <1>1, <1>2 DEF IInv, TypeOK
  <1>4. StepsOfCall'
    BY <1>1, <1>2 DEF IInv, StepsOfCall
  <1>5. StagesLast'
    BY <1>1 DEF IInv, StagesLast
  <1>6. BuffersOfCall'
    BY <1>1, <1>2 DEF BuffersOfCall
  <1>. QED
    BY <1>3, <1>4, <1>5, <1>6 DEF IInv

(* A command that fails. *)
LEMMA FailsInv ==
  ASSUME IInv, NEW t \in Callers, step[t] # "none",
         NEW r \in {"OK", "ENOENT", "EIO"}, Exchange(t, r), Fails(t, r)
  PROVE  IInv'
  <1>1. /\ Return(t, r, {}) /\ UNCHANGED <<enroll_id, last_match_id>>
        /\ enroll_state' = IF call[t].kind \in {"enroll_capture", "enroll_finalize"}
                           THEN Idle ELSE enroll_state
    BY DEF Fails
  <1>2. /\ enroll_state \in Idle .. Ready
        /\ enroll_state # Idle => enroll_id \in Ids
        /\ last_match_id \in Ids \cup {0}
    BY DEF IInv, TypeOK, StagesLast
  <1>3. SamplesKept'
    <2>. SUFFICES ASSUME ~Interleaved, enroll_state' # Idle
                  PROVE  /\ enroll_state' \in 2..3 => buffer'[1].id = enroll_id'
                         /\ enroll_state' = Ready => buffer'[2].id = enroll_id'
      BY DEF SamplesKept, Idle, Ready
    <2>1. call[t].kind \notin {"enroll_capture", "enroll_finalize"} /\ enroll_state' = enroll_state
      BY <1>1
    <2>2. call[t].kind \notin Matches
      BY <2>1 DEF IInv, StagesLast
    <2>3. step[t] \in {"DELETE", "EMPTY", "READ_INDEX", "SET_PARAM", "LED_CONFIG"}
      BY <2>1, <2>2, CallOfStep DEF Matches, Steps, CallSteps
    <2>4. buffer' = buffer
      BY <2>3 DEF Exchange, NotSent, NotReceived, Executes, Carries, sensorVars, fileVars
    <2>. QED
      BY <1>1, <2>1, <2>4 DEF IInv, SamplesKept
  <1>4. /\ enroll_state' \in Idle .. Ready
        /\ enroll_state' # Idle => enroll_id \in Ids
        /\ last_match_id' \in Ids \cup {0}
        /\ {} \in SUBSET Ids /\ r \in {"OK", "ENOENT", "EIO", "ETIMEDOUT"}
        /\ UNCHANGED enroll_id
    <2>1. enroll_state' = Idle \/ enroll_state' = enroll_state
      BY <1>1
    <2>2. Idle \in Idle .. Ready
      BY DEF Idle, Ready
    <2>. QED
      BY <1>1, <1>2, <2>1, <2>2
  <1>5. /\ image' \in Fingers \cup {"none"}
        /\ buffer' \in [1..2 -> Files]
        /\ db' \in [Indices -> Files]
        /\ ~Interleaved => StoredIsSampled'
        /\ StoredIsMerged'
    BY SensorAfter
  <1>. QED
    BY <1>1, <1>3, <1>4, <1>5, ReturnInv

(* A command that is executed and leads to another one of the same call. *)
LEMMA StepDoneInv ==
  ASSUME IInv, NEW t \in Callers, step[t] # "none", Executes(t), StepDone(t)
  PROVE  IInv'
  <1>. DEFINE s == NextStep[step[t]]
  <1>1. Continue(t, s) /\ UNCHANGED driverVars /\ step[t] \in {"GET_IMAGE", "REG_MODEL", "LOAD"}
    BY DEF StepDone, NextStep
  <1>2. s \in CallSteps[call[t].kind] /\ s \in Steps \ {"none"}
    <2>1. step[t] \in CallSteps[call[t].kind] /\ call[t].kind \in DOMAIN CallSteps
      BY CallOfStep DEF IInv, StepsOfCall, Calls, NoCall, CallSteps
    <2>2. s \in CallSteps[call[t].kind] /\ s # "none"
      BY <1>1, <2>1 DEF NextStep, CallSteps
    <2>. QED
      BY <2>1, <2>2 DEF Steps
  <1>3. UNCHANGED <<enroll_state, enroll_id>>
    BY <1>1 DEF driverVars, attributeVars
  <1>4. buffer \in [1..2 -> Files] /\ enroll_state \in Idle .. Ready
    BY DEF IInv, TypeOK
  <1>5. /\ SamplesKept'
        /\ s = "STORE" => buffer'[1].merged
        /\ s \in {"LOAD", "MATCH", "SEARCH"} => buffer'[1].finger = image'
        /\ s = "MATCH" => buffer'[2].finger = db'[call[t].id - 1].finger
    <2>1. CASE step[t] = "GET_IMAGE"
      BY <1>3, <2>1 DEF Executes, Carries, NextStep, IInv, SamplesKept
    <2>2. CASE step[t] = "REG_MODEL"
      <3>1. enroll_state = Ready
        BY <2>2, CallOfStep DEF IInv, StagesLast
      <3>2. ~Interleaved => buffer[1].id = enroll_id /\ buffer[2].id = enroll_id
        BY <3>1 DEF IInv, SamplesKept, Ready
      <3>. QED
        BY <1>3, <2>2, <3>2 DEF Executes, Carries, NextStep, SamplesKept, Model
    <2>3. CASE step[t] = "LOAD"
      <3>1. ~Interleaved => enroll_state = Idle
        BY <2>3, CallOfStep DEF IInv, StagesLast, Matches
      <3>2. call[t].id - 1 \in Indices
        BY <2>3, CallOfStep, ZFMAssumption DEF ZFMAssumption, Ids, Indices
      <3>3. buffer[1].finger = image
        BY <2>3 DEF IInv, BuffersOfCall
      <3>4. /\ buffer' = [buffer EXCEPT ![2] = [db[call[t].id - 1] EXCEPT !.id = 0]]
            /\ image' = image /\ db' = db
        BY <2>3 DEF Executes, Carries
      <3>5. SamplesKept'
        BY <1>3, <3>1 DEF SamplesKept, Idle, Ready
      <3>6. db[call[t].id - 1] \in Files
        BY <3>2 DEF IInv, TypeOK
      <3>. QED
        BY <1>4, <2>3, <3>3, <3>4, <3>5, <3>6 DEF NextStep, Files
    <2>. QED
      BY <1>1, <2>1, <2>2, <2>3
  <1>. HIDE DEF s
  <1>6. /\ image' \in Fingers \cup {"none"}
        /\ buffer' \in [1..2 -> Files]
        /\ db' \in [Indices -> Files]
        /\ ~Interleaved => StoredIsSampled'
        /\ StoredIsMerged'
    BY ExecutedSensor
  <1>. QED
    BY <1>1, <1>2, <1>5, <1>6, ContinueInv

(* An image becomes a character file: a sample, or what a match compares. *)
LEMMA ConvertedInv ==
  ASSUME IInv, NEW t \in Callers, step[t] # "none", Executes(t), Converted(t)
  PROVE  IInv'
  <1>1. step[t] = "IMG_2_TZ" /\ UNCHANGED <<enroll_id, last_match_id>>
    BY DEF Converted
  <1>2. /\ buffer \in [1..2 -> Files] /\ enroll_state \in Idle .. Ready
        /\ last_match_id \in Ids \cup {0}
    BY DEF IInv, TypeOK
  <1>3. /\ buffer' = [buffer EXCEPT ![BufferOf(call[t])] =
              Sample(image, IF call[t].kind = "enroll_capture" THEN enroll_id ELSE 0)]
        /\ image' = image /\ db' = db
    BY <1>1 DEF Executes, Carries
  <1>4. /\ image' \in Fingers \cup {"none"}
        /\ buffer' \in [1..2 -> Files]
        /\ db' \in [Indices -> Files]
        /\ ~Interleaved => StoredIsSampled'
        /\ StoredIsMerged'
    BY ExecutedSensor
  <1>5. CASE call[t].kind = "enroll_capture"
    <2>1. enroll_state \in 1..2 /\ enroll_id \in Ids
      BY <1>5 DEF IInv, StagesLast, Idle
    <2>2. Return(t, "OK", {}) /\ enroll_state' = enroll_state + 1
      BY <1>5 DEF Converted
    <2>3. SamplesKept'
      BY <1>1, <1>2, <1>3, <1>5, <2>1, <2>2
      DEF IInv, SamplesKept, BufferOf, Sample, Ready
    <2>4. /\ enroll_state' \in Idle .. Ready
          /\ enroll_state' # Idle => enroll_id \in Ids
          /\ last_match_id' \in Ids \cup {0} /\ UNCHANGED enroll_id
          /\ {} \in SUBSET Ids /\ "OK" \in {"OK", "ENOENT", "EIO", "ETIMEDOUT"}
      BY <1>1, <1>2, <2>1, <2>2 DEF Idle, Ready
    <2>. QED
      BY <1>4, <2>2, <2>3, <2>4, ReturnInv
  <1>6. CASE call[t].kind \in Matches
    <2>. DEFINE s == IF call[t].kind = "verify" THEN "LOAD" ELSE "SEARCH"
    <2>1. Continue(t, s) /\ UNCHANGED driverVars
      BY <1>6 DEF Converted, Matches, driverVars, attributeVars
    <2>2. s \in CallSteps[call[t].kind] /\ s \in Steps \ {"none"} /\ s # "STORE" /\ s # "MATCH"
      BY <1>6 DEF Matches, CallSteps, Steps
    <2>3. SamplesKept'
      BY <1>1, <1>6, <2>1 DEF IInv, StagesLast, SamplesKept, driverVars, attributeVars, Idle, Ready
    <2>4. buffer'[1].finger = image'
      BY <1>2, <1>3, <1>6 DEF BufferOf, Sample, Matches
    <2>. HIDE DEF s
    <2>. QED
      BY <1>4, <2>1, <2>2, <2>3, <2>4, ContinueInv
  <1>. QED
    BY <1>1, <1>5, <1>6, CallOfStep DEF Matches

(* The last command of a call. *)
LEMMA LastStepInv ==
  ASSUME IInv, NEW t \in Callers, step[t] # "none", Executes(t),
         EnrollStored(t) \/ Verified(t) \/ Identified(t) \/ ScoreTooLow(t)
           \/ Deleted(t) \/ Listed(t) \/ LightSwitched(t) \/ LevelSet(t)
  PROVE  IInv'
  <1>1. /\ enroll_state \in Idle .. Ready
        /\ enroll_state # Idle => enroll_id \in Ids
        /\ last_match_id \in Ids \cup {0}
    BY DEF IInv, TypeOK, StagesLast
  <1>2. /\ image' \in Fingers \cup {"none"}
        /\ buffer' \in [1..2 -> Files]
        /\ db' \in [Indices -> Files]
        /\ ~Interleaved => StoredIsSampled'
        /\ StoredIsMerged'
    BY ExecutedSensor
  <1>3. \A i \in Indices : i + 1 \in Ids
    BY ZFMAssumption DEF ZFMAssumption, Indices, Ids
  <1>4. step[t] \in {"STORE", "MATCH", "SEARCH", "DELETE", "EMPTY", "READ_INDEX",
                      "SET_PARAM", "LED_CONFIG"}
    BY DEF EnrollStored, Verified, Identified, ScoreTooLow, Deleted, Listed, LightSwitched,
           LevelSet
  <1>5. buffer' = buffer
    BY <1>4 DEF Executes, Carries, sensorVars, fileVars
  <1>6. \E r \in {"OK", "ENOENT", "EIO", "ETIMEDOUT"}, ids \in SUBSET Ids : Return(t, r, ids)
    <2>1. CASE EnrollStored(t) \/ Deleted(t) \/ LightSwitched(t) \/ LevelSet(t)
      BY <2>1 DEF EnrollStored, Deleted, LightSwitched, LevelSet
    <2>2. CASE Verified(t)
      <3>1. call[t].id \in Ids
        BY <2>2, CallOfStep DEF Verified
      <3>. QED
        BY <2>2, <3>1 DEF Verified
    <2>3. CASE Identified(t)
      <3>1. last_match_id' \in Ids /\ Return(t, "OK", {last_match_id'})
        BY <2>3, <1>3 DEF Identified, Stored
      <3>. QED
        BY <3>1
    <2>4. CASE ScoreTooLow(t)
      BY <2>4 DEF ScoreTooLow
    <2>5. CASE Listed(t)
      <3>. PICK ids : ids \in SUBSET Ids /\ Return(t, "OK", ids)
        BY <2>5, <1>3 DEF Listed, Stored
      <3>. QED
        OBVIOUS
    <2>. QED
      BY <2>1, <2>2, <2>3, <2>4, <2>5
  <1>7. /\ UNCHANGED enroll_id
        /\ enroll_state' = Idle \/ enroll_state' = enroll_state
        /\ last_match_id' \in Ids \cup {0}
    BY <1>1, <1>3
    DEF EnrollStored, Verified, Identified, ScoreTooLow, Deleted, Listed, LightSwitched,
        LevelSet, driverVars, Stored
  <1>8. /\ enroll_state' \in Idle .. Ready
        /\ enroll_state' # Idle => enroll_id \in Ids
    <2>1. Idle \in Idle .. Ready
      BY DEF Idle, Ready
    <2>. QED
      BY <1>1, <1>7, <2>1
  <1>9. SamplesKept'
    BY <1>5, <1>7 DEF IInv, SamplesKept, Idle, Ready
  <1>. QED
    BY <1>2, <1>6, <1>7, <1>8, <1>9, ReturnInv

LEMMA ProceedInv ==
  ASSUME IInv, NEW t \in Callers, Proceed(t)
  PROVE  IInv'
  <1>. PICK r \in {"OK", "ENOENT", "EIO"} :
         /\ step[t] # "none" /\ Exchange(t, r)
         /\ Fails(t, r) \/ (r = "OK" /\ (Done(t) \/ LevelSet(t)))
    BY DEF Proceed
  <1>1. CASE Fails(t, r)
    BY <1>1, FailsInv
  <1>2. CASE r = "OK" /\ (Done(t) \/ LevelSet(t))
    <2>1. Executes(t)
      BY <1>2 DEF Exchange, NotSent, NotReceived, Refused
    <2>. QED
      BY <1>2, <2>1, StepDoneInv, ConvertedInv, LastStepInv DEF Done
  <1>. QED
    BY <1>1, <1>2

(* The wait for a finger ends a capture, or a match, before its first command. *)
LEMMA PollTimesOutInv ==
  ASSUME IInv, NEW t \in Callers, PollTimesOut(t)
  PROVE  IInv'
  <1>1. /\ step[t] = "GET_IMAGE" /\ Return(t, "ETIMEDOUT", {})
        /\ UNCHANGED <<enroll_id, last_match_id, image, buffer, db>>
        /\ enroll_state' = Idle \/ enroll_state' = enroll_state
    BY DEF PollTimesOut, sensorVars, fileVars
  <1>2. /\ Idle \in Idle .. Ready
        /\ enroll_state \in Idle .. Ready
        /\ enroll_state # Idle => enroll_id \in Ids
    BY DEF IInv, TypeOK, StagesLast, Idle, Ready
  <1>3. SamplesKept'
    BY <1>1 DEF IInv, SamplesKept, Idle, Ready
  <1>4. /\ last_match_id' \in Ids \cup {0}
        /\ image' \in Fingers \cup {"none"}
        /\ buffer' \in [1..2 -> Files]
        /\ db' \in [Indices -> Files]
        /\ ~Interleaved => StoredIsSampled'
        /\ StoredIsMerged'
    BY <1>1 DEF IInv, TypeOK, StoredIsSampled, StoredIsMerged, Stored
  <1>5. /\ enroll_state' \in Idle .. Ready
        /\ enroll_state' # Idle => enroll_id \in Ids
        /\ step[t] # "none" /\ UNCHANGED enroll_id
        /\ {} \in SUBSET Ids /\ "ETIMEDOUT" \in {"OK", "ENOENT", "EIO", "ETIMEDOUT"}
    BY <1>1, <1>2
  <1>. QED
    BY <1>1, <1>3, <1>4, <1>5, ReturnInv

(* Nobody is in a call while the mutex is free. *)
LEMMA NobodyInside ==
  ASSUME IInv, LockFree
  PROVE  \A s \in Callers : step[s] = "none" /\ call[s] = NoCall
  BY ZFMAssumption DEF ZFMAssumption, IInv, TypeOK, LockFree

LEMMA BeginInv ==
  ASSUME IInv, NEW t \in Callers, Begin(t)
  PROVE  IInv'
  <1>. PICK c \in Calls : /\ Admitted(c)
                          /\ call' = [call EXCEPT ![t] = c]
                          /\ step' = [step EXCEPT ![t] = FirstStep[c.kind]]
    BY DEF Begin
  <1>1. /\ LockFree /\ lock' = t /\ out' = {} /\ ret' = "OK"
        /\ UNCHANGED <<enroll_state, enroll_id, last_match_id, image, buffer, db>>
    BY DEF Begin, driverVars, attributeVars, sensorVars, fileVars
  <1>2. \A s \in Callers : step[s] = "none" /\ call[s] = NoCall
    BY <1>1, NobodyInside
  <1>3. /\ FirstStep[c.kind] \in CallSteps[c.kind]
        /\ FirstStep[c.kind] \in Steps \ {"none"}
        /\ FirstStep[c.kind] \notin {"STORE", "LOAD", "MATCH", "SEARCH"}
        /\ c # NoCall
    <2>1. c.kind \in DOMAIN FirstStep /\ c.kind \in DOMAIN CallSteps /\ c # NoCall
      BY DEF Calls, FirstStep, CallSteps, NoCall
    <2>2. FirstStep[c.kind] \in CallSteps[c.kind]
      BY <2>1 DEF FirstStep, CallSteps
    <2>. QED
      BY <2>1, <2>2 DEF FirstStep, Steps
  <1>4. /\ call'[t] = c /\ step'[t] = FirstStep[c.kind]
        /\ \A s \in Callers \ {t} : step'[s] = "none" /\ call'[s] = NoCall
    BY <1>2 DEF IInv, TypeOK, StepsOfCall
  <1>5. TypeOK'
    BY <1>1, <1>3, <1>4 DEF IInv, TypeOK
  <1>6. StepsOfCall'
    BY <1>3, <1>4 DEF IInv, StepsOfCall, CallSteps, NoCall
  <1>7. StagesLast'
    <2>1. /\ c.kind = "enroll_capture" => enroll_state \in 1..2
          /\ c.kind = "enroll_finalize" => enroll_state = Ready
          /\ c.kind \in Matches => Interleaved \/ enroll_state = Idle
      BY DEF Admitted, Matches, IInv, TypeOK, Idle, Ready
    <2>. QED
      BY <1>1, <1>4, <2>1 DEF IInv, StagesLast, NoCall, Matches
  <1>8. BuffersOfCall'
    BY <1>3, <1>4 DEF BuffersOfCall
  <1>9. SamplesKept' /\ (~Interleaved => StoredIsSampled') /\ StoredIsMerged'
    BY <1>1 DEF IInv, SamplesKept, StoredIsSampled, StoredIsMerged, Stored
  <1>. QED
    BY <1>5, <1>6, <1>7, <1>8, <1>9 DEF IInv

(* Opening or aborting an enrollment forgets the samples. *)
LEMMA EnrollStartAbortInv ==
  ASSUME IInv, NEW t \in Callers, EnrollStart(t) \/ EnrollAbort(t)
  PROVE  IInv'
  <1>1. /\ LockFree /\ enroll_state' \in 0..1 /\ enroll_id' \in Ids \cup {0}
        /\ enroll_state' # Idle => enroll_id' \in Ids
        /\ out' = {} /\ ret' = "OK"
        /\ UNCHANGED <<lock, call, step, last_match_id, image, buffer, db>>
    BY DEF EnrollStart, EnrollAbort, sensorVars, fileVars, IInv, TypeOK, Idle
  <1>2. \A s \in Callers : step[s] = "none" /\ call[s] = NoCall
    BY <1>1, NobodyInside
  <1>3. TypeOK' /\ StepsOfCall'
    BY <1>1 DEF IInv, TypeOK, StepsOfCall, Idle, Ready
  <1>4. StagesLast' /\ SamplesKept' /\ BuffersOfCall'
    BY <1>1, <1>2 DEF StagesLast, SamplesKept, BuffersOfCall, NoCall, Matches, Ready
  <1>5. (~Interleaved => StoredIsSampled') /\ StoredIsMerged'
    BY <1>1 DEF IInv, StoredIsSampled, StoredIsMerged, Stored
  <1>. QED
    BY <1>3, <1>4, <1>5 DEF IInv

(* Attributes that are only set or read. *)
LEMMA AttrInv ==
  ASSUME IInv, NEW t \in Callers, AttrSet(t) \/ AttrGet(t)
  PROVE  IInv'
  <1>1. /\ out' \subseteq Ids /\ ret' = "OK"
        /\ UNCHANGED <<lock, call, step, enroll_state, enroll_id, last_match_id, image, buffer, db>>
    BY DEF AttrSet, AttrGet, driverVars, sensorVars, fileVars, IInv, TypeOK
  <1>. QED
    BY <1>1
    DEF IInv, TypeOK, StepsOfCall, StagesLast, SamplesKept, BuffersOfCall, StoredIsSampled,
        StoredIsMerged, Stored

LEMMA StepInv == IInv /\ [Next]_vars => IInv'
  <1>. SUFFICES ASSUME IInv, [Next]_vars PROVE IInv'
    OBVIOUS
  <1>1. CASE UNCHANGED vars
    BY <1>1
    DEF vars, driverVars, attributeVars, sensorVars, fileVars, IInv, TypeOK, StepsOfCall, StagesLast, SamplesKept,
        BuffersOfCall, StoredIsSampled, StoredIsMerged, Stored
  <1>2. CASE Next
    BY <1>2, BeginInv, EnrollStartAbortInv, AttrInv, PollTimesOutInv, ProceedInv DEF Next
  <1>. QED
    BY <1>1, <1>2

(* The invariant that carries the properties below, whatever the callers interleave. *)
THEOREM Invariance == Spec => []IInv
  BY InitInv, StepInv, PTL DEF Spec

(* Types, and that the mutex admits one call at a time. *)
THEOREM Typing == Spec => []TypeOK
  <1>1. IInv => TypeOK
    BY DEF IInv
  <1>. QED
    BY <1>1, Invariance, PTL

(* Only merged models are stored, though any command of finalize may fail. *)
THEOREM Merging == Spec => []StoredIsMerged
  <1>1. IInv => StoredIsMerged
    BY DEF IInv
  <1>. QED
    BY <1>1, Invariance, PTL

(* A stored template is of samples captured for its id, if matches wait until no *)
(* enrollment is open.                                                           *)
THEOREM Sampling ==
  ASSUME ~Interleaved
  PROVE  Spec => []StoredIsSampled
  <1>1. IInv => StoredIsSampled
    BY DEF IInv
  <1>. QED
    BY <1>1, Invariance, PTL

(* A match that succeeds is of the finger imaged for it, also during enrollments. *)
THEOREM Matching == Spec => MatchIsReal
  <1>. DEFINE Real == \A t \in Callers :
         call[t].kind \in Matches /\ step[t] # "none" /\ step'[t] = "none" /\ ret' = "OK"
             => \A id \in out' : db[id - 1].finger = image
  <1>1. IInv /\ [Next]_vars => [Real]_vars
    <2>. SUFFICES ASSUME IInv, Next,
                         NEW t \in Callers, call[t].kind \in Matches, step[t] # "none",
                         step'[t] = "none", ret' = "OK", NEW id \in out'
                  PROVE  db[id - 1].finger = image
      OBVIOUS
    <2>. PICK u \in Callers : Begin(u) \/ EnrollStart(u) \/ EnrollAbort(u)
                              \/ AttrSet(u) \/ AttrGet(u) \/ PollTimesOut(u) \/ Proceed(u)
      BY DEF Next
    <2>1. u = t /\ Proceed(t)
      <3>1. ~LockFree
        BY NobodyInside
      <3>2. step[u] # "none"
        BY <3>1 DEF Begin, EnrollStart, EnrollAbort, AttrSet, AttrGet, PollTimesOut, Proceed
      <3>3. u = t
        BY <3>2, Alone
      <3>. QED
        BY <3>1, <3>3 DEF Begin, EnrollStart, EnrollAbort, AttrSet, AttrGet, PollTimesOut, Return
    <2>2. PICK r \in {"OK", "ENOENT", "EIO"} :
            Exchange(t, r) /\ (Fails(t, r) \/ (r = "OK" /\ (Done(t) \/ LevelSet(t))))
      BY <2>1 DEF Proceed
    <2>0. step[t] # "SET_PARAM"
      BY CallOfStep DEF Matches
    <2>3. Executes(t) /\ Done(t)
      BY <2>0, <2>2 DEF LevelSet, Fails, Return, Exchange, NotSent, NotReceived, Refused
    <2>4. CASE step[t] = "MATCH"
      <3>1. buffer[1].finger = image /\ buffer[2].finger = db[call[t].id - 1].finger
        BY <2>4 DEF IInv, BuffersOfCall
      <3>2. buffer[1].finger = buffer[2].finger
        BY <2>3, <2>4 DEF Executes, Carries
      <3>3. out' = {call[t].id}
        BY <2>3, <2>4 DEF Done, StepDone, NextStep, Converted, EnrollStored, Verified,
                          Identified, ScoreTooLow, Deleted, Listed, LightSwitched, Return
      <3>. QED
        BY <3>1, <3>2, <3>3
    <2>5. CASE step[t] = "SEARCH"
      <3>1. buffer[1].finger = image
        BY <2>5 DEF IInv, BuffersOfCall
      <3>2. PICK i \in Stored : db[i].finger = buffer[1].finger /\ out' = {i + 1}
        BY <2>3, <2>5 DEF Done, StepDone, NextStep, Converted, EnrollStored, Verified,
                          Identified, ScoreTooLow, Deleted, Listed, LightSwitched, Return
      <3>3. i \in Nat /\ (i + 1) - 1 = i
        BY ZFMAssumption DEF ZFMAssumption, Stored, Indices
      <3>. QED
        BY <3>1, <3>2, <3>3
    <2>6. step[t] \in {"MATCH", "SEARCH"}
      <3>1. step[t] \in {"GET_IMAGE", "IMG_2_TZ", "LOAD", "MATCH", "SEARCH"}
        BY CallOfStep DEF Matches, Steps, CallSteps
      <3>2. step[t] \notin {"GET_IMAGE", "LOAD"}
        <4>. SUFFICES ASSUME step[t] \in {"GET_IMAGE", "LOAD"} PROVE FALSE
          OBVIOUS
        <4>1. StepDone(t)
          BY <2>3 DEF Done, Converted, EnrollStored, Verified,
                      Identified, ScoreTooLow, Deleted, Listed, LightSwitched
        <4>2. step'[t] = NextStep[step[t]]
          BY <4>1 DEF StepDone, Continue, IInv, StepsOfCall
        <4>. QED
          BY <4>2 DEF NextStep
      <3>3. step[t] # "IMG_2_TZ"
        BY <2>3 DEF Done, StepDone, NextStep, Continue, Converted, EnrollStored, Verified,
                    Identified, ScoreTooLow, Deleted, Listed, LightSwitched, Matches, IInv, StepsOfCall
      <3>. QED
        BY <3>1, <3>2, <3>3
    <2>. QED
      BY <2>4, <2>5, <2>6
  <1>. QED
    BY <1>1, Invariance, PTL DEF Spec, MatchIsReal

(* An exchange changes the library only in the call that asked for it. *)
LEMMA ExchangeStore ==
  ASSUME IInv, NEW t \in Callers, step[t] # "none", NEW r, Exchange(t, r)
  PROVE  LET lib == {i + 1 : i \in Stored}
         IN  \/ lib' = lib
             \/ step[t] = "STORE" /\ lib' = lib \cup {enroll_id}
             \/ step[t] = "DELETE" /\ lib' = lib \ {call[t].id}
             \/ step[t] = "EMPTY" /\ lib' = {}
  <1>. DEFINE lib == {i + 1 : i \in Stored}
  <1>1. CASE UNCHANGED db
    BY <1>1 DEF Stored
  <1>2. CASE Executes(t) /\ step[t] = "STORE"
    <2>1. enroll_id \in Ids /\ buffer[1].merged
      BY <1>2, CallOfStep DEF IInv, StagesLast, BuffersOfCall, Ready, Idle
    <2>2. enroll_id - 1 \in Indices /\ (enroll_id - 1) + 1 = enroll_id
      BY <2>1, ZFMAssumption DEF ZFMAssumption, Ids, Indices
    <2>3. db \in [Indices -> Files] /\ db' = [db EXCEPT ![enroll_id - 1] = buffer[1]]
      BY <1>2 DEF Executes, Carries, IInv, TypeOK
    <2>4. buffer[1] # NoFile
      BY <2>1 DEF NoFile
    <2>5. Stored' = Stored \cup {enroll_id - 1}
      BY <2>2, <2>3, <2>4 DEF Stored
    <2>. QED
      BY <1>2, <2>2, <2>5
  <1>3. CASE Executes(t) /\ step[t] = "DELETE"
    <2>1. call[t].id \in Ids
      BY <1>3, CallOfStep
    <2>2. call[t].id - 1 \in Indices /\ (call[t].id - 1) + 1 = call[t].id
      BY <2>1, ZFMAssumption DEF ZFMAssumption, Ids, Indices
    <2>3. db \in [Indices -> Files] /\ db' = [db EXCEPT ![call[t].id - 1] = NoFile]
      BY <1>3 DEF Executes, Carries, IInv, TypeOK
    <2>4. Stored' = Stored \ {call[t].id - 1}
      BY <2>2, <2>3 DEF Stored
    <2>5. \A i \in Stored : i \in Nat
      BY ZFMAssumption DEF ZFMAssumption, Stored, Indices
    <2>. QED
      BY <1>3, <2>2, <2>4, <2>5
  <1>4. CASE Executes(t) /\ step[t] = "EMPTY"
    BY <1>4 DEF Executes, Carries, Stored
  <1>. QED
    BY <1>1, <1>2, <1>3, <1>4 DEF Exchange, NotSent, NotReceived, Executes, Carries, sensorVars, fileVars

(* How a call's end, or its next step, leaves the enrollment. *)
LEMMA StageAfter ==
  ASSUME IInv, NEW t \in Callers, step[t] # "none", NEW r, Fails(t, r) \/ Done(t) \/ LevelSet(t)
  PROVE  /\ UNCHANGED enroll_id
         /\ \/ (enroll_state' # Idle) = (enroll_state # Idle)
            \/ enroll_state # Idle /\ enroll_state' = Idle
         /\ step[t] \in {"DELETE", "EMPTY"} => UNCHANGED enroll_state
  <1>1. enroll_state \in Idle .. Ready
    BY DEF IInv, TypeOK
  <1>2. CASE Fails(t, r)
    BY <1>2, CallOfStep DEF Fails
  <1>3. CASE Done(t)
    <2>1. CASE Converted(t)
      <3>1. enroll_state' = enroll_state
              \/ (call[t].kind = "enroll_capture" /\ enroll_state' = enroll_state + 1)
        BY <2>1, CallOfStep DEF Converted
      <3>2. call[t].kind = "enroll_capture" => enroll_state \in 1..2
        BY DEF IInv, StagesLast
      <3>. QED
        BY <2>1, <3>1, <3>2 DEF Converted, Idle
    <2>2. CASE EnrollStored(t)
      BY <1>1, <2>2 DEF EnrollStored
    <2>3. CASE StepDone(t) \/ Verified(t) \/ Identified(t) \/ ScoreTooLow(t)
                 \/ Deleted(t) \/ Listed(t) \/ LightSwitched(t)
      BY <2>3 DEF StepDone, Verified, Identified, ScoreTooLow, Deleted, Listed, LightSwitched, driverVars, attributeVars
    <2>. QED
      BY <1>3, <2>1, <2>2, <2>3 DEF Done
  <1>4. CASE LevelSet(t)
    BY <1>4 DEF LevelSet, driverVars
  <1>. QED
    BY <1>2, <1>3, <1>4

(* The driver implements the store that the API header promises, also when commands *)
(* take effect though their answers are lost, and whoever aborts or restarts an     *)
(* enrollment meanwhile.                                                            *)
THEOREM Contract == Spec => StoreContract
  <1>. USE DEF Library!Next, Library!vars
  <1>1. Init => Library!Init
    BY ZFMAssumption DEF ZFMAssumption, Init, Library!Init, Stored, Indices, Ids, Idle
  <1>2. IInv /\ [Next]_vars => [Library!Next]_(Library!vars)
    <2>. SUFFICES ASSUME IInv, [Next]_vars PROVE [Library!Next]_(Library!vars)
      OBVIOUS
    <2>. DEFINE lib == {i + 1 : i \in Stored}
    <2>1. ASSUME UNCHANGED db PROVE lib' = lib
      BY <2>1 DEF Stored
    <2>2. CASE UNCHANGED vars
      BY <2>1, <2>2 DEF vars, driverVars, attributeVars, sensorVars, fileVars
    <2>3. ASSUME NEW t \in Callers, Begin(t)
          PROVE  UNCHANGED Library!vars
      BY <2>1, <2>3 DEF Begin, driverVars, attributeVars, sensorVars, fileVars
    <2>4. ASSUME NEW t \in Callers, EnrollStart(t)
          PROVE  Library!Next
      <3>1. lib' = lib
        BY <2>1, <2>4 DEF EnrollStart, sensorVars, fileVars
      <3>2. enroll_id' \in Ids /\ Library!EnrollStart(enroll_id')
        BY <2>4, <3>1 DEF EnrollStart, Library!EnrollStart, Idle
      <3>. QED
        BY <3>2
    <2>5. ASSUME NEW t \in Callers, EnrollAbort(t)
          PROVE  Library!Next
      <3>1. lib' = lib
        BY <2>1, <2>5 DEF EnrollAbort, sensorVars, fileVars
      <3>. QED
        BY <2>5, <3>1 DEF EnrollAbort, Library!EnrollAbort
    <2>8. ASSUME NEW t \in Callers, AttrSet(t) \/ AttrGet(t)
          PROVE  UNCHANGED Library!vars
      BY <2>1, <2>8 DEF AttrSet, AttrGet, driverVars, sensorVars, fileVars
    <2>6. ASSUME NEW t \in Callers, PollTimesOut(t)
          PROVE  [Library!Next]_(Library!vars)
      <3>1. lib' = lib
        BY <2>1, <2>6 DEF PollTimesOut, sensorVars, fileVars
      <3>2. enroll_state' = enroll_state \/ (enroll_state # Idle /\ enroll_state' = Idle)
        BY <2>6 DEF PollTimesOut, IInv, StagesLast, Idle
      <3>. QED
        BY <2>6, <3>1, <3>2 DEF PollTimesOut, Library!EnrollAbort
    <2>7. ASSUME NEW t \in Callers, Proceed(t)
          PROVE  [Library!Next]_(Library!vars)
      <3>. PICK r \in {"OK", "ENOENT", "EIO"} :
             /\ step[t] # "none" /\ Exchange(t, r)
             /\ Fails(t, r) \/ (r = "OK" /\ (Done(t) \/ LevelSet(t)))
        BY <2>7 DEF Proceed
      <3>1. /\ UNCHANGED enroll_id
            /\ \/ (enroll_state' # Idle) = (enroll_state # Idle)
               \/ enroll_state # Idle /\ enroll_state' = Idle
            /\ step[t] \in {"DELETE", "EMPTY"} => UNCHANGED enroll_state
        BY StageAfter
      <3>2. CASE lib' = lib
        BY <3>1, <3>2 DEF Library!EnrollAbort
      <3>3. CASE step[t] = "STORE" /\ lib' = lib \cup {enroll_id}
        <4>1. enroll_state # Idle
          BY <3>3, CallOfStep DEF IInv, StagesLast, Ready, Idle
        <4>. QED
          BY <3>1, <3>3, <4>1 DEF Library!EnrollFinalize, Library!EnrollCapture
      <3>4. CASE step[t] = "DELETE" /\ lib' = lib \ {call[t].id}
        <4>1. call[t].id \in Ids /\ call[t].kind = "template_delete"
          BY <3>4, CallOfStep
        <4>2. call[t] = Library!HostCall("template_delete", call[t].id)
          BY <4>1, CallOfStep DEF Library!HostCall, Calls, NoCall
        <4>. PICK k \in Ids : k = call[t].id
          BY <4>1
        <4>3. Library!TemplateDelete(k)
          BY <3>1, <3>4 DEF Library!TemplateDelete
        <4>4. Library!HostCall("template_delete", k) \in {call[u] : u \in Callers}
          BY <4>2
        <4>. QED
          BY <4>3, <4>4
      <3>5. CASE step[t] = "EMPTY" /\ lib' = {}
        <4>1. call[t] = Library!HostCall("template_delete_all", 0)
          BY <3>5, CallOfStep DEF Library!HostCall, Calls, NoCall
        <4>2. Library!TemplateDeleteAll
          BY <3>1, <3>5 DEF Library!TemplateDeleteAll
        <4>. QED
          BY <4>1, <4>2
      <3>. QED
        BY <3>2, <3>3, <3>4, <3>5, ExchangeStore
    <2>. QED
      BY <2>2, <2>3, <2>4, <2>5, <2>6, <2>7, <2>8 DEF Next
  <1>. QED
    BY <1>1, <1>2, Invariance, PTL DEF Spec, StoreContract, Library!Spec

(* Ten levels become five and back: what attr_get reads after a level was set can be  *)
(* set again and is the same level to the sensor.                                     *)
LEMMA LevelRoundTrip ==
  ASSUME NEW val \in 1 .. 10
  PROVE  /\ SensorLevel(val) \in 1 .. 5
         /\ ApiLevel(SensorLevel(val)) \in 1 .. 10
         /\ SensorLevel(ApiLevel(SensorLevel(val))) = SensorLevel(val)
  BY DEF SensorLevel, ApiLevel, Clamp

(* Attributes stay within their range. *)
THEOREM AttributesInRange == Spec => []AttributesOK
  <1>1. Init => AttributesOK
    BY ZFMAssumption, LevelRoundTrip DEF ZFMAssumption, Init, AttributesOK, ApiLevel, UINT16_MAX
  <1>2. IInv /\ AttributesOK /\ [Next]_vars => AttributesOK'
    <2>. SUFFICES ASSUME IInv, AttributesOK, [Next]_vars PROVE AttributesOK'
      OBVIOUS
    <2>1. ASSUME NEW t \in Callers, Proceed(t) PROVE AttributesOK'
      <3>1. step[t] = "SET_PARAM" => call[t].id \in 1 .. 10
        BY CallOfStep, ZFMAssumption DEF ZFMAssumption
      <3>2. level' = level \/ (step[t] = "SET_PARAM" /\ level' = SensorLevel(call[t].id))
        BY <2>1 DEF Proceed, Exchange, NotSent, NotReceived, Executes, sensorVars
      <3>3. /\ match_threshold' = match_threshold
            /\ \/ security_level' = security_level
               \/ step[t] = "SET_PARAM" /\ security_level' = ApiLevel(SensorLevel(call[t].id))
        BY <2>1 DEF Proceed, Fails, LevelSet, attributeVars
      <3>. QED
        BY <3>1, <3>2, <3>3, LevelRoundTrip DEF AttributesOK, ApiLevel
    <2>2. ASSUME NEW t \in Callers, AttrSet(t) PROVE AttributesOK'
      BY <2>2, ZFMAssumption DEF ZFMAssumption, AttrSet, sensorVars, AttributesOK
    <2>3. ASSUME NEW t \in Callers,
                 Begin(t) \/ EnrollStart(t) \/ EnrollAbort(t) \/ AttrGet(t) \/ PollTimesOut(t)
          PROVE  AttributesOK'
      BY <2>3 DEF Begin, EnrollStart, EnrollAbort, AttrGet, PollTimesOut, attributeVars,
                  sensorVars, AttributesOK
    <2>4. CASE UNCHANGED vars
      BY <2>4 DEF vars, attributeVars, sensorVars, AttributesOK
    <2>. QED
      BY <2>1, <2>2, <2>3, <2>4 DEF Next
  <1>. QED
    BY <1>1, <1>2, Invariance, PTL DEF Spec

(* After a level was set, and as long as setting one does not fail, the sensor works *)
(* with the level that attr_get reads.                                               *)
THEOREM LevelIsKnown == Spec => LevelKnown
  <1>. DEFINE Known ==
         security_level = ApiLevel(level) \/ security_level' # security_level
           => security_level' = ApiLevel(level') \/ ret' = "EIO"
  <1>1. IInv /\ [Next]_vars => [Known]_vars
    <2>. SUFFICES ASSUME IInv, Next,
                         security_level = ApiLevel(level) \/ security_level' # security_level,
                         ret' # "EIO"
                  PROVE  security_level' = ApiLevel(level')
      OBVIOUS
    <2>1. ASSUME NEW t \in Callers, Proceed(t) PROVE security_level' = ApiLevel(level')
      <3>. PICK r \in {"OK", "ENOENT", "EIO"} :
             /\ step[t] # "none" /\ Exchange(t, r)
             /\ \/ Fails(t, r)
                \/ r = "OK" /\ Done(t) /\ UNCHANGED attributeVars
                \/ r = "OK" /\ LevelSet(t)
        BY <2>1 DEF Proceed
      <3>1. CASE Fails(t, r)
        <4>1. r = "ENOENT"
          BY <3>1 DEF Fails, Return
        <4>2. UNCHANGED level
          BY <4>1 DEF Exchange, NotSent, NotReceived, sensorVars
        <4>. QED
          BY <3>1, <4>2 DEF Fails, attributeVars
      <3>2. CASE r = "OK" /\ Done(t) /\ UNCHANGED attributeVars
        <4>1. step[t] # "SET_PARAM"
          BY <3>2 DEF Done, StepDone, NextStep, Converted, EnrollStored, Verified, Identified,
                      ScoreTooLow, Deleted, Listed, LightSwitched
        <4>2. UNCHANGED level
          BY <3>2, <4>1 DEF Exchange, NotSent, NotReceived, Executes, Refused, sensorVars
        <4>. QED
          BY <3>2, <4>2 DEF attributeVars
      <3>3. CASE r = "OK" /\ LevelSet(t)
        <4>1. Executes(t)
          BY <3>3 DEF Exchange, NotSent, NotReceived, Refused
        <4>. QED
          BY <3>3, <4>1 DEF Executes, LevelSet
      <3>. QED
        BY <3>1, <3>2, <3>3
    <2>2. ASSUME NEW t \in Callers,
                 \/ Begin(t) \/ EnrollStart(t) \/ EnrollAbort(t)
                 \/ AttrSet(t) \/ AttrGet(t) \/ PollTimesOut(t)
          PROVE  security_level' = ApiLevel(level')
      BY <2>2 DEF Begin, EnrollStart, EnrollAbort, AttrSet, AttrGet, PollTimesOut,
                  attributeVars, sensorVars
    <2>. QED
      BY <2>1, <2>2 DEF Next
  <1>. QED
    BY <1>1, Invariance, PTL DEF Spec, LevelKnown
=============================================================================
