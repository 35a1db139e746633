----------------------------- MODULE EmulProofs -----------------------------
(***************************************************************************)
(* Theorems about the emulated sensor and the shell's commands on it.  For *)
(* any number of callers and slots that EmulAssumption admits the template *)
(* count is exact, samples stay in their buffer, and a template is made of *)
(* samples of its own id.  The commands of the shell, for any arguments,   *)
(* are among the calls that Emul admits, so that all this holds for them;  *)
(* an enroll command leaves nothing behind and tells the truth.            *)
(***************************************************************************)
EXTENDS BiometricsShell, FiniteSetTheorems, TLAPS

(* The sets that are counted are finite, whatever the state. *)
LEMMA Finite ==
    /\ IsFiniteSet(Valid) /\ Cardinality(Valid) \in Nat
    /\ IsFiniteSet(Capturing) /\ Cardinality(Capturing) \in Nat
    /\ Cardinality(Callers) \in Nat
    /\ Cardinality(Capturing) <= Cardinality(Callers)
  <1>1. Valid \in SUBSET Slots /\ Capturing \in SUBSET Callers
    BY DEF Valid, Capturing
  <1>2. IsFiniteSet(Slots) /\ IsFiniteSet(Callers)
    BY EmulAssumption DEF EmulAssumption
  <1>. QED
    BY <1>1, <1>2, FS_Subset, FS_CardinalityType

(* Storing to a slot makes it valid, and no other. *)
LEMMA StoreValid ==
  ASSUME TypeOK, NEW slot \in Slots, NEW id \in Ids, NEW own, Store(slot, id, own)
  PROVE  Valid' = Valid \cup {slot}
  BY EmulAssumption DEF EmulAssumption, TypeOK, Store, Valid

(* Deleting a valid slot makes it free, and no other. *)
LEMMA DeleteValid ==
  ASSUME TypeOK, NEW slot \in Slots, templates' = [templates EXCEPT ![slot] = NoTemplate]
  PROVE  Valid' = Valid \ {slot}
  BY DEF TypeOK, NoTemplate, Valid

(* A capture that sleeps fits, and keeps fitting until it wakes up: the others that *)
(* sleep beside it were all admitted below the limit.                               *)
LEMMA BudgetFits ==
  ASSUME TypeOK, SampleBudget
  PROVE  SampleFits
  <1>. SUFFICES ASSUME Capturing # {}
                PROVE  samples < BufferSamples
    BY DEF SampleFits
  <1>1. Cardinality(Capturing) >= 1
    BY Finite, FS_EmptySet
  <1>. QED
    BY <1>1, Finite, EmulAssumption DEF EmulAssumption, SampleBudget, TypeOK

(* Settings are apart from the rest of the state. *)
LEMMA SettingsApart ==
  ASSUME TypeOK, NEW t \in Callers, SettingsStep(t)
  PROVE  settings' \in Settings /\ UNCHANGED <<storeVars, enrollVars, last_matched_id, callVars>>
  BY DEF SettingsStep, AttrSet, LedControl, SetControl, Set

LEMMA InitInv == Init => IInv
  <1>. SUFFICES ASSUME Init PROVE IInv
    OBVIOUS
  <1>1. TypeOK
    BY EmulAssumption DEF EmulAssumption, Init, TypeOK, NoTemplate, EmptyBuffer
  <1>2. Valid = {} /\ Capturing = {}
    BY DEF Init, Valid, Capturing, NoTemplate
  <1>3. Cardinality(Valid) = 0 /\ Cardinality(Capturing) = 0
    BY <1>2, FS_EmptySet
  <1>4. CountIsExact /\ TemplateIsOwn
    BY <1>2, <1>3 DEF Init, CountIsExact, TemplateIsOwn
  <1>5. SampleBudget
    BY <1>3, Finite, EmulAssumption DEF EmulAssumption, Init, SampleBudget
  <1>6. OwnSamples /\ EnrollmentHasId
    BY DEF Init, OwnSamples, EnrollmentHasId
  <1>. QED
    BY <1>1, <1>4, <1>5, <1>6 DEF IInv

LEMMA StepType ==
  ASSUME IInv, NEW t \in Callers, CallStep(t)
  PROVE  TypeOK'
  <1>0. samples \in Nat /\ template_count \in Nat
    BY DEF IInv, TypeOK
  <1>. USE DEF IInv, TypeOK
  <1>1. ASSUME NEW id \in Ids, EnrollStart(t, id)
        PROVE  TypeOK'
    BY <1>1 DEF EnrollStart, EmptyBuffer, storeVars, deviceVars
  <1>2. ASSUME NEW id \in Ids, TemplateStore(t, id)
        PROVE  TypeOK'
    <2>1. PICK slot \in Slots : Store(slot, id, TRUE)
      BY <1>2 DEF TemplateStore, SlotsOf, Valid
    <2>2. templates' \in [Slots -> [id : Ids \cup {0}, own : BOOLEAN]]
      BY <2>1 DEF Store
    <2>3. template_count' \in Nat
      <3>. HIDE DEF IInv, TypeOK
      <3>1. template_count' \in {template_count, template_count + 1}
        BY <1>2, Zenon DEF TemplateStore
      <3>. QED
        BY <1>0, <3>1
    <2>. QED
      BY <1>2, <2>2, <2>3 DEF TemplateStore, enrollVars, deviceVars, callVars
  <1>3. ASSUME NEW id \in Ids, TemplateDelete(t, id)
        PROVE  TypeOK'
    <2>1. template_count' \in Nat
      <3>1. PICK slot \in Valid : TRUE
        BY <1>3 DEF TemplateDelete, SlotsOf
      <3>2. Cardinality(Valid) # 0
        BY <3>1, Finite, FS_EmptySet
      <3>3. template_count' = template_count - 1 /\ template_count = Cardinality(Valid)
        BY <1>3 DEF TemplateDelete, CountIsExact
      <3>4. Cardinality(Valid) \in Nat
        BY Finite
      <3>. HIDE DEF IInv, TypeOK
      <3>. QED
        BY <3>2, <3>3, <3>4
    <2>2. PICK slot \in Slots : templates' = [templates EXCEPT ![slot] = NoTemplate]
      BY <1>3 DEF TemplateDelete, SlotsOf, Valid
    <2>3. templates' \in [Slots -> [id : Ids \cup {0}, own : BOOLEAN]]
      BY <2>2 DEF NoTemplate
    <2>. QED
      BY <1>3, <2>1, <2>3 DEF TemplateDelete, enrollVars, deviceVars, callVars
  <1>4. ASSUME NEW id \in Ids \cup {0}, Match(t, id)
        PROVE  TypeOK'
    BY <1>4 DEF Match, storeVars, enrollVars, deviceVars
  <1>5. CASE EnrollCapture(t)
    BY <1>5 DEF EnrollCapture, storeVars, enrollVars, deviceVars
  <1>6. CASE EnrollCaptureDone(t)
    <2>1. samples' \in Nat
      <3>. HIDE DEF IInv, TypeOK
      <3>. QED
        BY <1>0, <1>6 DEF EnrollCaptureDone
    <2>. QED
      BY <1>6, <2>1 DEF EnrollCaptureDone, storeVars, deviceVars
  <1>7. CASE EnrollFinalize(t)
    <2>1. template_count' \in Nat
      <3>. HIDE DEF IInv, TypeOK
      <3>. QED
        BY <1>0, <1>7 DEF EnrollFinalize
    <2>2. PICK slot \in Slots, own \in BOOLEAN : Store(slot, enroll_id, own)
      BY <1>7 DEF EnrollFinalize
    <2>3. templates' \in [Slots -> [id : Ids \cup {0}, own : BOOLEAN]]
      BY <2>2 DEF Store
    <2>. QED
      BY <1>7, <2>1, <2>3 DEF EnrollFinalize, deviceVars, callVars
  <1>8. CASE EnrollAbort(t)
    BY <1>8 DEF EnrollAbort, storeVars, deviceVars, callVars
  <1>9. CASE TemplateDeleteAll(t)
    BY <1>9 DEF TemplateDeleteAll, NoTemplate, enrollVars, deviceVars, callVars
  <1>10. CASE MatchDone(t)
    BY <1>10 DEF MatchDone, storeVars, enrollVars
  <1>11. CASE SettingsStep(t)
    BY <1>11, SettingsApart DEF storeVars, enrollVars, callVars
  <1>. QED
    BY <1>1, <1>2, <1>3, <1>4, <1>5, <1>6, <1>7, <1>8, <1>9, <1>10, <1>11
    DEF CallStep

(* The templates: their number and their samples. *)
LEMMA StepStore ==
  ASSUME IInv, NEW t \in Callers, CallStep(t)
  PROVE  CountIsExact' /\ TemplateIsOwn'
  <1>. USE DEF IInv
  <1>0. ASSUME UNCHANGED storeVars
        PROVE  CountIsExact' /\ TemplateIsOwn'
    BY <1>0 DEF storeVars, CountIsExact, TemplateIsOwn, Valid
  <1>1. ASSUME NEW id \in Ids, TemplateStore(t, id)
        PROVE  CountIsExact' /\ TemplateIsOwn'
    <2>1. PICK slot \in Slots : /\ Store(slot, id, TRUE)
                                /\ template_count' = IF slot \in Valid THEN template_count
                                                     ELSE template_count + 1
      BY <1>1 DEF TemplateStore, SlotsOf, Valid
    <2>2. Valid' = Valid \cup {slot}
      BY <2>1, StoreValid
    <2>3. CountIsExact'
      BY <2>1, <2>2, Finite, FS_AddElement DEF CountIsExact
    <2>4. TemplateIsOwn'
      BY <2>1, <2>2 DEF TemplateIsOwn, Store, TypeOK, Valid
    <2>. QED
      BY <2>3, <2>4
  <1>2. ASSUME NEW id \in Ids, TemplateDelete(t, id)
        PROVE  CountIsExact' /\ TemplateIsOwn'
    <2>1. PICK slot \in Valid : templates' = [templates EXCEPT ![slot] = NoTemplate]
      BY <1>2 DEF TemplateDelete, SlotsOf
    <2>2. Valid' = Valid \ {slot}
      BY <2>1, DeleteValid DEF Valid
    <2>3. CountIsExact'
      BY <1>2, <2>2, Finite, FS_RemoveElement DEF CountIsExact, TemplateDelete
    <2>4. TemplateIsOwn'
      BY <2>1, <2>2 DEF TemplateIsOwn, TypeOK, Valid
    <2>. QED
      BY <2>3, <2>4
  <1>3. CASE EnrollFinalize(t)
    <2>1. PICK slot \in Slots \ Valid :
            Store(slot, enroll_id, \A i \in 0..(Samples - 1) : temp[i] = enroll_id)
      BY <1>3 DEF EnrollFinalize
    <2>2. enroll_id \in Ids
      BY <1>3 DEF EnrollFinalize, EnrollmentHasId, TypeOK
    <2>3. Valid' = Valid \cup {slot}
      BY <2>1, <2>2, StoreValid
    <2>4. CountIsExact'
      BY <1>3, <2>1, <2>3, Finite, FS_AddElement DEF CountIsExact, EnrollFinalize
    <2>5. \A i \in 0..(Samples - 1) : temp[i] = enroll_id
      BY <1>3, EmulAssumption DEF EmulAssumption, EnrollFinalize, OwnSamples, TypeOK
    <2>6. TemplateIsOwn'
      BY <2>1, <2>3, <2>5 DEF TemplateIsOwn, Store, TypeOK, Valid
    <2>. QED
      BY <2>4, <2>6
  <1>4. CASE TemplateDeleteAll(t)
    <2>1. Valid' = {}
      BY <1>4 DEF TemplateDeleteAll, Valid, NoTemplate
    <2>. QED
      BY <1>4, <2>1, FS_EmptySet DEF TemplateDeleteAll, CountIsExact, TemplateIsOwn
  <1>5. CASE SettingsStep(t)
    BY <1>0, <1>5, SettingsApart
  <1>. QED
    BY <1>0, <1>1, <1>2, <1>3, <1>4, <1>5
    DEF CallStep, EnrollStart, Match, EnrollCapture, EnrollCaptureDone, EnrollAbort, MatchDone

(* The enrollment: its budget of samples, and what they were written for. *)
LEMMA StepEnroll ==
  ASSUME IInv, NEW t \in Callers, CallStep(t)
  PROVE  SampleBudget' /\ OwnSamples' /\ EnrollmentHasId'
  <1>. USE DEF IInv
  <1>0. ASSUME UNCHANGED enrollVars, Capturing' = Capturing
        PROVE  SampleBudget' /\ OwnSamples' /\ EnrollmentHasId'
    BY <1>0 DEF enrollVars, SampleBudget, OwnSamples, EnrollmentHasId
  <1>1. ASSUME NEW id \in Ids, EnrollStart(t, id)
        PROVE  SampleBudget' /\ OwnSamples' /\ EnrollmentHasId'
    <2>1. Capturing' = Capturing
      BY <1>1 DEF EnrollStart, Capturing
    <2>2. SampleBudget'
      BY <1>1, <2>1, Finite, EmulAssumption DEF EmulAssumption, EnrollStart, SampleBudget
    <2>. QED
      BY <1>1, <2>2, EmulAssumption
      DEF EmulAssumption, EnrollStart, OwnSamples, EnrollmentHasId
  <1>2. CASE EnrollCapture(t)
    <2>1. Capturing' = Capturing \cup {t} /\ t \notin Capturing
      BY <1>2 DEF EnrollCapture, Capturing, TypeOK
    <2>2. Cardinality(Capturing') <= Cardinality(Callers)
      <3>1. Capturing' \in SUBSET Callers
        BY <2>1 DEF Capturing
      <3>. QED
        BY <3>1, EmulAssumption, FS_Subset DEF EmulAssumption
    <2>3. Cardinality(Capturing') = Cardinality(Capturing) + 1
      BY <2>1, Finite, FS_AddElement
    <2>4. SampleBudget'
      BY <1>2, <2>2, <2>3, Finite, EmulAssumption
      DEF EmulAssumption, EnrollCapture, SampleBudget, TypeOK, enrollVars
    <2>. QED
      BY <1>2, <2>4 DEF EnrollCapture, OwnSamples, EnrollmentHasId, enrollVars
  <1>3. CASE EnrollCaptureDone(t)
    <2>1. Capturing' = Capturing \ {t} /\ t \in Capturing
      BY <1>3 DEF EnrollCaptureDone, Capturing, TypeOK
    <2>2. Cardinality(Capturing') = Cardinality(Capturing) - 1
      BY <2>1, Finite, FS_RemoveElement
    <2>3. SampleBudget'
      BY <1>3, <2>2, Finite, EmulAssumption
      DEF EmulAssumption, EnrollCaptureDone, SampleBudget, TypeOK
    <2>4. samples < BufferSamples
      BY <2>1, BudgetFits DEF SampleFits
    <2>5. OwnSamples'
      BY <1>3, <2>4, EmulAssumption DEF EmulAssumption, EnrollCaptureDone, OwnSamples, TypeOK
    <2>. QED
      BY <1>3, <2>3, <2>5 DEF EnrollCaptureDone, EnrollmentHasId
  <1>4. CASE EnrollFinalize(t)
    <2>1. Capturing' = Capturing
      BY <1>4 DEF EnrollFinalize, Capturing, callVars
    <2>. QED
      BY <1>4, <2>1 DEF EnrollFinalize, SampleBudget, OwnSamples, EnrollmentHasId
  <1>5. CASE EnrollAbort(t)
    <2>1. Capturing' = Capturing
      BY <1>5 DEF EnrollAbort, Capturing, callVars
    <2>. QED
      BY <1>5, <2>1, Finite, EmulAssumption
      DEF EmulAssumption, EnrollAbort, SampleBudget, OwnSamples, EnrollmentHasId
  <1>6. ASSUME NEW id \in Ids \cup {0}, Match(t, id)
        PROVE  Capturing' = Capturing
    BY <1>6 DEF Match, Capturing, TypeOK
  <1>7. CASE MatchDone(t)
    BY <1>0, <1>7 DEF MatchDone, Capturing, TypeOK
  <1>8. ASSUME UNCHANGED callVars
        PROVE  Capturing' = Capturing
    BY <1>8 DEF callVars, Capturing
  <1>9. CASE SettingsStep(t)
    BY <1>0, <1>8, <1>9, SettingsApart
  <1>. QED
    BY <1>0, <1>1, <1>2, <1>3, <1>4, <1>5, <1>6, <1>7, <1>8, <1>9
    DEF CallStep, TemplateStore, TemplateDelete, TemplateDeleteAll, Match

(* The invariant: what the runs check on a small instance holds for any number of *)
(* callers, slots and samples.                                                    *)
THEOREM Invariance == Spec => []IInv
  <1>1. IInv /\ [Next]_vars => IInv'
    <2>. SUFFICES ASSUME IInv, [Next]_vars
                  PROVE  IInv'
      OBVIOUS
    <2>1. ASSUME NEW t \in Callers, CallStep(t)
          PROVE  IInv'
      BY <2>1, StepType, StepStore, StepEnroll DEF IInv
    <2>2. CASE UNCHANGED vars
      BY <2>2 DEF vars, storeVars, enrollVars, deviceVars, callVars, IInv, TypeOK, CountIsExact,
         SampleBudget, OwnSamples, EnrollmentHasId, TemplateIsOwn, Valid, Capturing
    <2>. QED
      BY <2>1, <2>2 DEF Next
  <1>. QED
    BY InitInv, <1>1, PTL DEF Spec

(* template_count is the number of valid slots in every state, so that a store that *)
(* passes the count's check does find a free slot (biometrics_emul.c:346-356).      *)
THEOREM Counted == Spec => []CountIsExact
  BY Invariance, PTL DEF IInv

(* With at most BufferSamples + 1 - Samples callers (15 for the code's sizes) no *)
(* capture writes outside enroll_temp_data, however captures, aborts and new     *)
(* enrollments interleave.                                                       *)
THEOREM SamplesFit == Spec => []SampleFits
  <1>1. IInv => SampleFits
    BY BudgetFits DEF IInv
  <1>. QED
    BY <1>1, Invariance, PTL

(* Every template consists of samples written for its own id. *)
THEOREM OwnTemplates == Spec => []TemplateIsOwn
  BY Invariance, PTL DEF IInv

(* Every variable keeps its type. *)
THEOREM TypeCorrect == Spec => []TypeOK
  BY Invariance, PTL DEF IInv

(* What a template added to a slot, or taken from one, does to the set of ids. *)
LEMMA StoreAdds ==
  ASSUME TypeOK, NEW id \in Ids, NEW own, NEW slot \in (Slots \ Valid) \cup SlotsOf(id),
         Store(slot, id, own)
  PROVE  Stored' = Stored \cup {id}
  <1>1. slot \in Slots /\ templates' = [templates EXCEPT ![slot] = [id |-> id, own |-> own]]
    BY DEF Store, SlotsOf, Valid
  <1>2. \A s \in Slots : templates'[s].id = IF s = slot THEN id ELSE templates[s].id
    BY <1>1 DEF TypeOK
  <1>3. id # 0
    BY EmulAssumption DEF EmulAssumption
  <1>4. templates[slot].id \in {0, id}
    BY <1>1 DEF SlotsOf, Valid
  <1>5. Stored \cup {id} \subseteq Stored'
    BY <1>1, <1>2, <1>3, <1>4 DEF Stored, Valid
  <1>6. Stored' \subseteq Stored \cup {id}
    BY <1>2 DEF Stored, Valid
  <1>. QED
    BY <1>5, <1>6

LEMMA DeleteRemoves ==
  ASSUME TypeOK, NEW id \in Ids, NEW slot \in SlotsOf(id),
         templates' = [templates EXCEPT ![slot] = NoTemplate]
  PROVE  Stored' \in {Stored, Stored \ {id}}
  <1>1. slot \in Slots /\ templates[slot].id = id
    BY DEF SlotsOf, Valid
  <1>2. \A s \in Slots : templates'[s].id = IF s = slot THEN 0 ELSE templates[s].id
    BY <1>1 DEF TypeOK, NoTemplate
  <1>3. Stored' \subseteq Stored
    BY <1>2 DEF Stored, Valid
  <1>4. Stored \ {id} \subseteq Stored'
    BY <1>1, <1>2 DEF Stored, Valid
  <1>. QED
    BY <1>3, <1>4

(* The emulator implements the store that the API header promises: each call is one *)
(* of its operations, a sleeping capture or match is none of them.                  *)
THEOREM Contract == Spec => StoreContract
  <1>1. Init => Library!Init
    <2>. SUFFICES ASSUME Init PROVE Library!Init
      OBVIOUS
    <2>1. Stored = {}
      BY DEF Init, Stored, Valid, NoTemplate
    <2>. QED
      BY <2>1 DEF Init, Library!Init
  <1>2. IInv /\ [Next]_vars => [Library!Next]_(Library!vars)
    <2>. SUFFICES ASSUME IInv, [Next]_vars PROVE [Library!Next]_(Library!vars)
      OBVIOUS
    <2>. USE DEF Library!Next, Library!vars
    <2>0. TypeOK /\ (enrolling => enroll_id \in Ids)
      BY DEF IInv, TypeOK, EnrollmentHasId
    <2>1. ASSUME UNCHANGED <<templates, enrolling, enroll_id>>
          PROVE  UNCHANGED Library!vars
      BY <2>1 DEF Stored, Valid
    <2>2. ASSUME NEW t \in Callers, NEW id \in Ids, EnrollStart(t, id)
          PROVE  Library!Next
      <3>1. Stored' = Stored
        BY <2>2 DEF EnrollStart, storeVars, Stored, Valid
      <3>. QED
        BY <2>2, <3>1 DEF EnrollStart, Library!EnrollStart
    <2>3. ASSUME NEW t \in Callers, NEW id \in Ids, TemplateStore(t, id)
          PROVE  Library!Next
      <3>1. Stored' = Stored \cup {id}
        BY <2>0, <2>3, StoreAdds DEF TemplateStore
      <3>2. Library!HostCall("template_store", id) \in AnyHostCall
        BY DEF Library!HostCall, AnyHostCall
      <3>. QED
        BY <2>3, <3>1, <3>2 DEF TemplateStore, Library!TemplateStore, enrollVars
    <2>4. ASSUME NEW t \in Callers, NEW id \in Ids, TemplateDelete(t, id)
          PROVE  [Library!Next]_(Library!vars)
      <3>1. Stored' \in {Stored, Stored \ {id}}
        BY <2>0, <2>4, DeleteRemoves DEF TemplateDelete
      <3>2. Library!HostCall("template_delete", id) \in AnyHostCall
        BY DEF Library!HostCall, AnyHostCall
      <3>. QED
        BY <2>4, <3>1, <3>2 DEF TemplateDelete, Library!TemplateDelete, enrollVars
    <2>5. ASSUME NEW t \in Callers, EnrollFinalize(t)
          PROVE  Library!Next
      <3>1. Stored' = Stored \cup {enroll_id}
        BY <2>0, <2>5, StoreAdds DEF EnrollFinalize
      <3>. QED
        BY <2>5, <3>1 DEF EnrollFinalize, Library!EnrollFinalize
    <2>6. ASSUME NEW t \in Callers, EnrollAbort(t)
          PROVE  Library!Next
      <3>1. Stored' = Stored
        BY <2>6 DEF EnrollAbort, storeVars, Stored, Valid
      <3>. QED
        BY <2>6, <3>1 DEF EnrollAbort, Library!EnrollAbort
    <2>7. ASSUME NEW t \in Callers, TemplateDeleteAll(t)
          PROVE  Library!Next
      <3>1. Stored' = {}
        BY <2>7 DEF TemplateDeleteAll, Stored, Valid, NoTemplate
      <3>2. Library!HostCall("template_delete_all", 0) \in AnyHostCall
        BY DEF Library!HostCall, AnyHostCall
      <3>. QED
        BY <2>7, <3>1, <3>2 DEF TemplateDeleteAll, Library!TemplateDeleteAll, enrollVars
    <2>8. ASSUME NEW t \in Callers,
                 \/ EnrollCapture(t) \/ EnrollCaptureDone(t) \/ MatchDone(t)
                 \/ \E id \in Ids \cup {0} : Match(t, id)
          PROVE  UNCHANGED Library!vars
      BY <2>1, <2>8 DEF EnrollCapture, EnrollCaptureDone, Match, MatchDone, storeVars, enrollVars
    <2>9. CASE UNCHANGED vars
      BY <2>1, <2>9 DEF vars, storeVars, enrollVars
    <2>10. ASSUME NEW t \in Callers, SettingsStep(t)
           PROVE  UNCHANGED Library!vars
      BY <2>0, <2>1, <2>10, SettingsApart DEF storeVars, enrollVars
    <2>. QED
      BY <2>2, <2>3, <2>4, <2>5, <2>6, <2>7, <2>8, <2>9, <2>10 DEF Next, CallStep
  <1>. QED
    BY <1>1, <1>2, Invariance, PTL DEF Spec, StoreContract, Library!Spec
-----------------------------------------------------------------------------
(***************************************************************************)
(* The shell.                                                              *)
(***************************************************************************)

(* What the conversion of a number to an id gives: for an id in range the id itself. *)
LEMMA Conversion ==
    ASSUME NEW a \in Arguments
    PROVE  /\ uint16(a) \in Ids \cup {0}
           /\ InRange(a) => uint16(a) \in Ids /\ uint16(a) = a
<1>1. a \in Int /\ UINT16_MAX \in Nat \ {0} /\ Ids = 1 .. UINT16_MAX
  BY ShellAssumption
<1>2. uint16(a) \in 0 .. UINT16_MAX
  BY <1>1 DEF uint16
<1>3. InRange(a) => uint16(a) = a
  BY <1>1 DEF uint16, InRange
<1> QED BY <1>1, <1>2, <1>3 DEF InRange

(* Every step of a command is a call that Emul admits, or no call. *)
LEMMA StepIsCall ==
    ASSUME AskedFor, NEW t \in Callers, ShellStep(t)
    PROVE  CallStep(t) \/ UNCHANGED vars
<1>1. CASE EnrollStartCommand(t) \/ TemplateDeleteCommand(t) \/ MatchCommand(t)
  BY <1>1, Conversion DEF EnrollStartCommand, TemplateDeleteCommand, MatchCommand, CallStep
<1>2. CASE EnrollCaptureCommand(t) \/ EnrollFinalizeCommand(t) \/ EnrollAbortCommand(t)
           \/ TemplateDeleteAllCommand(t)
  BY <1>2 DEF EnrollCaptureCommand, EnrollFinalizeCommand, EnrollAbortCommand,
              TemplateDeleteAllCommand, CallStep
<1>3. CASE AttrSetCommand(t) \/ LedCommand(t)
  BY <1>3 DEF AttrSetCommand, LedCommand, CallStep, SettingsStep
<1>4. CASE ApplicationCall(t)
  BY <1>4 DEF ApplicationCall, CallStep, SettingsStep
<1>5. CASE Enroll(t) \/ CaptureFails(t) \/ Completes(t)
  BY <1>5 DEF Enroll, CaptureFails, Completes
<1>6. CASE EnrollStarts(t)
  <2>1. asked[t] \in Ids
    BY <1>6 DEF AskedFor, EnrollStarts
  <2> QED BY <1>6, <2>1 DEF EnrollStarts, CallStep
<1>7. CASE Captures(t) \/ Aborts(t) \/ Finalizes(t)
  BY <1>7 DEF Captures, Aborts, Finalizes, CallStep
<1> QED BY <1>1, <1>2, <1>3, <1>4, <1>5, <1>6, <1>7 DEF ShellStep, EnrollStep

(* Only four calls touch which enrollment is open. *)
LEMMA OtherCalls ==
    ASSUME NEW t \in Callers, AskedFor, ShellStep(t)
    PROVE  \/ UNCHANGED <<enrolling, enroll_id, samples>>
           \/ /\ EnrollCaptureCommand(t) \/ Captures(t)
              /\ UNCHANGED <<enrolling, enroll_id>>
           \/ EnrollStartCommand(t) \/ EnrollFinalizeCommand(t) \/ EnrollAbortCommand(t)
           \/ EnrollStarts(t) \/ Aborts(t) \/ Finalizes(t)
<1>1. ASSUME UNCHANGED enrollVars PROVE UNCHANGED <<enrolling, enroll_id, samples>>
  BY <1>1 DEF enrollVars
<1>2. ASSUME UNCHANGED vars PROVE UNCHANGED <<enrolling, enroll_id, samples>>
  BY <1>1, <1>2 DEF vars
<1>3. CASE EnrollCaptureCommand(t) \/ Captures(t)
  BY <1>1, <1>3 DEF EnrollCaptureCommand, Captures, EnrollCapture, EnrollCaptureDone
<1>4. CASE TemplateDeleteCommand(t) \/ TemplateDeleteAllCommand(t) \/ MatchCommand(t)
  BY <1>1, <1>4 DEF TemplateDeleteCommand, TemplateDeleteAllCommand, MatchCommand, TemplateDelete,
                    TemplateDeleteAll, Match, MatchDone
<1>5. CASE AttrSetCommand(t) \/ LedCommand(t) \/ ApplicationCall(t)
  BY <1>1, <1>5 DEF AttrSetCommand, LedCommand, ApplicationCall, AttrSet, LedControl, SetControl,
                    Set, TemplateStore
<1>6. CASE Enroll(t) \/ CaptureFails(t) \/ Completes(t)
  BY <1>2, <1>6 DEF Enroll, CaptureFails, Completes
<1> QED BY <1>3, <1>4, <1>5, <1>6 DEF ShellStep, EnrollStep

(* A step of t changes its own command only: it begins inside with EnrollStarts and *)
(* leaves the inside with Aborts or Finalizes.                                      *)
Moves(t) ==
    /\ command' \in [Callers -> Steps] /\ asked' \in [Callers -> Ids \cup {0}]
    /\ captured' \in [Callers -> Nat]
    /\ command'[t] # "none" => asked'[t] \in Ids
    /\ \A u \in Callers \ {t} :
            command'[u] = command[u] /\ asked'[u] = asked[u] /\ captured'[u] = captured[u]
    /\ Inside(t)' => (Inside(t) /\ asked'[t] = asked[t]) \/ EnrollStarts(t)
    /\ Inside(t) /\ ~Inside(t)' => Aborts(t) \/ Finalizes(t)

LEMMA CommandSteps ==
    ASSUME ShellTypeOK, AskedFor, NEW t \in Callers, ShellStep(t)
    PROVE  Moves(t)
<1> USE DEF ShellTypeOK
<1>1. ASSUME UNCHANGED enrollCommandVars
      PROVE  /\ UNCHANGED <<command, asked, captured>>
             /\ Inside(t)' <=> Inside(t)
  BY <1>1 DEF enrollCommandVars, Inside
<1>2. ASSUME UNCHANGED enrollCommandVars PROVE Moves(t)
  BY <1>1, <1>2 DEF AskedFor, Moves
<1>3. ASSUME UNCHANGED shellVars PROVE UNCHANGED enrollCommandVars
  BY <1>3 DEF shellVars
<1>4. CASE Enroll(t)
  <2>1. PICK a \in Arguments : InRange(a) /\ asked' = [asked EXCEPT ![t] = uint16(a)]
    BY <1>4 DEF Enroll
  <2>2. uint16(a) \in Ids
    BY <2>1, Conversion
  <2>3. /\ command' = [command EXCEPT ![t] = "start"] /\ command[t] = "none"
        /\ UNCHANGED captured
    BY <1>4 DEF Enroll, Idle
  <2>4. ~Inside(t) /\ ~Inside(t)'
    BY <2>3 DEF Inside
  <2>5. asked' \in [Callers -> Ids \cup {0}] /\ asked'[t] \in Ids
        /\ \A u \in Callers \ {t} : asked'[u] = asked[u]
    BY <2>1, <2>2
  <2>6. command' \in [Callers -> Steps] /\ \A u \in Callers \ {t} : command'[u] = command[u]
    BY <2>3 DEF Steps
  <2> QED BY <2>3, <2>4, <2>5, <2>6 DEF Moves
<1>5. ASSUME Returns(t), Inside(t) => Aborts(t) \/ Finalizes(t)
      PROVE  Moves(t)
  BY <1>5 DEF Returns, Steps, Inside, Moves
<1>6. ASSUME NEW step \in Steps \ {"none"}, Continues(t, step), captured' \in [Callers -> Nat],
             command[t] # "none",
             \A u \in Callers \ {t} : captured'[u] = captured[u],
             step \in {"capture", "finalize", "abort"} => Inside(t) \/ EnrollStarts(t),
             Inside(t) => step \in {"capture", "finalize", "abort"} \/ Finalizes(t)
      PROVE  Moves(t)
  BY <1>6 DEF Continues, Inside, AskedFor, Moves
<1>7. CASE EnrollStarts(t)
  <2>1. ~Inside(t) /\ command[t] = "start"
    BY <1>7 DEF EnrollStarts, Inside
  <2>2. Returns(t) \/ (Continues(t, "capture") /\ UNCHANGED captured)
    BY <1>7 DEF EnrollStarts
  <2> QED BY <1>5, <1>6, <1>7, <2>1, <2>2 DEF Steps
<1>8. CASE CaptureFails(t)
  <2>1. Inside(t) /\ Continues(t, "abort") /\ UNCHANGED captured /\ command[t] # "none"
    BY <1>8 DEF CaptureFails, Inside
  <2> QED BY <1>6, <2>1 DEF Steps
<1>9. CASE Captures(t)
  <2>1. Inside(t) /\ command[t] # "none"
    BY <1>9 DEF Captures, Inside
  <2>2. CASE UNCHANGED enrollCommandVars
    BY <1>2, <2>2
  <2>3. CASE /\ captured' = [captured EXCEPT ![t] = @ + 1]
             /\ Continues(t, IF captured'[t] = Samples THEN "finalize" ELSE "capture")
    <3>1. \E step \in {"finalize", "capture"} : Continues(t, step)
      BY <2>3
    <3>2. captured' \in [Callers -> Nat] /\ \A u \in Callers \ {t} : captured'[u] = captured[u]
      BY <2>3
    <3> QED BY <1>6, <2>1, <3>1, <3>2 DEF Steps
  <2> QED BY <1>9, <2>2, <2>3 DEF Captures
<1>10. CASE Aborts(t)
  BY <1>5, <1>10 DEF Aborts
<1>11. CASE Finalizes(t)
  <2>1. Inside(t) /\ command[t] # "none"
    BY <1>11 DEF Finalizes, Inside
  <2>2. Returns(t) \/ (Continues(t, "complete") /\ UNCHANGED captured)
    BY <1>11 DEF Finalizes
  <2> QED BY <1>5, <1>6, <1>11, <2>1, <2>2 DEF Steps
<1>12. CASE Completes(t)
  <2>1. ~Inside(t) /\ Returns(t)
    BY <1>12 DEF Completes, Inside
  <2> QED BY <1>5, <2>1
<1>13. CASE EnrollStartCommand(t) \/ EnrollFinalizeCommand(t) \/ EnrollAbortCommand(t)
  BY <1>2, <1>13 DEF EnrollStartCommand, EnrollFinalizeCommand, EnrollAbortCommand
<1>14. CASE EnrollCaptureCommand(t) \/ TemplateDeleteCommand(t) \/ TemplateDeleteAllCommand(t)
            \/ MatchCommand(t) \/ AttrSetCommand(t) \/ LedCommand(t) \/ ApplicationCall(t)
  BY <1>2, <1>3, <1>14 DEF EnrollCaptureCommand, TemplateDeleteCommand, TemplateDeleteAllCommand,
                           MatchCommand, AttrSetCommand, LedCommand, ApplicationCall
<1> QED BY <1>4, <1>7, <1>8, <1>9, <1>10, <1>11, <1>12, <1>13, <1>14 DEF ShellStep, EnrollStep

(* Somebody ends the enrollment: every other command that is inside knows. *)
LEMMA EndedInv ==
    ASSUME ShellTypeOK, NEW t \in Callers, Moves(t), EndedBy(t), ~Inside(t)'
    PROVE  /\ opener' = NoOne /\ disturbed' \in [Callers -> BOOLEAN]
           /\ KeepsOpen'
<1>1. opener' = NoOne /\ disturbed' \in [Callers -> BOOLEAN]
  BY DEF EndedBy
<1>2. ASSUME NEW u \in Callers, Inside(u)' PROVE disturbed'[u]
  <2>1. u # t /\ Inside(u)
    BY <1>2 DEF Moves, Inside
  <2> QED BY <2>1 DEF EndedBy
<1> QED BY <1>1, <1>2 DEF KeepsOpen

(* The loop counter of a command. *)
LEMMA CountsInv ==
    ASSUME ShellTypeOK, AskedFor, Counts, NEW t \in Callers, ShellStep(t)
    PROVE  Counts'
<1>1. /\ \A u \in Callers \ {t} : command'[u] = command[u] /\ captured'[u] = captured[u]
      /\ command'[t] \in Steps /\ captured'[t] \in Nat
  BY CommandSteps DEF Moves
<1> SUFFICES /\ command'[t] \in {"none", "start"} => captured'[t] = 0
             /\ command'[t] = "finalize" => captured'[t] = Samples
  BY <1>1 DEF Counts
<1>2. ASSUME UNCHANGED enrollCommandVars \/ Returns(t)
      PROVE  /\ command'[t] \in {"none", "start"} => captured'[t] = 0
             /\ command'[t] = "finalize" => captured'[t] = Samples
  BY <1>2 DEF Counts, enrollCommandVars, Returns, ShellTypeOK
<1>3. ASSUME NEW step \in {"capture", "abort", "complete"}, Continues(t, step)
      PROVE  command'[t] \notin {"none", "start", "finalize"}
  BY <1>3 DEF Continues, ShellTypeOK
<1>4. CASE Enroll(t)
  BY <1>4 DEF Enroll, Idle, Counts, ShellTypeOK
<1>5. CASE EnrollStarts(t) \/ CaptureFails(t) \/ Aborts(t) \/ Finalizes(t) \/ Completes(t)
  BY <1>2, <1>3, <1>5 DEF EnrollStarts, CaptureFails, Aborts, Finalizes, Completes
<1>6. CASE Captures(t)
  <2>1. CASE /\ captured' = [captured EXCEPT ![t] = @ + 1]
             /\ Continues(t, IF captured'[t] = Samples THEN "finalize" ELSE "capture")
    <3>1. CASE captured'[t] = Samples
      BY <2>1, <3>1 DEF Continues, ShellTypeOK
    <3>2. CASE captured'[t] # Samples
      BY <1>3, <2>1, <3>2
    <3> QED BY <3>1, <3>2
  <2> QED BY <1>2, <1>6, <2>1 DEF Captures
<1>7. CASE UNCHANGED enrollCommandVars
  BY <1>2, <1>7
<1> QED BY <1>4, <1>5, <1>6, <1>7 DEF ShellStep, EnrollStep, EnrollStartCommand,
        EnrollCaptureCommand, EnrollFinalizeCommand, EnrollAbortCommand, TemplateDeleteCommand,
        TemplateDeleteAllCommand, MatchCommand, AttrSetCommand, LedCommand, ApplicationCall, shellVars

(* Whose enrollment is open, and its samples: a command that is inside counts no more *)
(* captures than there are samples in the enrollment it has opened.                   *)
LEMMA HasOwnSamplesInv ==
    ASSUME TypeOK, ShellIInv, NEW t \in Callers, ShellStep(t)
    PROVE  HasOwnSamples'
<1>1. ShellTypeOK /\ AskedFor /\ Counts /\ HasOwnSamples /\ Moves(t)
  BY CommandSteps DEF ShellIInv
<1>2. /\ opener \in Callers \cup {NoOne} /\ NoOne \notin Callers /\ samples \in Nat
      /\ captured \in [Callers -> Nat]
  BY <1>1, ShellAssumption DEF ShellTypeOK, ShellAssumption, TypeOK
<1>3. \A u \in Callers \ {t} : (Inside(u)' <=> Inside(u)) /\ captured'[u] = captured[u]
  BY <1>1 DEF Moves, Inside
<1>4. ASSUME opener' = NoOne PROVE HasOwnSamples'
  BY <1>2, <1>4 DEF HasOwnSamples
<1>5. ASSUME UNCHANGED <<enrolling, opener>>, samples' \in Nat, samples' >= samples,
             Inside(t)' => Inside(t) /\ (captured'[t] = captured[t]
                           \/ (captured'[t] = captured[t] + 1 /\ samples' = samples + 1))
      PROVE  HasOwnSamples'
  <2>1. SUFFICES ASSUME NEW u \in Callers, opener = u, Inside(u)'
                 PROVE  samples' >= captured'[u]
    BY <1>1, <1>5 DEF HasOwnSamples
  <2>2. Inside(u)
    BY <1>3, <1>5, <2>1
  <2>3. samples >= captured[u] /\ captured[u] \in Nat
    BY <1>1, <1>2, <2>1, <2>2 DEF HasOwnSamples
  <2>4. \/ captured'[u] = captured[u]
        \/ captured'[u] = captured[u] + 1 /\ samples' = samples + 1
    BY <1>3, <1>5, <2>1
  <2> QED BY <1>2, <1>5, <2>3, <2>4
<1>6. ASSUME UNCHANGED <<enrolling, opener, samples>>, ~Inside(t)' \/ UNCHANGED <<command, captured>>
      PROVE  HasOwnSamples'
  <2>1. Inside(t)' => Inside(t) /\ captured'[t] = captured[t]
    BY <1>6 DEF Inside
  <2> QED BY <1>2, <1>5, <1>6, <2>1
<1>7. ASSUME UNCHANGED <<vars, opener>> PROVE UNCHANGED <<enrolling, opener, samples>>
  BY <1>7 DEF vars, enrollVars
<1>8. CASE EnrollStartCommand(t) \/ EnrollFinalizeCommand(t) \/ EnrollAbortCommand(t)
  BY <1>4, <1>8 DEF EnrollStartCommand, EnrollFinalizeCommand, EnrollAbortCommand, EndedBy
<1>9. CASE EnrollStarts(t)
  <2>1. CASE EnrollStart(t, asked[t]) /\ opener' = t /\ UNCHANGED captured
    <3>1. enrolling' /\ samples' = 0 /\ captured'[t] = 0
      BY <1>1, <1>9, <2>1 DEF EnrollStarts, EnrollStart, Counts
    <3> QED BY <2>1, <3>1 DEF HasOwnSamples
  <2>2. CASE Returns(t) /\ UNCHANGED <<vars, opener>>
    <3>1. ~Inside(t)'
      BY <1>1, <2>2 DEF Returns, Inside, ShellTypeOK
    <3> QED BY <1>6, <1>7, <2>2, <3>1
  <2> QED BY <1>9, <2>1, <2>2 DEF EnrollStarts
<1>10. CASE Aborts(t) \/ Finalizes(t)
  <2>1. CASE EndedBy(t)
    BY <1>4, <2>1 DEF EndedBy
  <2>2. CASE UNCHANGED <<vars, opener>>
    <3>1. ~Inside(t)'
      BY <1>1, <1>10 DEF Aborts, Finalizes, Returns, Continues, Inside, ShellTypeOK
    <3> QED BY <1>6, <1>7, <2>2, <3>1
  <2> QED BY <1>10, <2>1, <2>2 DEF Aborts, Finalizes
<1>11. CASE EnrollCaptureCommand(t) \/ Captures(t)
  <2>1. UNCHANGED <<enrolling, opener>>
    BY <1>11 DEF EnrollCaptureCommand, Captures, EnrollCapture, EnrollCaptureDone, enrollVars, shellVars
  <2>2. /\ samples' = samples \/ samples' = samples + 1
        /\ \/ UNCHANGED enrollCommandVars
           \/ /\ captured' = [captured EXCEPT ![t] = @ + 1] /\ command[t] = "capture"
              /\ samples' = samples + 1
    BY <1>11 DEF EnrollCaptureCommand, Captures, EnrollCapture, EnrollCaptureDone, enrollVars, shellVars
  <2>3. samples' \in Nat /\ samples' >= samples
    BY <1>2, <2>2
  <2>4. CASE UNCHANGED enrollCommandVars
    BY <1>5, <2>1, <2>3, <2>4 DEF enrollCommandVars, Inside
  <2>5. CASE /\ captured' = [captured EXCEPT ![t] = @ + 1] /\ command[t] = "capture"
             /\ samples' = samples + 1
    <3>1. captured'[t] = captured[t] + 1 /\ Inside(t)
      BY <1>2, <2>5 DEF Inside
    <3> QED BY <1>5, <2>1, <2>3, <2>5, <3>1
  <2> QED BY <2>2, <2>4, <2>5
<1>12. CASE CaptureFails(t)
  <2>1. UNCHANGED <<vars, opener, captured>> /\ Inside(t)
    BY <1>12 DEF CaptureFails, Inside
  <2>2. UNCHANGED <<enrolling, samples>>
    BY <1>7, <2>1
  <2> QED BY <1>2, <1>5, <2>1, <2>2
<1>13. ASSUME ~(\/ EnrollStartCommand(t) \/ EnrollFinalizeCommand(t) \/ EnrollAbortCommand(t)
                \/ EnrollStarts(t) \/ Aborts(t) \/ Finalizes(t)
                \/ EnrollCaptureCommand(t) \/ Captures(t) \/ CaptureFails(t))
       PROVE  HasOwnSamples'
  <2>1. UNCHANGED <<enrolling, samples>>
    BY <1>1, <1>13, OtherCalls
  <2>2. opener' = opener /\ (UNCHANGED <<command, captured>> \/ Enroll(t) \/ Completes(t))
    BY <1>13 DEF ShellStep, EnrollStep, TemplateDeleteCommand, TemplateDeleteAllCommand, MatchCommand,
                 AttrSetCommand, LedCommand, ApplicationCall, Enroll, Completes, shellVars,
                 enrollCommandVars
  <2>3. Enroll(t) \/ Completes(t) => ~Inside(t)'
    BY <1>1 DEF Enroll, Completes, Returns, Inside, ShellTypeOK
  <2> QED BY <1>6, <2>1, <2>2, <2>3
<1> QED BY <1>8, <1>9, <1>10, <1>11, <1>12, <1>13

LEMMA ShellStepInv ==
    ASSUME TypeOK, ShellIInv, NEW t \in Callers, ShellStep(t)
    PROVE  ShellIInv'
<1>1. ShellTypeOK /\ AskedFor /\ KeepsOpen /\ Counts /\ Moves(t)
  BY CommandSteps DEF ShellIInv
<1>2. /\ AskedFor'
      /\ command' \in [Callers -> Steps] /\ asked' \in [Callers -> Ids \cup {0}]
      /\ captured' \in [Callers -> Nat]
  BY <1>1 DEF Moves, AskedFor
<1>3. \A u \in Callers \ {t} : /\ Inside(u)' <=> Inside(u)
                               /\ asked'[u] = asked[u]
  BY <1>1 DEF Moves, Inside
<1> SUFFICES /\ opener' \in Callers \cup {NoOne} /\ disturbed' \in [Callers -> BOOLEAN]
             /\ KeepsOpen'
  BY <1>1, <1>2, CountsInv, HasOwnSamplesInv DEF ShellIInv, ShellTypeOK
<1>4. opener \in Callers \cup {NoOne} /\ disturbed \in [Callers -> BOOLEAN]
  BY <1>1 DEF ShellTypeOK
<1>5. CASE EnrollStartCommand(t)
  <2>1. /\ ~enrolling /\ opener' = NoOne /\ UNCHANGED <<command, asked, disturbed>>
    BY <1>5 DEF EnrollStartCommand, EnrollStart, enrollCommandVars
  <2>2. \A u \in Callers : Inside(u)' <=> Inside(u)
    BY <2>1 DEF Inside
  <2> QED BY <1>1, <1>4, <2>1, <2>2 DEF KeepsOpen
<1>6. CASE EnrollFinalizeCommand(t) \/ EnrollAbortCommand(t)
  <2>1. EndedBy(t) /\ command[t] = "none" /\ command' = command
    BY <1>6 DEF EnrollFinalizeCommand, EnrollAbortCommand, Idle, enrollCommandVars
  <2> QED BY <1>1, <2>1, EndedInv DEF Inside
<1>7. CASE EnrollStarts(t)
  <2>1. ~Inside(t) /\ UNCHANGED disturbed /\ command[t] = "start"
    BY <1>7 DEF EnrollStarts, Inside
  <2>2. CASE EnrollStart(t, asked[t]) /\ opener' = t /\ Continues(t, "capture")
    <3>1. /\ ~enrolling /\ enrolling' /\ enroll_id' = asked[t] /\ asked'[t] = asked[t]
      BY <2>2 DEF EnrollStart, Continues
    <3>2. Inside(t)'
      BY <1>1, <2>2 DEF Continues, Inside, ShellTypeOK
    <3>3. \A u \in Callers \ {t} : Inside(u)' => disturbed[u]
      BY <1>1, <1>3, <3>1 DEF KeepsOpen
    <3> QED BY <1>4, <2>1, <2>2, <3>1, <3>2, <3>3 DEF KeepsOpen
  <2>3. CASE Returns(t) /\ UNCHANGED <<vars, opener>>
    <3>1. ~Inside(t)' /\ UNCHANGED <<enrolling, enroll_id, opener>>
      BY <1>1, <2>3 DEF Returns, Inside, ShellTypeOK, vars, enrollVars
    <3> QED BY <1>1, <1>3, <1>4, <2>1, <3>1 DEF KeepsOpen
  <2> QED BY <1>7, <2>2, <2>3 DEF EnrollStarts
<1>8. CASE Aborts(t)
  <2>1. ~Inside(t)'
    BY <1>1, <1>8 DEF Aborts, Returns, Inside, ShellTypeOK
  <2>2. CASE EndedBy(t)
    BY <1>1, <2>1, <2>2, EndedInv
  <2>3. CASE ~enrolling /\ NotDisturbed(t) /\ UNCHANGED <<vars, opener>>
    <3>1. UNCHANGED <<enrolling, enroll_id, opener>>
      BY <2>3 DEF vars, enrollVars
    <3>2. disturbed' \in [Callers -> BOOLEAN] /\ \A u \in Callers \ {t} : disturbed'[u] = disturbed[u]
      BY <1>4, <2>3 DEF NotDisturbed
    <3> QED BY <1>1, <1>3, <1>4, <2>1, <2>3, <3>1, <3>2 DEF KeepsOpen
  <2> QED BY <1>8, <2>2, <2>3 DEF Aborts
<1>9. CASE Finalizes(t)
  <2>1. ~Inside(t)'
    BY <1>1, <1>9 DEF Finalizes, Returns, Continues, Inside, ShellTypeOK
  <2>2. CASE EndedBy(t)
    BY <1>1, <2>1, <2>2, EndedInv
  <2>3. CASE NotDisturbed(t) /\ UNCHANGED <<vars, opener>>
    <3>1. UNCHANGED <<enrolling, enroll_id>>
      BY <2>3 DEF vars, enrollVars
    <3>2. disturbed' \in [Callers -> BOOLEAN] /\ \A u \in Callers \ {t} : disturbed'[u] = disturbed[u]
      BY <1>4, <2>3 DEF NotDisturbed
    <3>3. opener' = opener
      BY <2>3
    <3>4. KeepsOpen'
      BY <1>1, <1>3, <2>1, <3>1, <3>2 DEF KeepsOpen
    <3> QED BY <1>4, <3>2, <3>3, <3>4
  <2> QED BY <1>9, <2>2, <2>3 DEF Finalizes
<1>10. ASSUME ~(\/ EnrollStartCommand(t) \/ EnrollFinalizeCommand(t) \/ EnrollAbortCommand(t)
                \/ EnrollStarts(t) \/ Aborts(t) \/ Finalizes(t))
       PROVE  UNCHANGED <<enrolling, enroll_id, opener, disturbed>>
  <2>1. UNCHANGED <<enrolling, enroll_id>>
    BY <1>1, <1>10, OtherCalls
  <2>2. UNCHANGED <<opener, disturbed>>
    BY <1>10 DEF ShellStep, EnrollStep, EnrollCaptureCommand, TemplateDeleteCommand,
                 TemplateDeleteAllCommand, MatchCommand, AttrSetCommand, LedCommand, ApplicationCall,
                 Enroll, Captures, CaptureFails, Completes, shellVars
  <2> QED BY <2>1, <2>2
<1>11. CASE ~(\/ EnrollStartCommand(t) \/ EnrollFinalizeCommand(t) \/ EnrollAbortCommand(t)
              \/ EnrollStarts(t) \/ Aborts(t) \/ Finalizes(t))
  <2>1. /\ Inside(t)' => Inside(t) /\ asked'[t] = asked[t]
        /\ Inside(t) => Inside(t)'
    BY <1>1, <1>11 DEF Moves
  <2> QED BY <1>1, <1>3, <1>4, <1>10, <1>11, <2>1 DEF KeepsOpen
<1> QED BY <1>5, <1>6, <1>7, <1>8, <1>9, <1>11

(* The inductive invariant of the commands holds beside that of the emulator. *)
THEOREM ShellInvariance == ShellSpec => [](ShellIInv /\ IInv)
<1>1. ShellInit => ShellIInv /\ IInv
  <2> SUFFICES ASSUME ShellInit PROVE ShellIInv
    BY InitInv DEF ShellInit
  <2> QED BY DEF ShellInit, ShellIInv, ShellTypeOK, AskedFor, KeepsOpen, Counts,
           HasOwnSamples, Inside, Steps
<1>2. ShellIInv /\ IInv /\ [ShellNext]_<<vars, shellVars>> => ShellIInv' /\ IInv'
  <2> SUFFICES ASSUME ShellIInv, IInv, [ShellNext]_<<vars, shellVars>>
               PROVE  ShellIInv' /\ IInv'
    OBVIOUS
  <2>1. ASSUME UNCHANGED vars PROVE IInv'
    BY <2>1 DEF vars, storeVars, enrollVars, deviceVars, callVars, IInv, TypeOK, CountIsExact,
       SampleBudget, OwnSamples, EnrollmentHasId, TemplateIsOwn, Valid, Capturing
  <2>2. ASSUME NEW t \in Callers, ShellStep(t) PROVE ShellIInv' /\ IInv'
    <3>1. ShellIInv'
      BY <2>2, ShellStepInv DEF IInv
    <3>2. CallStep(t) \/ UNCHANGED vars
      BY <2>2, StepIsCall DEF ShellIInv
    <3>3. ASSUME CallStep(t) PROVE IInv'
      BY <2>2, <3>3, StepType, StepStore, StepEnroll DEF IInv
    <3> QED BY <2>1, <3>1, <3>2, <3>3
  <2>3. CASE UNCHANGED <<vars, shellVars>>
    <3>1. UNCHANGED <<command, asked, captured, opener, disturbed, enrolling, enroll_id,
                     samples>>
      BY <2>3 DEF shellVars, enrollCommandVars, vars, enrollVars
    <3>2. ShellIInv'
      BY <3>1 DEF ShellIInv, ShellTypeOK, AskedFor, KeepsOpen, Counts, HasOwnSamples,
                    Inside
    <3> QED BY <2>1, <2>3, <3>2
  <2> QED BY <2>2, <2>3 DEF ShellNext
<1> QED BY <1>1, <1>2, PTL DEF ShellSpec

(* An enroll command leaves an enrollment of its own open only at a finalize the full *)
(* store has refused, with all samples taken.                                          *)
THEOREM LeftOpen == ShellSpec => LeftOpenWhenFull
<1> DEFINE WhenFull ==
        \A t \in Callers :
            Inside(t) /\ ~Inside(t)' /\ opener = t /\ opener' = t
            => samples >= Samples /\ Valid = Slots
<1>1. ShellIInv /\ IInv /\ [ShellNext]_<<vars, shellVars>> => [WhenFull]_<<vars, shellVars>>
  <2> SUFFICES ASSUME ShellIInv, IInv, NEW u \in Callers, ShellStep(u),
                      NEW t \in Callers, Inside(t), ~Inside(t)', opener = t, opener' = t
               PROVE  samples >= Samples /\ Valid = Slots
    BY DEF ShellNext
  <2>1. Moves(u) /\ ShellTypeOK /\ Counts /\ HasOwnSamples /\ NoOne \notin Callers
    BY CommandSteps, ShellAssumption DEF ShellIInv, ShellAssumption
  <2>2. u = t
    BY <2>1 DEF Moves, Inside
  <2>3. Aborts(t) \/ Finalizes(t)
    BY <2>1, <2>2 DEF Moves
  <2>4. enrolling /\ ~EndedBy(t)
    BY <2>1 DEF HasOwnSamples, EndedBy
  <2>5. /\ Finalizes(t) /\ command[t] = "finalize"
        /\ samples < Samples \/ Valid = Slots
    BY <2>3, <2>4 DEF Aborts, Finalizes
  <2>6. samples >= Samples
    BY <2>1, <2>5 DEF Counts, HasOwnSamples
  <2> QED BY <2>5, <2>6, EmulAssumption DEF IInv, TypeOK, EmulAssumption
<1> QED BY <1>1, ShellInvariance, PTL DEF ShellSpec, LeftOpenWhenFull

(* What shells and applications do to the sensor is what Emul admits. *)
THEOREM ShellImplementsEmul == ShellSpec => Spec
<1>1. ShellInit => Init
  BY DEF ShellInit
<1>2. ShellIInv /\ [ShellNext]_<<vars, shellVars>> => [Next]_vars
  <2> SUFFICES ASSUME ShellIInv, [ShellNext]_<<vars, shellVars>> PROVE [Next]_vars
    OBVIOUS
  <2>1. ASSUME NEW t \in Callers, ShellStep(t) PROVE [Next]_vars
    <3>1. CallStep(t) \/ UNCHANGED vars
      BY <2>1, StepIsCall DEF ShellIInv
    <3> QED BY <3>1 DEF Next
  <2>2. CASE UNCHANGED <<vars, shellVars>>
    BY <2>2
  <2> QED BY <2>1, <2>2 DEF ShellNext
<1> QED BY <1>1, <1>2, ShellInvariance, PTL DEF ShellSpec, Spec

(* So with shells and applications, too, templates have samples of their own id, *)
THEOREM ShellTemplates == ShellSpec => []TemplateIsOwn
BY ShellImplementsEmul, OwnTemplates

(* and the store keeps its promises. *)
THEOREM ShellStore == ShellSpec => StoreContract
BY ShellImplementsEmul, Contract

(* "Enrollment complete" is the truth, unless somebody else ended an enrollment during *)
(* the command: the enrollment open at its finalize is the one it started.             *)
THEOREM TellsTheTruth == ShellSpec => CompleteIsStored
<1> DEFINE Truth ==
        \A t \in Callers :
            command[t] = "finalize" /\ command'[t] = "complete" /\ ~disturbed[t]
            => asked[t] \in Stored' /\ enroll_id = asked[t]
<1>1. ShellIInv /\ IInv /\ [ShellNext]_<<vars, shellVars>> => [Truth]_<<vars, shellVars>>
  <2> SUFFICES ASSUME ShellIInv, IInv, NEW u \in Callers, ShellStep(u),
                      NEW t \in Callers, command[t] = "finalize", command'[t] = "complete",
                      ~disturbed[t]
               PROVE  asked[t] \in Stored' /\ enroll_id = asked[t]
    BY DEF ShellNext
  <2>1. Moves(u) /\ ShellTypeOK /\ AskedFor
    BY CommandSteps DEF ShellIInv
  <2>2. u = t
    BY <2>1 DEF Moves
  <2>3. Inside(t) /\ ~Inside(t)'
    BY DEF Inside
  <2>4. Finalizes(t)
    BY <2>1, <2>2, <2>3 DEF Moves, Aborts
  <2>5. EnrollFinalize(t)
    BY <2>1, <2>4 DEF Finalizes, Returns, ShellTypeOK
  <2>6. enrolling /\ enroll_id = asked[t] /\ enroll_id \in Ids
    BY <2>1, <2>3 DEF ShellIInv, KeepsOpen, AskedFor
  <2>7. Stored' = Stored \cup {enroll_id}
    BY <2>5, <2>6, StoreAdds DEF EnrollFinalize, IInv
  <2> QED BY <2>6, <2>7
<1> QED BY <1>1, ShellInvariance, PTL DEF ShellSpec, CompleteIsStored
=============================================================================
