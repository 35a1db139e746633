----------------------------- MODULE GT5XProofs -----------------------------
(***************************************************************************)
(* Theorems about GT5X for every number of callers and templates, when a   *)
(* wait for an answer expires only if no answer is under way (Late = 0)    *)
(* and the line may lose or corrupt frames ("split" is excluded).          *)
(***************************************************************************)
EXTENDS GT5X, FiniteSetTheorems, SequenceTheorems, TLAPS

LineAssumption == Late = 0 /\ Faults \subseteq {"lost", "corrupt"}

(* The calls and their steps. *)
LEMMA CallTyped ==
    ASSUME NEW c \in Calls
    PROVE  /\ c # NoCall /\ c.kind # "none"
           /\ c.id \in Ids \cup {0}
           /\ c.kind \in {"enroll_start", "template_store", "template_read", "template_delete",
                          "verify"} => c.id \in Ids
           /\ c.kind \in {"enroll_start", "template_store", "template_read", "template_delete",
                          "verify", "enroll_capture", "enroll_finalize", "template_delete_all",
                          "template_list", "identify", "led_on", "led_off"}
  BY DEF Calls, NoCall, Leds

LEMMA KindOf ==
    ASSUME NEW c \in Calls \cup {NoCall}, NEW s \in StepsOf(c.kind)
    PROVE  /\ s = "none" <=> c = NoCall
           /\ s \in Steps \cup {"none"}
           /\ s = "ENROLL_START" => c.kind = "enroll_start"
           /\ s \in {"ENROLL", "REMOVAL"} => c.kind = "enroll_capture"
           /\ s = "VERIFY" => c.kind = "verify"
           /\ s = "IDENTIFY" => c.kind = "identify"
           /\ s = "CMOS_LED" => c.kind \in Captures \cup Leds
           /\ s \in {"IS_PRESS_FINGER", "CAPTURE_FINGER"} => c.kind \in Captures
           /\ s = "CHECK_ENROLLED" <=> c.kind = "template_list"
           /\ s = "DELETE_ID" => c.kind = "template_delete"
           /\ s = "DELETE_ALL" <=> c.kind = "template_delete_all"
           /\ s \in {"SET_TEMPLATE", "DATA"} => c.kind = "template_store"
           /\ s \in {"GET_TEMPLATE"} \cup DataIn <=> c.kind = "template_read"
           /\ s = "GET_ENROLL_COUNT"
                => c.kind \in {"enroll_finalize", "template_store", "template_delete"}
<1>1. CASE c = NoCall
  BY <1>1 DEF NoCall, StepsOf, Leds, Captures, DataIn
<1>2. CASE c \in Calls
  BY <1>2, CallTyped DEF StepsOf, Leds, Captures, Steps, DataIn
<1> QED BY <1>1, <1>2

(* A thread without the mutex is outside the driver or waits for the finger to be lifted. *)
LEMMA Aside ==
    ASSUME TypeOK, Places, NEW u \in Callers, lock # u
    PROVE  \/ at[u] = Outside /\ call[u] = NoCall
           \/ /\ at[u].phase = "removal" /\ at[u].step = "REMOVAL"
              /\ call[u].kind = "enroll_capture"
<1>1. at[u].phase \in {"idle", "removal"}
  BY DEF TypeOK, Places, Phases
<1>2. CASE at[u].phase = "idle"
  BY <1>2 DEF Places
<1>3. CASE at[u].phase = "removal"
  <2>1. at[u].step = "REMOVAL" /\ call[u] \in Calls \cup {NoCall}
        /\ at[u].step \in StepsOf(call[u].kind)
    BY <1>3 DEF Places, TypeOK
  <2> QED BY <1>3, <2>1, KindOf
<1> QED BY <1>1, <1>2, <1>3

(* What the state says of a thread that is in an exchange. *)
LEMMA InCall ==
    ASSUME IInv, NEW t \in Callers, lock = t
    PROVE  /\ call[t] \in Calls /\ at[t].step \in Steps /\ at[t].n \in Nat
           /\ at[t].phase \in {"send", "recv", "expired"}
           /\ at[t].step \in StepsOf(call[t].kind)
           /\ lock # "nobody"
           /\ \A u \in Callers : u # t => lock # u
<1>1. at[t].phase \in {"send", "recv", "expired"}
  BY DEF IInv, Places
<1>2. at[t] # Outside
  BY <1>1 DEF Outside
<1>3. call[t] \in Calls /\ at[t].n \in Nat /\ at[t].step \in StepsOf(call[t].kind)
  BY <1>2 DEF IInv, TypeOK, Places
<1>4. at[t].step \in Steps
  BY <1>3, CallTyped, KindOf
<1> QED BY <1>1, <1>3, <1>4, GT5XAssumption DEF GT5XAssumption

LEMMA RequestTyped ==
    ASSUME IInv, NEW t \in Callers, lock = t, at[t].step \notin DataIn
    PROVE  /\ HwParam(t) \in Nat
           /\ Request(t) \in Requests
           /\ Request(t).by = t /\ Request(t).param = HwParam(t)
           /\ Request(t).cmd = (IF at[t].step = "REMOVAL" THEN "IS_PRESS_FINGER" ELSE at[t].step)
<1>1. /\ call[t] \in Calls /\ at[t].step \in Steps /\ at[t].n \in Nat
      /\ at[t].step \in StepsOf(call[t].kind)
  BY InCall
<1>2. at[t].step \in {"ENROLL_START", "SET_TEMPLATE", "GET_TEMPLATE", "DELETE_ID", "VERIFY"}
        => call[t].id \in Ids
  BY <1>1, CallTyped, KindOf
<1>3. \A i \in Ids : api_id_to_hw_id(i) \in Nat
  BY GT5XAssumption DEF GT5XAssumption, Ids, api_id_to_hw_id
<1>4. enroll_state \in Nat
  BY DEF IInv, TypeOK
<1>5. HwParam(t) \in Nat
  <2>1. CASE at[t].step \in {"ENROLL_START", "SET_TEMPLATE", "GET_TEMPLATE", "DELETE_ID", "VERIFY"}
    BY <1>2, <1>3, <2>1 DEF HwParam
  <2>2. CASE at[t].step = "CHECK_ENROLLED"
    BY <1>1, <2>2 DEF HwParam
  <2>3. CASE at[t].step = "ENROLL"
    BY <1>4, <2>3 DEF HwParam
  <2>4. CASE at[t].step \notin {"ENROLL_START", "SET_TEMPLATE", "GET_TEMPLATE", "DELETE_ID", "VERIFY",
                               "CHECK_ENROLLED", "ENROLL"}
    BY <2>4 DEF HwParam
  <2> QED BY <2>1, <2>2, <2>3, <2>4
<1>6. (IF at[t].step = "REMOVAL" THEN "IS_PRESS_FINGER" ELSE at[t].step) \in Steps
  BY <1>1 DEF Steps
<1> QED BY <1>5, <1>6 DEF Request, Requests

(* Sequences of at most two packets. *)
LEMMA OneRequest ==
    ASSUME NEW r \in Requests
    PROVE  <<r>> # <<>> /\ Head(<<r>>) = r /\ Tail(<<r>>) = <<>> /\ Append(<<>>, r) = <<r>>
           /\ <<r>> \in Seq(Requests)
  OBVIOUS

LEMMA NoMore ==
    ASSUME NEW S, NEW s \in Seq(S), Len(s) <= 0
    PROVE  s = <<>>
  BY EmptySeq, LenProperties

LEMMA Packet ==
    ASSUME NEW f \in Packets, NEW s \in Seq(Packets)
    PROVE  /\ <<f>> \in Seq(Packets) /\ <<f>> # <<>> /\ Head(<<f>>) = f /\ Tail(<<f>>) = <<>>
           /\ <<f>> \o s \in Seq(Packets) /\ <<f>> \o s # <<>>
           /\ Head(<<f>> \o s) = f /\ Len(Tail(<<f>> \o s)) = Len(s)
<1>1. <<f>> \in Seq(Packets) /\ Len(<<f>>) = 1 /\ <<f>>[1] = f /\ Head(<<f>>) = f
      /\ Tail(<<f>>) = <<>> /\ <<f>> # <<>>
  OBVIOUS
<1>2. Len(s) \in Nat
  BY LenProperties
<1>3. /\ <<f>> \o s \in Seq(Packets) /\ Len(<<f>> \o s) = 1 + Len(s)
      /\ (<<f>> \o s)[1] = f
  BY <1>1, <1>2, ConcatProperties
<1>4. <<f>> \o s # <<>>
  BY <1>2, <1>3, EmptySeq
<1>5. Head(<<f>> \o s) = (<<f>> \o s)[1]
  BY <1>3, <1>4
<1>6. Len(Tail(<<f>> \o s)) = Len(s)
  BY <1>2, <1>3, <1>4, HeadTailProperties
<1> QED BY <1>1, <1>3, <1>4, <1>5, <1>6

LEMMA PiecesTyped ==
    /\ \A n \in Nat : DataPieces(n) \in Seq(Packets) /\ Len(DataPieces(n)) = n
    /\ \A i \in 1 .. Pieces : Damaged(i) \in Seq(Packets) /\ Len(Damaged(i)) = Pieces
<1>1. ASSUME NEW n \in Nat PROVE DataPieces(n) \in Seq(Packets) /\ Len(DataPieces(n)) = n
  <2>1. \A i \in 1 .. n : Frame("DATA", i) \in Packets
    BY DEF Frame, Packets, Answers
  <2>2. DataPieces(n) = [i \in 1 .. n |-> Frame("DATA", i)]
    BY DEF DataPieces
  <2>3. DataPieces(n) \in [1 .. n -> Packets]
    BY <2>1, <2>2
  <2> HIDE DEF DataPieces
  <2>4. DataPieces(n) \in Seq(Packets) /\ DOMAIN DataPieces(n) = 1 .. n
    BY <2>2, <2>3
  <2> QED BY <2>4, LenProperties
<1>2. ASSUME NEW i \in 1 .. Pieces PROVE Damaged(i) \in Seq(Packets) /\ Len(Damaged(i)) = Pieces
  <2>1. DataPieces(Pieces) \in Seq(Packets) /\ Len(DataPieces(Pieces)) = Pieces
    BY <1>1, GT5XAssumption DEF GT5XAssumption
  <2>2. Frame("BAD", 0) \in Packets
    BY DEF Frame, Packets, Answers
  <2> QED BY <2>1, <2>2, ExceptSeq DEF Damaged
<1> QED BY <1>1, <1>2

(* The packet is none of the sensor's. *)
LEMMA NoPacketIsNone == \A f \in Packets : f # NoPacket
  BY DEF Packets, NoPacket, Answers

(* What the sensor does on the command of t, and what its answer says. *)
Stores(t) == at[t].step = "ENROLL" /\ enroll_state = 3
Deletes(t) == at[t].step \in {"DELETE_ID", "DELETE_ALL"}

Told(t, o) ==
    /\ at[t].step = "CHECK_ENROLLED" => o.answer = (IF at[t].n \in db THEN "ACK" ELSE "IS_NOT_USED")
    /\ o.answer = "ACK" =>
        /\ at[t].step = "DELETE_ID" => api_id_to_hw_id(call[t].id) \notin o.db
        /\ at[t].step = "DELETE_ALL" => o.db = {}
        /\ at[t].step = "ENROLL_START" => o.enrolling.id = api_id_to_hw_id(call[t].id)
        /\ at[t].step = "CAPTURE_FINGER" => o.image = [by |-> t, best |-> HwParam(t)]
        /\ at[t].step = "VERIFY" => api_id_to_hw_id(call[t].id) \in db
        /\ at[t].step = "IDENTIFY" => o.param \in db

Done(t, o) ==
    /\ \/ o.db = db
       \/ Stores(t) /\ enrolling.pass = 3 /\ o.db = db \cup {enrolling.id}
       \/ at[t].step = "DELETE_ID" /\ o.db = db \ {api_id_to_hw_id(call[t].id)}
       \/ at[t].step = "DELETE_ALL" /\ o.db = {}
    /\ \/ o.enrolling = enrolling
       \/ at[t].step = "ENROLL_START"
       \/ /\ at[t].step = "ENROLL"
          /\ o.enrolling.pass = 0 \/ (enrolling.pass # 0 /\ o.enrolling.id = enrolling.id)

Typed(o) ==
    /\ o.answer \in Answers \ {"DATA", "BAD"} /\ o.param \in Nat
    /\ o.db \in SUBSET HwIds
    /\ o.enrolling \in [id : HwIds, pass : 0 .. 3]
    /\ o.image \in [by : Callers \cup {"nobody"}, best : {0, 1}]

LEMMA OutcomeOf ==
    ASSUME IInv, NEW t \in Callers, lock = t, at[t].step \notin DataIn,
           NEW o \in Outcomes(Request(t))
    PROVE  Typed(o) /\ Told(t, o) /\ Done(t, o)
<1> DEFINE c == Request(t)
           hw == api_id_to_hw_id(call[t].id)
<1>1. /\ c.by = t /\ c.param = HwParam(t)
      /\ c.cmd = (IF at[t].step = "REMOVAL" THEN "IS_PRESS_FINGER" ELSE at[t].step)
  BY RequestTyped
<1>2. /\ db \in SUBSET HwIds /\ enrolling \in [id : HwIds, pass : 0 .. 3]
      /\ image \in [by : Callers \cup {"nobody"}, best : {0, 1}]
  BY DEF IInv, TypeOK
<1>3. \A answer, param :
        /\ Became(answer, param).answer = answer /\ Became(answer, param).param = param
        /\ Became(answer, param).db = db /\ Became(answer, param).enrolling = enrolling
        /\ Became(answer, param).image = image
  BY DEF Became
<1>4. HwIds \subseteq Nat /\ 0 \in HwIds
  BY GT5XAssumption DEF GT5XAssumption, HwIds
<1>5. /\ at[t].step \in Steps /\ call[t] \in Calls
      /\ at[t].step \in StepsOf(call[t].kind)
  BY InCall
<1> HIDE DEF c
<1>6. CASE at[t].step \in {"CMOS_LED", "SET_TEMPLATE", "DATA"}
  <2>1. o = Became("ACK", 0)
    BY <1>1, <1>6 DEF Outcomes, c
  <2> QED BY <1>2, <1>3, <1>6, <2>1 DEF Typed, Told, Done, Answers
<1>7. CASE at[t].step = "GET_ENROLL_COUNT"
  <2>1. o = Became("ACK", Cardinality(db))
    BY <1>1, <1>7 DEF Outcomes, c
  <2>2. Cardinality(db) \in Nat
    <3>1. IsFiniteSet(HwIds)
      BY FS_Interval, GT5XAssumption DEF GT5XAssumption, HwIds
    <3> QED BY <1>2, <3>1, FS_Subset, FS_CardinalityType
  <2> QED BY <1>2, <1>3, <1>7, <2>1, <2>2 DEF Typed, Told, Done, Answers
<1>8. CASE at[t].step \in {"IS_PRESS_FINGER", "REMOVAL"}
  <2>1. o \in {Became("ACK", p) : p \in 0..1}
    BY <1>1, <1>8 DEF Outcomes, c
  <2> QED BY <1>2, <1>3, <1>8, <2>1 DEF Typed, Told, Done, Answers
<1>9. CASE at[t].step \in {"CHECK_ENROLLED", "GET_TEMPLATE"}
  <2>1. o = Became(IF c.param \in db THEN "ACK" ELSE "IS_NOT_USED", 0)
    BY <1>1, <1>9 DEF Outcomes, c
  <2>2. at[t].step = "CHECK_ENROLLED" => c.param = at[t].n
    BY <1>1 DEF HwParam
  <2> QED BY <1>2, <1>3, <1>9, <2>1, <2>2 DEF Typed, Told, Done, Answers
<1>10. CASE at[t].step = "DELETE_ID"
  <2>1. o = [Became(IF c.param \in db THEN "ACK" ELSE "IS_NOT_USED", 0)
                EXCEPT !.db = @ \ {c.param}]
    BY <1>1, <1>10 DEF Outcomes, c
  <2>2. c.param = hw
    BY <1>1, <1>10 DEF HwParam
  <2>3. /\ o.answer \in {"ACK", "IS_NOT_USED"} /\ o.param = 0 /\ o.db = db \ {hw}
        /\ o.enrolling = enrolling /\ o.image = image
    BY <2>1, <2>2 DEF Became
  <2> QED BY <1>2, <1>10, <2>3 DEF Typed, Told, Done, Answers
<1>11. CASE at[t].step = "DELETE_ALL"
  <2>1. o = [Became(IF db = {} THEN "DB_IS_EMPTY" ELSE "ACK", 0) EXCEPT !.db = {}]
    BY <1>1, <1>11 DEF Outcomes, c
  <2>2. /\ o.answer \in {"ACK", "DB_IS_EMPTY"} /\ o.param = 0 /\ o.db = {}
        /\ o.enrolling = enrolling /\ o.image = image
    BY <2>1 DEF Became
  <2> QED BY <1>2, <1>11, <2>2 DEF Typed, Told, Done, Answers
<1>12. CASE at[t].step = "CAPTURE_FINGER"
  <2>1. \/ o = [Became("FINGER_IS_NOT_PRESSED", 0) EXCEPT !.image = NoImage]
        \/ o = [Became("ACK", 0) EXCEPT !.image = [by |-> t, best |-> c.param]]
    BY <1>1, <1>12 DEF Outcomes, c
  <2>2. c.param = HwParam(t) /\ HwParam(t) \in {0, 1}
    BY <1>1, <1>12 DEF HwParam
  <2>3. /\ o.answer \in {"ACK", "FINGER_IS_NOT_PRESSED"} /\ o.param = 0 /\ o.db = db
        /\ o.enrolling = enrolling
        /\ IF o.answer = "ACK" THEN o.image = [by |-> t, best |-> HwParam(t)] ELSE o.image = NoImage
    BY <2>1, <2>2 DEF Became
  <2> QED BY <1>2, <1>12, <2>2, <2>3 DEF Typed, Told, Done, Answers, NoImage
<1>13. CASE at[t].step = "ENROLL_START"
  <2>1. \/ o = Became("IS_ALREADY_USED", 0)
        \/ o = [Became("ACK", 0) EXCEPT !.enrolling = [id |-> c.param, pass |-> 1]]
    BY <1>1, <1>13 DEF Outcomes, c
  <2>2. c.param = hw
    BY <1>1, <1>13 DEF HwParam
  <2>3. hw \in HwIds
    BY <1>5, <1>13, CallTyped, KindOf, GT5XAssumption
    DEF GT5XAssumption, Ids, HwIds, api_id_to_hw_id
  <2>4. /\ o.answer \in {"ACK", "IS_ALREADY_USED"} /\ o.param = 0 /\ o.db = db
        /\ o.image = image
        /\ o.enrolling = IF o.answer = "ACK" THEN [id |-> hw, pass |-> 1] ELSE enrolling
    BY <2>1, <2>2 DEF Became
  <2> QED BY <1>2, <1>13, <2>3, <2>4 DEF Typed, Told, Done, Answers
<1>14. CASE at[t].step = "ENROLL"
  <2>1. c.param = enroll_state /\ c.cmd = "ENROLL" /\ enroll_state \in 1 .. 3
    BY <1>1, <1>5, <1>14, KindOf DEF HwParam, IInv, Stages
  <2>2. \/ \E a \in {"TURN_ERR", "BAD_FINGER"} : o = Became(a, 0)
        \/ o = [Became("ENROLL_FAILED", 0) EXCEPT !.enrolling = NoEnrollment]
        \/ /\ enrolling.pass = enroll_state /\ enroll_state < 3
           /\ o = [Became("ACK", 0) EXCEPT !.enrolling.pass = @ + 1]
        \/ /\ enrolling.pass = enroll_state /\ enroll_state = 3
           /\ o = [Became("ACK", 0) EXCEPT !.enrolling = NoEnrollment,
                                           !.db = @ \cup {enrolling.id}]
    BY <2>1 DEF Outcomes, c
  <2>3. /\ o.answer \in {"TURN_ERR", "BAD_FINGER", "ENROLL_FAILED", "ACK"} /\ o.param = 0
        /\ o.image = image
        /\ \/ o.db = db
           \/ enroll_state = 3 /\ enrolling.pass = 3 /\ o.db = db \cup {enrolling.id}
        /\ \/ o.enrolling = enrolling
           \/ o.enrolling = NoEnrollment
           \/ /\ enrolling.pass \in 1 .. 2
              /\ o.enrolling = [enrolling EXCEPT !.pass = @ + 1]
    <3>1. ASSUME NEW a \in {"TURN_ERR", "BAD_FINGER"}, o = Became(a, 0)
          PROVE  /\ o.answer = a /\ o.param = 0 /\ o.image = image
                 /\ o.db = db /\ o.enrolling = enrolling
      BY <1>3, <3>1
    <3>2. ASSUME o = [Became("ENROLL_FAILED", 0) EXCEPT !.enrolling = NoEnrollment]
          PROVE  /\ o.answer = "ENROLL_FAILED" /\ o.param = 0 /\ o.image = image
                 /\ o.db = db /\ o.enrolling = NoEnrollment
      BY <3>2 DEF Became
    <3>3. ASSUME o = [Became("ACK", 0) EXCEPT !.enrolling.pass = @ + 1]
          PROVE  /\ o.answer = "ACK" /\ o.param = 0 /\ o.image = image
                 /\ o.db = db /\ o.enrolling = [enrolling EXCEPT !.pass = @ + 1]
      BY <3>3 DEF Became
    <3>4. ASSUME o = [Became("ACK", 0) EXCEPT !.enrolling = NoEnrollment,
                                             !.db = @ \cup {enrolling.id}]
          PROVE  /\ o.answer = "ACK" /\ o.param = 0 /\ o.image = image
                 /\ o.db = db \cup {enrolling.id} /\ o.enrolling = NoEnrollment
      <4>1. o = [answer |-> "ACK", param |-> 0, db |-> db \cup {enrolling.id},
                 enrolling |-> NoEnrollment, image |-> image]
        BY <3>4 DEF Became
      <4> QED BY <4>1
    <3> QED BY <2>1, <2>2, <3>1, <3>2, <3>3, <3>4
  <2>4. /\ o.enrolling \in [id : HwIds, pass : 0 .. 3]
        /\ \/ o.enrolling = enrolling
           \/ o.enrolling.pass = 0 \/ (enrolling.pass # 0 /\ o.enrolling.id = enrolling.id)
    BY <1>2, <1>4, <2>3 DEF NoEnrollment
  <2>5. enrolling.id \in HwIds
    BY <1>2
  <2> QED BY <1>2, <1>14, <2>3, <2>4, <2>5 DEF Typed, Told, Done, Answers, Stores
<1>15. CASE at[t].step \in {"VERIFY", "IDENTIFY"}
  <2>1. \/ at[t].step = "VERIFY" /\ c.param \in db /\ o = Became("ACK", 0)
        \/ \E a \in {"VERIFY_FAILED", "IS_NOT_USED"} :
                at[t].step = "VERIFY" /\ o = Became(a, 0)
        \/ o = Became("IDENTIFY_FAILED", 0)
        \/ \E m \in db : at[t].step = "IDENTIFY" /\ o = Became("ACK", m)
    BY <1>1, <1>15 DEF Outcomes, c
  <2>2. /\ o.answer \in {"ACK", "VERIFY_FAILED", "IS_NOT_USED", "IDENTIFY_FAILED"}
        /\ o.param \in Nat /\ o.db = db /\ o.enrolling = enrolling /\ o.image = image
        /\ at[t].step = "VERIFY" /\ o.answer = "ACK" => hw \in db
        /\ at[t].step = "IDENTIFY" /\ o.answer = "ACK" => o.param \in db
    <3>1. at[t].step = "VERIFY" => c.param = hw
      BY <1>1 DEF HwParam
    <3> QED BY <1>2, <1>3, <1>4, <1>15, <2>1, <3>1
  <2> QED BY <1>2, <1>15, <2>2 DEF Typed, Told, Done, Answers
<1> QED BY <1>5, <1>6, <1>7, <1>8, <1>9, <1>10, <1>11, <1>12, <1>13, <1>14, <1>15 DEF Steps, DataIn

(* The thread whose exchange is under way. *)
LEMMA Exchanging ==
    ASSUME IInv, ~Quiet \/ rx_on
    PROVE  /\ lock \in Callers
           /\ commands # <<>> => at[lock].phase = "recv" /\ Requested(lock)
           /\ rx_on /\ line # <<>> => /\ at[lock].phase = "recv" /\ Answered(lock)
<1>1. lock \in Callers
  BY DEF IInv, TypeOK, OneExchange
<1>2. at[lock].phase \in {"send", "recv", "expired"}
  BY <1>1, InCall
<1> QED BY <1>1, <1>2, NoPacketIsNone DEF IInv, OneExchange, Quiet, Requested, Answered, Arrived

(* A thread that awaits an answer in a state like the one before. *)
LEMMA StillWaiting ==
    ASSUME IInv, NEW t \in Callers, lock = t, at[t].phase = "recv",
           UNCHANGED callVars, UNCHANGED driverVars, TypeOK', SameEnrollment',
           Answered(t)' \/ Arrived(t)',
           at[t].step \in {"CHECK_ENROLLED", "GET_ENROLL_COUNT"} => UNCHANGED db
    PROVE  IInv'
<1>1. \A u \in Callers : u # t => lock # u
  BY InCall
<1>2. Places' /\ Stages'
  BY DEF IInv, Places, Stages, callVars, driverVars
<1>3. commands' = <<>>
  BY DEF Answered, Arrived
<1>4. OneExchange'
  <2>1. \A u \in Callers : u # t => at[u].phase \notin {"send", "recv", "expired"}
    BY <1>1 DEF IInv, Places
  <2>2. lock # "nobody"
    BY InCall
  <2> QED BY <2>1, <2>2 DEF OneExchange, callVars
<1>5. Progress'
  <2>1. SUFFICES ASSUME NEW u \in Callers, lock' = u
                 PROVE  (/\ at[u].step = "CHECK_ENROLLED" =>
                              at[u].n < MaxTemplates /\ out = Found(at[u].n)
                         /\ at[u].step \in DataIn => at[u].n < Pieces
                         /\ call[u].kind = "template_delete" /\ at[u].step = "GET_ENROLL_COUNT"
                              => api_id_to_hw_id(call[u].id) \notin db
                         /\ ~(at[u].phase = "send" \/ commands # <<>>))'
    BY DEF Progress
  <2>2. u = t
    BY <2>1 DEF callVars
  <2>3. at[t].step = "CHECK_ENROLLED" => Found(at[t].n)' = Found(at[t].n)
    BY DEF Found, callVars
  <2> QED BY <1>3, <2>2, <2>3 DEF IInv, Progress, callVars
<1> QED BY <1>2, <1>4, <1>5 DEF IInv

LEMMA SensorInv == ASSUME LineAssumption, IInv, Sensor PROVE IInv'
<1>1. PICK t \in Callers : lock = t /\ at[t].phase = "recv" /\ Requested(t)
  BY Exchanging DEF Sensor, Quiet
<1>2. /\ Request(t) \in Requests /\ commands = <<Request(t)>> /\ line = <<>>
      /\ packet = NoPacket /\ rx_on /\ at[t].step \notin DataIn
  BY <1>1, RequestTyped DEF Requested
<1>3. Head(commands) = Request(t) /\ Tail(commands) = <<>>
  BY <1>2, OneRequest
<1>4. PICK o \in Outcomes(Request(t)) :
        /\ db' = o.db /\ enrolling' = o.enrolling
        /\ image' = IF Request(t).cmd = "CAPTURE_FINGER" THEN o.image ELSE NoImage
        /\ \E frames \in Arrivals(Request(t), o) : line' = line \o frames
  BY <1>3 DEF Sensor
<1>5. /\ commands' = <<>> /\ UNCHANGED <<callVars, driverVars, rxVars>>
  BY <1>3 DEF Sensor
<1>6. Typed(o) /\ Told(t, o) /\ Done(t, o)
  BY <1>1, <1>2, OutcomeOf
<1> DEFINE ack == Frame(o.answer, o.param)
           bad == Frame("BAD", 0)
<1>7. /\ ack \in Packets /\ bad \in Packets
      /\ ack.answer = o.answer /\ ack.param = o.param /\ bad.answer = "BAD"
  BY <1>6 DEF Typed, Frame, Packets, Answers
<1> HIDE DEF ack, bad
<1>8. Request(t).cmd = (IF at[t].step = "REMOVAL" THEN "IS_PRESS_FINGER" ELSE at[t].step)
  BY <1>1, <1>2, RequestTyped
<1>9. PICK frames :
        /\ line' = line \o frames
        /\ \/ frames \in {<<>>, <<ack>>, <<bad>>}
           \/ /\ at[t].step = "GET_TEMPLATE" /\ o.answer = "ACK"
              /\ \E s \in Seq(Packets) : Len(s) <= Pieces /\ frames = <<ack>> \o s
  <2>1. PICK frames \in Arrivals(Request(t), o) : line' = line \o frames
    BY <1>4
  <2>2. CASE Request(t).cmd = "GET_TEMPLATE" /\ o.answer = "ACK"
    <3>1. \/ frames = <<>>
          \/ \E n \in 0 .. Pieces : frames = <<ack>> \o DataPieces(n)
          \/ \E i \in 1 .. Pieces : frames = <<ack>> \o Damaged(i)
      <4>1. "split" \notin Faults
        BY DEF LineAssumption
      <4> DEFINE whole == {<<ack>> \o DataPieces(Pieces)}
                 lost == {<<>>} \cup {<<ack>> \o DataPieces(n) : n \in 0 .. Pieces - 1}
                 corrupt == {<<ack>> \o Damaged(i) : i \in 1 .. Pieces}
                 split == {f \o DataPieces(n) : f \in {<<>>, <<bad>>}, n \in 1 .. Pieces}
      <4>2. frames \in whole \cup lost \cup corrupt
        <5>1. Arrivals(Request(t), o)
                = whole \cup (IF "lost" \in Faults THEN lost ELSE {})
                        \cup (IF "corrupt" \in Faults THEN corrupt ELSE {})
                        \cup (IF "split" \in Faults THEN split ELSE {})
          BY <2>2 DEF Arrivals, ack, bad
        <5> HIDE DEF whole, lost, corrupt, split
        <5> QED BY <2>1, <4>1, <5>1
      <4>3. \A n \in 0 .. Pieces - 1 : n \in 0 .. Pieces
        BY GT5XAssumption DEF GT5XAssumption
      <4>4. Pieces \in 0 .. Pieces
        BY GT5XAssumption DEF GT5XAssumption
      <4> QED BY <4>2, <4>3, <4>4, Zenon
    <3>2. at[t].step = "GET_TEMPLATE"
      BY <1>8, <2>2
    <3>3. ASSUME NEW n \in 0 .. Pieces, frames = <<ack>> \o DataPieces(n)
          PROVE  \E s \in Seq(Packets) : Len(s) <= Pieces /\ frames = <<ack>> \o s
      <4>1. n \in Nat /\ n <= Pieces
        BY GT5XAssumption DEF GT5XAssumption
      <4> QED BY <3>3, <4>1, PiecesTyped
    <3>4. ASSUME NEW i \in 1 .. Pieces, frames = <<ack>> \o Damaged(i)
          PROVE  \E s \in Seq(Packets) : Len(s) <= Pieces /\ frames = <<ack>> \o s
      BY <3>4, PiecesTyped, GT5XAssumption DEF GT5XAssumption
    <3> QED BY <2>1, <2>2, <3>1, <3>2, <3>3, <3>4
  <2>3. CASE ~(Request(t).cmd = "GET_TEMPLATE" /\ o.answer = "ACK")
    <3>1. frames \in {<<>>, <<ack>>, <<bad>>}
      <4>1. Arrivals(Request(t), o)
              = {<<ack>>} \cup (IF "lost" \in Faults THEN {<<>>} ELSE {})
                          \cup (IF "corrupt" \in Faults THEN {<<bad>>} ELSE {})
        BY <2>3 DEF Arrivals, ack, bad
      <4> QED BY <2>1, <4>1
    <3> QED BY <2>1, <3>1
  <2> QED BY <2>2, <2>3
<1>10. frames \in Seq(Packets)
  BY <1>7, <1>9, Packet, EmptySeq
<1>11. line' = frames
  BY <1>2, <1>9, <1>10, ConcatEmptySeq
<1>12. HwParam(t)' = HwParam(t)
  BY <1>5 DEF HwParam, callVars, driverVars
<1>13. Means(t, ack)' /\ Means(t, bad)'
  <2>1. at'[t] = at[t] /\ call'[t] = call[t] /\ db' = o.db /\ enrolling' = o.enrolling
    BY <1>4, <1>5 DEF callVars
  <2>2. at[t].step \in {"CHECK_ENROLLED", "VERIFY", "IDENTIFY"} => o.db = db
    BY <1>6 DEF Done, Stores
  <2>3. at[t].step = "CAPTURE_FINGER" => image' = o.image
    BY <1>4, <1>8
  <2>4. ack' = ack /\ bad' = bad
    BY DEF ack, bad, Frame
  <2>5. Means(t, ack)'
    <3>1. /\ at[t].step = "CHECK_ENROLLED" =>
                ack.answer = (IF at[t].n \in db' THEN "ACK" ELSE "IS_NOT_USED")
          /\ ack.answer = "ACK" =>
                /\ at[t].step = "DELETE_ID" => api_id_to_hw_id(call[t].id) \notin db'
                /\ at[t].step = "DELETE_ALL" => db' = {}
                /\ at[t].step = "ENROLL_START" => enrolling'.id = api_id_to_hw_id(call[t].id)
                /\ at[t].step = "CAPTURE_FINGER" => image' = [by |-> t, best |-> HwParam(t)]
                /\ at[t].step = "VERIFY" => api_id_to_hw_id(call[t].id) \in db'
                /\ at[t].step = "IDENTIFY" => ack.param \in db'
      BY <1>6, <1>7, <2>1, <2>2, <2>3 DEF Told
    <3> QED BY <1>12, <2>1, <2>4, <3>1 DEF Means
  <2>6. Means(t, bad)'
    BY <1>7, <2>1, <2>4 DEF Means
  <2> QED BY <2>5, <2>6
<1>14. Answered(t)'
  <2>1. ASSUME line' # <<>> PROVE Means(t, Head(line))' /\ Follows(t, Head(line), Tail(line))'
    <3>1. Pieces \in Nat /\ at'[t] = at[t]
      BY <1>5, GT5XAssumption DEF GT5XAssumption, callVars
    <3>2. /\ Head(line') \in {ack, bad} /\ Len(Tail(line')) \in Nat
          /\ \/ Len(Tail(line')) = 0
             \/ /\ at[t].step = "GET_TEMPLATE" /\ Head(line').answer = "ACK"
                /\ Len(Tail(line')) <= Pieces
      <4>1. CASE frames \in {<<ack>>, <<bad>>}
        BY <1>7, <1>11, <4>1, Packet, EmptySeq
      <4>2. CASE /\ at[t].step = "GET_TEMPLATE" /\ o.answer = "ACK"
                 /\ \E s \in Seq(Packets) : Len(s) <= Pieces /\ frames = <<ack>> \o s
        BY <1>7, <1>11, <4>2, Packet, LenProperties
      <4> QED BY <1>9, <1>11, <2>1, <4>1, <4>2
    <3>3. Len(Tail(line')) <= Behind(t, Head(line))'
      <4>1. at[t].step = "GET_TEMPLATE" => at[t].step \notin DataIn
        BY DEF DataIn
      <4>2. Behind(t, Head(line))' = IF at[t].step = "GET_TEMPLATE" /\ Head(line').answer = "ACK"
                                     THEN Pieces ELSE 0
        BY <1>2, <3>1, <4>1 DEF Behind
      <4>3. Len(Tail(line')) <= IF at[t].step = "GET_TEMPLATE" /\ Head(line').answer = "ACK"
                                THEN Pieces ELSE 0
        <5>1. PICK n : n = Len(Tail(line'))
          OBVIOUS
        <5>2. n \in Nat /\ (n = 0 \/ (/\ at[t].step = "GET_TEMPLATE" /\ Head(line').answer = "ACK"
                                     /\ n <= Pieces))
          BY <3>2, <5>1, Zenon
        <5>3. n <= IF at[t].step = "GET_TEMPLATE" /\ Head(line').answer = "ACK"
                   THEN Pieces ELSE 0
          BY <3>1, <5>2
        <5> QED BY <5>1, <5>3, Zenon
      <4> QED BY <4>2, <4>3, Zenon
    <3>4. ack' = ack /\ bad' = bad
      BY DEF ack, bad, Frame
    <3>5. Means(t, Head(line))'
      <4>1. CASE Head(line') = ack
        BY <1>13, <3>4, <4>1 DEF Means
      <4>2. CASE Head(line') = bad
        BY <1>13, <3>4, <4>2 DEF Means
      <4> QED BY <3>2, <4>1, <4>2
    <3> QED BY <3>3, <3>5 DEF Follows
  <2> QED BY <1>2, <1>5, <2>1 DEF Answered, rxVars
<1>15. TypeOK'
  <2>1. image' \in [by : Callers \cup {"nobody"}, best : {0, 1}]
    BY <1>4, <1>6 DEF Typed, NoImage
  <2>2. commands' \in Seq(Requests)
    BY <1>5
  <2> QED BY <1>4, <1>5, <1>6, <1>10, <1>11, <2>1, <2>2
      DEF IInv, TypeOK, Typed, callVars, driverVars, rxVars
<1>16. SameEnrollment'
  <2>1. at[t].step = "ENROLL_START" => enroll_state = Idle
    BY <1>1, InCall, KindOf DEF IInv, Stages
  <2> QED BY <1>4, <1>5, <1>6, <2>1 DEF IInv, SameEnrollment, Done, driverVars, Idle
<1>17. at[t].step \in {"CHECK_ENROLLED", "GET_ENROLL_COUNT"} => UNCHANGED db
  BY <1>4, <1>6 DEF Done, Stores
<1> QED BY <1>1, <1>5, <1>14, <1>15, <1>16, <1>17, StillWaiting

LEMMA RxIsrInv == ASSUME IInv, RxIsr PROVE IInv'
<1>1. PICK t \in Callers : lock = t /\ at[t].phase = "recv" /\ Answered(t) /\ line # <<>>
  BY Exchanging DEF RxIsr
<1>2. /\ packet' = Head(line) /\ line' = Tail(line) /\ rx_on' = FALSE
      /\ UNCHANGED <<callVars, driverVars, commands, sensorVars>>
  BY DEF RxIsr
<1>3. Head(line) \in Packets /\ Tail(line) \in Seq(Packets)
  BY <1>1, HeadTailProperties, EmptySeq DEF IInv, TypeOK
<1>4. TypeOK'
  BY <1>2, <1>3 DEF IInv, TypeOK, callVars, driverVars, sensorVars
<1>5. SameEnrollment' /\ UNCHANGED db
  BY <1>2 DEF IInv, SameEnrollment, driverVars, sensorVars
<1>6. Arrived(t)'
  BY <1>1, <1>2, <1>3, NoPacketIsNone
  DEF Answered, Arrived, Means, Follows, Behind, HwParam, callVars, driverVars, sensorVars
<1> QED BY <1>1, <1>2, <1>4, <1>5, <1>6, StillWaiting

(* The thread that holds the mutex lets go of it: its call is over, or waits for the *)
(* finger to be lifted.                                                               *)
Leaves(t) ==
    /\ lock' = "nobody"
    /\ \/ call' = [call EXCEPT ![t] = NoCall] /\ at' = [at EXCEPT ![t] = Outside]
       \/ /\ call' = call /\ call[t].kind = "enroll_capture"
          /\ \E n \in Nat : at' = [at EXCEPT ![t] = [phase |-> "removal", step |-> "REMOVAL", n |-> n]]

LEMMA LeavesInv ==
    ASSUME IInv, NEW t \in Callers, lock = t, Leaves(t), Quiet', rx_on' = FALSE,
           enroll_state' \in 0 .. 4, enroll_id' \in Ids \cup {0}, led_on' \in BOOLEAN,
           out' \in SUBSET Ids, ret' \in Errors \cup {"OK"}, UNCHANGED sensorVars,
           enroll_state' # Idle => enroll_id' \in Ids, SameEnrollment'
    PROVE  IInv'
<1>1. \A u \in Callers \ {t} :
        /\ at'[u] = at[u] /\ call'[u] = call[u]
        /\ \/ at[u] = Outside /\ call[u] = NoCall
           \/ at[u].phase = "removal" /\ at[u].step = "REMOVAL" /\ call[u].kind = "enroll_capture"
  BY InCall, Aside DEF IInv, TypeOK, Leaves
<1>2. \/ at'[t] = Outside /\ call'[t] = NoCall
      \/ /\ call'[t] = call[t] /\ call[t].kind = "enroll_capture"
         /\ at'[t].phase = "removal" /\ at'[t].step = "REMOVAL"
  BY DEF IInv, TypeOK, Leaves
<1>3. "nobody" \notin Callers /\ lock' = "nobody"
  BY GT5XAssumption DEF GT5XAssumption, Leaves
<1>4. TypeOK'
  <2>1. call' \in [Callers -> Calls \cup {NoCall}]
    BY DEF IInv, TypeOK, Leaves
  <2>2. at' \in [Callers -> [phase : Phases, step : Steps \cup {"none"}, n : Nat]]
    <3> DEFINE P == [phase : Phases, step : Steps \cup {"none"}, n : Nat]
    <3>1. /\ Outside \in P
          /\ \A n \in Nat : [phase |-> "removal", step |-> "REMOVAL", n |-> n] \in P
      BY DEF Outside, Phases, Steps
    <3>2. at \in [Callers -> P]
      BY DEF IInv, TypeOK
    <3>3. \E p \in P : at' = [at EXCEPT ![t] = p]
      BY <3>1 DEF Leaves
    <3> HIDE DEF P
    <3>4. at' \in [Callers -> P]
      BY <3>2, <3>3
    <3> QED BY <3>4 DEF P
  <2>3. commands' \in Seq(Requests) /\ line' \in Seq(Packets) /\ packet' = NoPacket
    BY DEF Quiet
  <2> QED BY <1>3, <2>1, <2>2, <2>3 DEF IInv, TypeOK, sensorVars
<1>5. \A u \in Callers :
        \/ at'[u] = Outside /\ call'[u] = NoCall
        \/ /\ at'[u].phase = "removal" /\ at'[u].step = "REMOVAL"
           /\ call'[u].kind = "enroll_capture"
  BY <1>1, <1>2
<1>6. Places'
  BY <1>3, <1>5 DEF Places, Outside, NoCall, StepsOf, Leds
<1>7. Stages'
  BY <1>5 DEF Stages, NoCall
<1>8. OneExchange'
  BY <1>3, <1>5 DEF OneExchange, Outside
<1>9. Progress'
  BY <1>3 DEF Progress
<1> QED BY <1>4, <1>6, <1>7, <1>8, <1>9 DEF IInv

(* The thread that holds the mutex goes on with the next exchange of its call. *)
Established(t) ==
    /\ at[t].step = "CHECK_ENROLLED" => at[t].n < MaxTemplates /\ out = Found(at[t].n)
    /\ at[t].step \in DataIn => at[t].n < Pieces
    /\ call[t].kind = "template_delete" /\ at[t].step = "GET_ENROLL_COUNT"
            => api_id_to_hw_id(call[t].id) \notin db
    /\ at[t].step \in Uses => image = [by |-> t, best |-> IF at[t].step = "ENROLL" THEN 1 ELSE 0]

Staged(t) ==
    /\ call[t].kind = "enroll_start" => enroll_state = Idle
    /\ call[t].kind = "enroll_capture" /\ at[t].step # "REMOVAL" => enroll_state \in 1 .. 3

Sends(t, s, n) ==
    /\ lock' = t
    /\ at' = [at EXCEPT ![t] = [phase |-> "send", step |-> s, n |-> n]]
    /\ call' = [call EXCEPT ![t] = call'[t]]

LEMMA SendsInv ==
    ASSUME IInv, NEW t \in Callers, lock \in {t, "nobody"}, NEW s \in Steps, NEW n \in Nat,
           Sends(t, s, n), call'[t] \in Calls, s \in StepsOf(call'[t].kind),
           commands' = <<>>, packet' = NoPacket, rx_on' = FALSE, line' \in Seq(Packets),
           line' = <<>> \/ (s \in DataIn /\ Len(line') <= Pieces - n),
           enroll_state' \in 0 .. 4, enroll_id' \in Ids \cup {0}, led_on' \in BOOLEAN,
           out' \in SUBSET Ids, ret' \in Errors \cup {"OK"}, UNCHANGED sensorVars,
           enroll_state' # Idle => enroll_id' \in Ids, SameEnrollment',
           Staged(t)', Established(t)'
    PROVE  IInv'
<1>1. "nobody" \notin Callers
  BY GT5XAssumption DEF GT5XAssumption
<1>2. \A u \in Callers \ {t} :
        /\ at'[u] = at[u] /\ call'[u] = call[u]
        /\ \/ at[u] = Outside /\ call[u] = NoCall
           \/ at[u].phase = "removal" /\ at[u].step = "REMOVAL" /\ call[u].kind = "enroll_capture"
  BY <1>1, Aside DEF IInv, TypeOK, Sends
<1>3. at'[t] = [phase |-> "send", step |-> s, n |-> n] /\ lock' = t
  BY DEF IInv, TypeOK, Sends
<1>4. call'[t] # NoCall
  BY CallTyped
<1>5. TypeOK'
  <2>1. call' \in [Callers -> Calls \cup {NoCall}]
    BY DEF IInv, TypeOK, Sends
  <2>2. at' \in [Callers -> [phase : Phases, step : Steps \cup {"none"}, n : Nat]]
    BY DEF IInv, TypeOK, Sends, Phases
  <2>3. commands' \in Seq(Requests)
    OBVIOUS
  <2> QED BY <1>3, <2>1, <2>2, <2>3 DEF IInv, TypeOK, sensorVars
<1>6. Places'
  <2>1. \A u \in Callers \ {t} :
            at'[u].step \in StepsOf(call'[u].kind) /\ at'[u].phase \in {"idle", "removal"}
            /\ (at'[u].phase = "idle" <=> at'[u] = Outside) /\ (at'[u] = Outside <=> call'[u] = NoCall)
    BY <1>2 DEF IInv, Places, Outside
  <2> QED BY <1>2, <1>3, <1>4, <2>1 DEF Places, Outside
<1>7. Stages'
  BY <1>2, <1>3 DEF Stages, Staged, NoCall
<1>8. OneExchange'
  <2>1. Len(line') <= (IF s \in DataIn THEN Pieces - n ELSE 0)
    BY <1>3, EmptySeq, GT5XAssumption DEF GT5XAssumption, Established
  <2>2. Len(line') <= Due(t)'
    BY <1>3, <2>1 DEF Due
  <2> QED BY <1>1, <1>2, <1>3, <2>2 DEF OneExchange, Outside
<1>9. Progress'
  BY <1>3 DEF Progress, Established, Found
<1> QED BY <1>5, <1>6, <1>7, <1>8, <1>9 DEF IInv

(* A call begins. *)
LEMMA FirstOf ==
    ASSUME NEW c \in Calls, c.kind \notin Captures
    PROVE  LET s == FirstStep[c.kind] IN
           /\ s \in Steps /\ s \in StepsOf(c.kind) /\ s \notin DataIn /\ s \notin Uses
           /\ s = "GET_ENROLL_COUNT" => c.kind # "template_delete"
  BY CallTyped DEF FirstStep, StepsOf, Steps, Uses, Captures, Leds, DataIn

LEMMA BeginInv == ASSUME IInv, NEW t \in Callers, Begin(t) PROVE IInv'
<1>1. Quiet /\ rx_on = FALSE
  BY DEF IInv, TypeOK, OneExchange, Begin
<1>2. PICK c \in Calls :
        /\ Admitted(c)
        /\ call' = [call EXCEPT ![t] = c]
        /\ Goto(t, IF c.kind \notin Captures THEN FirstStep[c.kind]
                   ELSE IF led_on THEN "IS_PRESS_FINGER" ELSE "CMOS_LED")
        /\ enroll_state' = IF c.kind = "enroll_finalize" THEN Idle ELSE enroll_state
  BY DEF Begin
<1>3. PICK s : s = IF c.kind \notin Captures THEN FirstStep[c.kind]
                   ELSE IF led_on THEN "IS_PRESS_FINGER" ELSE "CMOS_LED"
  OBVIOUS
<1>4. /\ s \in Steps /\ s \in StepsOf(c.kind) /\ s \notin DataIn /\ s \notin Uses
      /\ s = "GET_ENROLL_COUNT" => c.kind # "template_delete"
  <2>1. CASE c.kind \notin Captures
    BY <1>3, <2>1, FirstOf
  <2>2. CASE c.kind \in Captures
    <3>1. s \in {"IS_PRESS_FINGER", "CMOS_LED"}
      BY <1>3, <2>2
    <3> QED BY <2>2, <3>1 DEF Captures, StepsOf, Steps, Uses, Leds, DataIn
  <2> QED BY <2>1, <2>2
<1>5. /\ lock' = t /\ lock = "nobody" /\ out' = {} /\ ret' = "OK"
      /\ UNCHANGED <<enroll_id, led_on, rxVars, wireVars, sensorVars>>
  BY DEF Begin
<1>6. call'[t] = c
  BY <1>2 DEF IInv, TypeOK
<1>7. Sends(t, s, 0)
  BY <1>2, <1>3, <1>5, <1>6 DEF Sends, Goto
<1>8. at'[t] = [phase |-> "send", step |-> s, n |-> 0]
  BY <1>7 DEF Sends, IInv, TypeOK
<1>9. Staged(t)'
  <2>1. c.kind = "enroll_start" => enroll_state' = Idle
    BY <1>2 DEF Admitted, Leds
  <2>2. c.kind = "enroll_capture" => enroll_state' \in 1 .. 3
    BY <1>2 DEF Admitted, Leds, Idle, Ready, IInv, TypeOK
  <2> QED BY <1>6, <2>1, <2>2 DEF Staged
<1>10. Established(t)'
  <2>1. Found(0)' = {}
    BY GT5XAssumption DEF GT5XAssumption, IInv, TypeOK, Found, HwIds, Begin, sensorVars
  <2>2. /\ at'[t].step = "CHECK_ENROLLED" => at'[t].n < MaxTemplates /\ out' = Found(0)'
        /\ ~(call'[t].kind = "template_delete" /\ at'[t].step = "GET_ENROLL_COUNT")
        /\ at'[t].step \notin Uses /\ at'[t].step \notin DataIn /\ at'[t].n = 0
    BY <1>4, <1>5, <1>6, <1>8, <2>1, GT5XAssumption DEF GT5XAssumption
  <2> QED BY <2>2 DEF Established, Found
<1>11. SameEnrollment'
  BY <1>2, <1>5 DEF IInv, SameEnrollment, sensorVars, Idle
<1>12. /\ commands' = <<>> /\ packet' = NoPacket /\ rx_on' = FALSE /\ line' = <<>>
       /\ line' \in Seq(Packets)
  BY <1>1, <1>5 DEF Quiet, wireVars, rxVars
<1>13. /\ enroll_state' \in 0 .. 4 /\ enroll_id' \in Ids \cup {0} /\ led_on' \in BOOLEAN
       /\ out' \in SUBSET Ids /\ ret' \in Errors \cup {"OK"} /\ UNCHANGED sensorVars
       /\ enroll_state' # Idle => enroll_id' \in Ids
  BY <1>2, <1>5 DEF IInv, TypeOK, Stages, Idle
<1> QED BY <1>4, <1>5, <1>6, <1>7, <1>9, <1>10, <1>11, <1>12, <1>13, SendsInv

LEMMA EnrollAbortInv == ASSUME IInv, NEW t \in Callers, EnrollAbort(t) PROVE IInv'
<1>1. /\ lock = "nobody" /\ enroll_state' = Idle /\ ret' = "OK"
      /\ UNCHANGED <<lock, call, at, out, enroll_id, led_on, rxVars, wireVars, sensorVars>>
  BY DEF EnrollAbort
<1>2. \A u \in Callers :
        \/ at[u] = Outside /\ call[u] = NoCall
        \/ at[u].phase = "removal" /\ at[u].step = "REMOVAL" /\ call[u].kind = "enroll_capture"
  BY <1>1, Aside, GT5XAssumption DEF GT5XAssumption, IInv
<1>3. TypeOK'
  BY <1>1 DEF IInv, TypeOK, Idle, rxVars, wireVars, sensorVars
<1>4. Places' /\ Stages' /\ SameEnrollment'
  BY <1>1, <1>2 DEF IInv, Places, Stages, SameEnrollment, Idle, NoCall
<1>5. OneExchange'
  BY <1>1, <1>2 DEF IInv, OneExchange, Quiet, Outside, rxVars, wireVars
<1>6. Progress'
  BY <1>1, GT5XAssumption DEF GT5XAssumption, Progress
<1> QED BY <1>3, <1>4, <1>5, <1>6 DEF IInv

LEMMA RelockInv == ASSUME IInv, NEW t \in Callers, Relock(t) PROVE IInv'
<1>1. Quiet /\ rx_on = FALSE
  BY DEF IInv, TypeOK, OneExchange, Relock
<1>2. /\ lock = "nobody" /\ lock' = t /\ at[t].phase = "removal"
      /\ at' = [at EXCEPT ![t].phase = "send"]
      /\ UNCHANGED <<call, out, ret, driverVars, rxVars, wireVars, sensorVars>>
  BY DEF Relock
<1>3. /\ at[t].step = "REMOVAL" /\ call[t].kind = "enroll_capture" /\ call[t] \in Calls
      /\ at[t].n \in Nat
  BY <1>2, Aside, GT5XAssumption DEF GT5XAssumption, IInv, TypeOK, Outside, NoCall
<1>4. /\ at' = [at EXCEPT ![t] = [phase |-> "send", step |-> "REMOVAL", n |-> at[t].n]]
      /\ call' = [call EXCEPT ![t] = call'[t]] /\ call'[t] = call[t]
  <2>1. [at[t] EXCEPT !.phase = "send"] = [phase |-> "send", step |-> "REMOVAL", n |-> at[t].n]
    BY <1>3 DEF IInv, TypeOK
  <2> QED BY <1>2, <2>1 DEF IInv, TypeOK
<1>5. Sends(t, "REMOVAL", at[t].n)
  BY <1>2, <1>4 DEF Sends
<1>6. at'[t].step = "REMOVAL"
  BY <1>4 DEF IInv, TypeOK
<1>7. Staged(t)' /\ Established(t)'
  BY <1>3, <1>4, <1>6 DEF Staged, Established, Uses, DataIn
<1>8. SameEnrollment'
  BY <1>2 DEF IInv, SameEnrollment, sensorVars, driverVars
<1>9. /\ commands' = <<>> /\ packet' = NoPacket /\ rx_on' = FALSE /\ line' = <<>>
      /\ line' \in Seq(Packets)
  BY <1>1, <1>2 DEF Quiet, wireVars, rxVars
<1>10. /\ enroll_state' \in 0 .. 4 /\ enroll_id' \in Ids \cup {0} /\ led_on' \in BOOLEAN
       /\ out' \in SUBSET Ids /\ ret' \in Errors \cup {"OK"} /\ UNCHANGED sensorVars
       /\ enroll_state' # Idle => enroll_id' \in Ids
  BY <1>2 DEF IInv, TypeOK, Stages, driverVars
<1>11. "REMOVAL" \in Steps /\ "REMOVAL" \in StepsOf(call'[t].kind) /\ "REMOVAL" \notin DataIn
  BY <1>3, <1>4 DEF Steps, StepsOf, Leds, DataIn
<1> QED BY <1>2, <1>3, <1>4, <1>5, <1>7, <1>8, <1>9, <1>10, <1>11, SendsInv

(* A thread that is in an exchange sends its command, or gives up. *)
LEMMA PhaseInv ==
    ASSUME IInv, NEW t \in Callers, lock = t, NEW ph \in {"recv", "expired"},
           at' = [at EXCEPT ![t].phase = ph],
           UNCHANGED <<lock, call, out, ret, driverVars, sensorVars>>,
           commands' \in Seq(Requests), line' \in Seq(Packets), rx_on' \in BOOLEAN,
           packet' \in Packets \cup {NoPacket},
           ph = "recv" => Requested(t)' \/ Answered(t)',
           ph = "expired" => Quiet',
           at[t].step \in Uses /\ commands' # <<>>
             => image = [by |-> t, best |-> IF at[t].step = "ENROLL" THEN 1 ELSE 0]
    PROVE  IInv'
<1>1. /\ at'[t].phase = ph /\ at'[t].step = at[t].step /\ at'[t].n = at[t].n
      /\ \A u \in Callers \ {t} : at'[u] = at[u]
  BY DEF IInv, TypeOK
<1>2. /\ at[t].phase \in {"send", "recv", "expired"} /\ lock # "nobody"
      /\ \A u \in Callers \ {t} : lock # u
      /\ call[t] # NoCall
  BY InCall, CallTyped
<1>3. TypeOK'
  <2>1. at' \in [Callers -> [phase : Phases, step : Steps \cup {"none"}, n : Nat]]
    <3> DEFINE P == [phase : Phases, step : Steps \cup {"none"}, n : Nat]
    <3>1. at[t] \in P /\ at \in [Callers -> P]
      BY DEF IInv, TypeOK
    <3>2. [at[t] EXCEPT !.phase = ph] \in P
      BY <3>1 DEF Phases
    <3> HIDE DEF P
    <3>3. at' \in [Callers -> P]
      BY <3>1, <3>2
    <3> QED BY <3>3 DEF P
  <2> QED BY <2>1 DEF IInv, TypeOK, driverVars, sensorVars
<1>4. Places'
  BY <1>1, <1>2 DEF IInv, Places, Outside
<1>5. Stages' /\ SameEnrollment'
  BY <1>1 DEF IInv, Stages, SameEnrollment, driverVars, sensorVars
<1>6. OneExchange'
  <2>1. \A u \in Callers \ {t} : at'[u].phase \notin {"send", "recv", "expired"}
    BY <1>1, <1>2 DEF IInv, Places
  <2> QED BY <1>1, <1>2, <2>1 DEF OneExchange
<1>7. Progress'
  <2>1. Found(at[t].n)' = Found(at'[t].n) /\ db' = db /\ image' = image
    BY <1>1 DEF Found, sensorVars
  <2>2. SUFFICES ASSUME NEW u \in Callers, lock' = u
                 PROVE  (/\ at[u].step = "CHECK_ENROLLED" =>
                              at[u].n < MaxTemplates /\ out = Found(at[u].n)
                         /\ at[u].step \in DataIn => at[u].n < Pieces
                         /\ call[u].kind = "template_delete" /\ at[u].step = "GET_ENROLL_COUNT"
                              => api_id_to_hw_id(call[u].id) \notin db
                         /\ at[u].step \in Uses /\ (at[u].phase = "send" \/ commands # <<>>)
                              => image = [by |-> u, best |-> IF at[u].step = "ENROLL" THEN 1 ELSE 0])'
    BY DEF Progress
  <2>3. u = t
    BY <1>2, <2>2
  <2>4. /\ at[t].step = "CHECK_ENROLLED" => at[t].n < MaxTemplates /\ out = Found(at[t].n)
        /\ at[t].step \in DataIn => at[t].n < Pieces
        /\ call[t].kind = "template_delete" /\ at[t].step = "GET_ENROLL_COUNT"
             => api_id_to_hw_id(call[t].id) \notin db
    BY DEF IInv, Progress
  <2> QED BY <1>1, <2>1, <2>3, <2>4 DEF Found
<1> QED BY <1>3, <1>4, <1>5, <1>6, <1>7 DEF IInv

LEMMA SendInv == ASSUME IInv, NEW t \in Callers, Send(t) PROVE IInv'
<1>1. /\ at[t].phase = "send" /\ rx_on' = TRUE /\ at' = [at EXCEPT ![t].phase = "recv"]
      /\ commands' = IF at[t].step \in DataIn THEN commands ELSE Append(commands, Request(t))
      /\ UNCHANGED <<lock, call, out, ret, driverVars, packet, line, sensorVars>>
  BY DEF Send
<1>2. lock = t /\ commands = <<>> /\ packet = NoPacket /\ Len(line) <= Due(t)
      /\ line \in Seq(Packets)
  BY <1>1 DEF IInv, TypeOK, Places, OneExchange
<1>3. at'[t].phase = "recv" /\ at'[t].step = at[t].step /\ at'[t].n = at[t].n
  BY <1>1 DEF IInv, TypeOK
<1>4. line' \in Seq(Packets) /\ packet' = NoPacket /\ rx_on' \in BOOLEAN
  BY <1>1, <1>2 DEF IInv, TypeOK
<1>5. CASE at[t].step \in DataIn
  <2>1. commands' = <<>> /\ commands' \in Seq(Requests)
    BY <1>1, <1>2, <1>5
  <2>2. at[t].n \in Nat /\ at[t].n < Pieces /\ Pieces \in Nat
    BY <1>2, <1>5, InCall, GT5XAssumption DEF GT5XAssumption, IInv, Progress
  <2>3. line # <<>> => Len(Tail(line)) <= Pieces - at[t].n - 1
    <3>1. line # <<>> => Len(Tail(line)) = Len(line) - 1
      BY <1>2, HeadTailProperties
    <3>2. Len(line) \in Nat /\ Len(line) <= Pieces - at[t].n
      BY <1>2, <1>5, LenProperties DEF Due
    <3> QED BY <2>2, <3>1, <3>2
  <2>4. line' # <<>> => Means(t, Head(line))' /\ Follows(t, Head(line), Tail(line))'
    BY <1>1, <1>3, <1>5, <2>3 DEF Means, Follows, Behind, DataIn
  <2>5. Answered(t)'
    BY <1>1, <1>4, <2>1, <2>4 DEF Answered
  <2>6. at[t].step \notin Uses
    BY <1>5 DEF DataIn, Uses
  <2> QED BY <1>1, <1>2, <1>4, <2>1, <2>5, <2>6, PhaseInv
<1>6. CASE at[t].step \notin DataIn
  <2>1. Request(t) \in Requests
    BY <1>2, <1>6, RequestTyped
  <2>2. commands' = <<Request(t)>> /\ commands' \in Seq(Requests)
    BY <1>1, <1>2, <1>6, <2>1, OneRequest
  <2>3. HwParam(t)' = HwParam(t)
    BY <1>1, <1>3 DEF HwParam, driverVars
  <2>4. Request(t)' = Request(t)
    BY <1>3, <2>3 DEF Request
  <2>5. Requested(t)'
    <3>1. line = <<>>
      BY <1>2, <1>6, NoMore DEF Due
    <3> QED BY <1>1, <1>2, <1>3, <1>4, <1>6, <2>2, <2>4, <3>1 DEF Requested
  <2>6. at[t].step \in Uses
          => image = [by |-> t, best |-> IF at[t].step = "ENROLL" THEN 1 ELSE 0]
    BY <1>1, <1>2 DEF IInv, Progress
  <2> QED BY <1>1, <1>2, <1>4, <2>2, <2>5, <2>6, PhaseInv
<1> QED BY <1>5, <1>6

(* A wait expires only when nothing is under way. *)
LEMMA DeadlineInv == ASSUME LineAssumption, IInv, NEW t \in Callers, Deadline(t) PROVE IInv'
<1>1. /\ at[t].phase = "recv" /\ packet = NoPacket /\ Outstanding <= 0
      /\ at' = [at EXCEPT ![t].phase = "expired"]
      /\ UNCHANGED <<lock, call, out, ret, driverVars, rxVars, wireVars, sensorVars>>
  BY DEF Deadline, LineAssumption
<1>2. lock = t
  BY <1>1 DEF IInv, Places
<1>3. commands \in Seq(Requests) /\ line \in Seq(Packets)
  BY DEF IInv, TypeOK
<1>4. Len(commands) \in Nat /\ Len(line) \in Nat
  BY <1>3, LenProperties
<1>5. Len(commands) = 0 /\ Len(line) = 0
  BY <1>1, <1>4 DEF Outstanding
<1>6. commands = <<>> /\ line = <<>>
  BY <1>3, <1>5, EmptySeq
<1>7. Quiet' /\ commands' = <<>> /\ line' \in Seq(Packets) /\ rx_on' \in BOOLEAN
      /\ packet' \in Packets \cup {NoPacket} /\ commands' \in Seq(Requests)
  BY <1>1, <1>3, <1>6 DEF Quiet, wireVars, rxVars, IInv, TypeOK
<1> QED BY <1>1, <1>2, <1>7, PhaseInv

(* What the end of an exchange leaves, and what its result says of the sensor. *)
Left(t, r) ==
    CASE at[t].step = "GET_TEMPLATE" /\ r = "OK" -> Pieces
      [] at[t].step \in DataIn /\ r = "OK" -> Pieces - at[t].n - 1
      [] OTHER -> 0

Over(t, r, p) ==
    /\ lock = t
    /\ commands' = <<>> /\ packet' = NoPacket /\ rx_on' = FALSE /\ line' \in Seq(Packets)
    /\ Len(line') <= Left(t, r)
    /\ UNCHANGED sensorVars
    /\ p \in Nat
    /\ at[t].step = "CHECK_ENROLLED" =>
            (r = "OK" => at[t].n \in db) /\ (r = "ENOENT" => at[t].n \notin db)
    /\ r = "OK" =>
        /\ at[t].step = "DELETE_ID" => api_id_to_hw_id(call[t].id) \notin db
        /\ at[t].step = "DELETE_ALL" => db = {}
        /\ at[t].step = "ENROLL_START" => enrolling.id = api_id_to_hw_id(call[t].id)
        /\ at[t].step = "CAPTURE_FINGER" => image = [by |-> t, best |-> HwParam(t)]
        /\ at[t].step = "VERIFY" => api_id_to_hw_id(call[t].id) \in db
        /\ at[t].step = "IDENTIFY" => p \in db

LEMMA ResultOf ==
    ASSUME NEW f \in Packets
    PROVE  /\ (CASE f.answer = "ACK" -> "OK"
                  [] f.answer \in {"DATA", "BAD"} -> "EBADMSG"
                  [] OTHER -> nack_to_errno(f.answer)) = "OK" <=> f.answer = "ACK"
           /\ f.answer = "BAD" =>
                (CASE f.answer = "ACK" -> "OK"
                   [] f.answer \in {"DATA", "BAD"} -> "EBADMSG"
                   [] OTHER -> nack_to_errno(f.answer)) = "EBADMSG"
  BY DEF Packets, Answers, nack_to_errno

LEMMA EndedOver ==
    ASSUME LineAssumption, IInv, NEW t \in Callers, NEW r \in Errors \cup {"OK"}, NEW p \in Params,
           Ended(t, r, p)
    PROVE  Over(t, r, p)
<1>1. lock = t /\ at[t].phase \in {"send", "recv", "expired"}
  BY DEF IInv, Places, Ended, Received, Expired, NotSent
<1>2. UNCHANGED <<wireVars, sensorVars>> /\ p \in Nat
  BY GT5XAssumption DEF GT5XAssumption, Ended, Params
<1>3. CASE Received(t, r, p)
  <2>1. /\ at[t].phase = "recv" /\ packet # NoPacket
        /\ r = (IF at[t].step \in DataIn THEN DataResult(t) ELSE ResponseResult)
        /\ p = (IF packet.answer = "ACK" THEN packet.param ELSE 0)
        /\ packet' = NoPacket /\ UNCHANGED rx_on
    BY <1>3 DEF Received
  <2>2. Arrived(t)
    BY <2>1 DEF IInv, OneExchange, Requested, Answered
  <2>3. commands = <<>> /\ ~rx_on /\ Means(t, packet) /\ Follows(t, packet, line)
    BY <2>2 DEF Arrived
  <2>4. packet \in Packets /\ rx_on \in BOOLEAN /\ line \in Seq(Packets)
    BY <2>1 DEF IInv, TypeOK
  <2>5. at[t].step \notin DataIn =>
            (r = "OK" <=> packet.answer = "ACK") /\ (packet.answer = "BAD" => r = "EBADMSG")
    BY <2>1, <2>4, ResultOf DEF ResponseResult
  <2>6. Len(line) <= Left(t, r)
    <3>1. CASE at[t].step \in DataIn /\ LastPiece(t)
      <4>1. Pieces - at[t].n - 1 = 0
        BY <3>1, GT5XAssumption DEF GT5XAssumption, LastPiece
      <4> QED BY <2>3, <3>1, <4>1 DEF Follows, Behind, Left, DataIn
    <3>2. CASE at[t].step \in DataIn /\ ~LastPiece(t)
      BY <2>1, <2>3, <3>2 DEF Follows, Behind, Left, DataResult, DataIn
    <3>3. CASE at[t].step \notin DataIn
      <4>1. r = "OK" <=> packet.answer = "ACK"
        BY <2>5, <3>3
      <4>2. Behind(t, packet) = IF at[t].step = "GET_TEMPLATE" /\ packet.answer = "ACK"
                                THEN Pieces ELSE 0
        BY <3>3 DEF Behind
      <4>3. Left(t, r) = IF at[t].step = "GET_TEMPLATE" /\ r = "OK" THEN Pieces ELSE 0
        BY <3>3 DEF Left
      <4> QED BY <2>3, <4>1, <4>2, <4>3 DEF Follows
    <3> QED BY <3>1, <3>2, <3>3
  <2>8. at[t].step = "CHECK_ENROLLED" =>
            (r = "OK" => at[t].n \in db) /\ (r = "ENOENT" => at[t].n \notin db)
    BY <2>1, <2>3, <2>5 DEF Means, DataIn
  <2>9. r = "OK" =>
        /\ at[t].step = "DELETE_ID" => api_id_to_hw_id(call[t].id) \notin db
        /\ at[t].step = "DELETE_ALL" => db = {}
        /\ at[t].step = "ENROLL_START" => enrolling.id = api_id_to_hw_id(call[t].id)
        /\ at[t].step = "CAPTURE_FINGER" => image = [by |-> t, best |-> HwParam(t)]
        /\ at[t].step = "VERIFY" => api_id_to_hw_id(call[t].id) \in db
        /\ at[t].step = "IDENTIFY" => p \in db
    BY <2>1, <2>3, <2>5 DEF Means, DataIn
  <2>10. /\ commands' = <<>> /\ packet' = NoPacket /\ rx_on' = FALSE /\ line' = line
         /\ line' \in Seq(Packets) /\ Len(line') <= Left(t, r)
    BY <1>2, <2>1, <2>3, <2>4, <2>6 DEF wireVars
  <2> QED BY <1>1, <1>2, <2>8, <2>9, <2>10 DEF Over
<1>4. CASE Expired(t, r, p)
  <2>1. Quiet /\ r = "ETIMEDOUT" /\ rx_on' = FALSE /\ UNCHANGED packet
    BY <1>4 DEF Expired, IInv, OneExchange
  <2>2. commands' = <<>> /\ packet' = NoPacket /\ line' \in Seq(Packets)
        /\ Len(line') <= Left(t, r)
    BY <1>2, <2>1, EmptySeq DEF Quiet, wireVars, Left
  <2> QED BY <1>1, <1>2, <2>1, <2>2 DEF Over
<1>5. CASE NotSent(t, r, p)
  <2>1. at[t].phase = "send" /\ r \in SendFailures(t) /\ UNCHANGED rxVars
    BY <1>5 DEF NotSent
  <2>2. at[t].step \notin DataIn /\ r = "ETIMEDOUT"
    BY <2>1 DEF SendFailures, LineAssumption
  <2>3. commands = <<>> /\ Len(line) <= 0 /\ packet = NoPacket /\ ~rx_on
    BY <2>1, <2>2 DEF IInv, OneExchange, Due
  <2>4. /\ commands' = <<>> /\ packet' = NoPacket /\ line' \in Seq(Packets)
        /\ rx_on' = FALSE /\ Len(line') <= Left(t, r)
    BY <1>2, <2>1, <2>2, <2>3 DEF wireVars, rxVars, IInv, TypeOK, Left
  <2> QED BY <1>1, <1>2, <2>2, <2>4 DEF Over
<1> QED BY <1>3, <1>4, <1>5 DEF Ended

(* A call ends. *)
LEMMA ReturnInv ==
    ASSUME IInv, NEW t \in Callers, NEW r, NEW p, Over(t, r, p), NEW e \in Errors \cup {"OK"},
           Return(t, e), line' = <<>>, out' \in SUBSET Ids,
           UNCHANGED enroll_id \/ enroll_id' \in Ids, enroll_state' \in 0 .. 4,
           led_on' \in BOOLEAN,
           enroll_state' # Idle => enroll_id' \in Ids, SameEnrollment'
    PROVE  IInv'
<1>1. Leaves(t)
  BY DEF Return, Leaves
<1>2. Quiet' /\ rx_on' = FALSE /\ lock = t /\ UNCHANGED sensorVars
  BY DEF Over, Quiet
<1>3. ret' \in Errors \cup {"OK"} /\ enroll_id' \in Ids \cup {0}
  BY DEF Return, IInv, TypeOK
<1> QED BY <1>1, <1>2, <1>3, LeavesInv

(* The same while the enrollment stays as it is. *)
LEMMA SameDriver ==
    ASSUME IInv, UNCHANGED <<enroll_state, enroll_id>>, UNCHANGED sensorVars
    PROVE  /\ enroll_state' \in 0 .. 4 /\ enroll_id' \in Ids \cup {0}
           /\ enroll_state' # Idle => enroll_id' \in Ids
           /\ SameEnrollment'
  BY DEF IInv, TypeOK, Stages, SameEnrollment, sensorVars

(* A call goes on with its next exchange. *)
LEMMA GoOnInv ==
    ASSUME IInv, NEW t \in Callers, NEW r, NEW p, Over(t, r, p),
           NEW s \in Steps, s \in StepsOf(call[t].kind), s = "REMOVAL" <=> at[t].step = "REMOVAL",
           NEW n \in Nat, at' = [at EXCEPT ![t] = [phase |-> "send", step |-> s, n |-> n]],
           UNCHANGED <<lock, call, ret>>, UNCHANGED <<enroll_state, enroll_id>>,
           led_on' \in BOOLEAN, out' \in SUBSET Ids,
           line' = <<>> \/ (s \in DataIn /\ Len(line') <= Pieces - n),
           s \in DataIn => n < Pieces,
           s = "CHECK_ENROLLED" => n < MaxTemplates /\ out' = Found(n),
           call[t].kind = "template_delete" /\ s = "GET_ENROLL_COUNT"
              => api_id_to_hw_id(call[t].id) \notin db,
           s \in Uses => image = [by |-> t, best |-> IF s = "ENROLL" THEN 1 ELSE 0]
    PROVE  IInv'
<1>1. /\ lock = t /\ commands' = <<>> /\ packet' = NoPacket /\ rx_on' = FALSE
      /\ line' \in Seq(Packets) /\ UNCHANGED sensorVars
  BY DEF Over
<1>2. call[t] \in Calls /\ at[t].step \in StepsOf(call[t].kind)
  BY <1>1, InCall
<1>3. call' = [call EXCEPT ![t] = call'[t]] /\ call'[t] = call[t]
  BY DEF IInv, TypeOK
<1>4. Sends(t, s, n)
  BY <1>1, <1>3 DEF Sends
<1>5. at'[t].step = s /\ at'[t].n = n
  BY DEF IInv, TypeOK
<1>6. Staged(t)'
  <2>2. call[t].kind = "enroll_start" => enroll_state = Idle
    BY DEF IInv, Stages
  <2>3. CASE at[t].step # "REMOVAL"
    BY <1>3, <2>2, <2>3 DEF IInv, Stages, Staged
  <2>4. CASE at[t].step = "REMOVAL" /\ s = "REMOVAL"
    BY <1>3, <1>5, <2>2, <2>4 DEF Staged
  <2> QED BY <2>3, <2>4
<1>7. Established(t)'
  <2>1. Found(n)' = Found(n)
    BY <1>1 DEF Found, sensorVars
  <2>2. Found(at[t].n)' = Found(n)
    BY <1>5, <2>1 DEF Found
  <2> QED BY <1>1, <1>3, <1>5, <2>2 DEF Established, sensorVars
<1>8. /\ enroll_state' \in 0 .. 4 /\ enroll_id' \in Ids \cup {0} /\ SameEnrollment'
      /\ enroll_state' # Idle => enroll_id' \in Ids
  BY <1>1, SameDriver
<1>9. ret' \in Errors \cup {"OK"}
  BY DEF IInv, TypeOK
<1> QED BY <1>1, <1>2, <1>3, <1>4, <1>6, <1>7, <1>8, <1>9, SendsInv

(* A listing has checked one more id. *)
LEMMA ScanStep ==
    ASSUME IInv, NEW t \in Callers, NEW r, NEW p, Over(t, r, p), IdChecked(t, r)
    PROVE  /\ out' = Found(at[t].n + 1) /\ at[t].n \in Nat /\ at[t].n < MaxTemplates
           /\ db \in SUBSET Nat
<1>1. /\ at[t].step = "CHECK_ENROLLED" /\ r \in {"OK", "ENOENT"}
      /\ out' = IF r = "OK" THEN out \cup {hw_id_to_api_id(at[t].n)} ELSE out
  BY DEF IdChecked, Tolerated
<1>2. at[t].n \in Nat /\ at[t].n < MaxTemplates /\ out = Found(at[t].n)
  BY <1>1, InCall DEF IInv, Progress, Over
<1>3. (r = "OK" => at[t].n \in db) /\ (r = "ENOENT" => at[t].n \notin db) /\ db \in SUBSET Nat
  BY <1>1, GT5XAssumption DEF GT5XAssumption, Over, IInv, TypeOK, HwIds
<1>4. {m \in db : m < at[t].n + 1} = {m \in db : m < at[t].n} \cup ({at[t].n} \cap db)
  <2>1. \A n \in Nat, m \in Nat : m < n + 1 <=> m < n \/ m = n
    OBVIOUS
  <2>2. \A m \in db : m < at[t].n + 1 <=> m < at[t].n \/ m = at[t].n
    BY <1>2, <1>3, <2>1
  <2> QED BY <2>2
<1> QED BY <1>1, <1>2, <1>3, <1>4 DEF Found

LEMMA ProceedInv == ASSUME LineAssumption, IInv, NEW t \in Callers, Proceed(t) PROVE IInv'
<1>1. PICK r \in Errors \cup {"OK"}, p \in Params :
        /\ Ended(t, r, p)
        /\ \/ Fails(t, r) \/ EnrollStarted(t, r) \/ LightSwitched(t, r)
           \/ FingerPolled(t, r, p) \/ FingerCaptured(t, r) \/ SampleEnrolled(t, r)
           \/ RemovalPolled(t, r, p) \/ Matched(t, r, p) \/ IdChecked(t, r)
           \/ StepDone(t, r) \/ PieceReceived(t, r) \/ LastStepDone(t, r)
  BY DEF Proceed
<1>2. Over(t, r, p)
  BY <1>1, EndedOver
<1>3. /\ lock = t /\ UNCHANGED sensorVars /\ p \in Nat
      /\ line' \in Seq(Packets) /\ Len(line') <= Left(t, r)
      /\ Left(t, r) = 0 => line' = <<>>
  BY <1>2, NoMore DEF Over
<1>4. /\ call[t] \in Calls /\ at[t].step \in Steps /\ at[t].n \in Nat
      /\ at[t].step \in StepsOf(call[t].kind)
  BY <1>3, InCall
<1>5. call[t] \in Calls \cup {NoCall}
  BY <1>4
<1>6. out \in SUBSET Ids /\ enroll_state \in 0 .. 4 /\ enroll_id \in Ids \cup {0} /\ led_on \in BOOLEAN
  BY DEF IInv, TypeOK
<1>7. "OK" \in Errors \cup {"OK"} /\ "ETIMEDOUT" \in Errors \cup {"OK"}
  BY DEF Errors
<1>8. CASE Fails(t, r)
  <2>1. r # "OK" /\ Return(t, r) /\ out' = {} /\ UNCHANGED driverVars
    BY <1>8 DEF Fails
  <2>2. UNCHANGED <<enroll_state, enroll_id>> /\ led_on' = led_on
    BY <2>1 DEF driverVars
  <2>3. line' = <<>> /\ out' \in SUBSET Ids /\ led_on' \in BOOLEAN
    BY <1>3, <1>6, <2>1, <2>2 DEF Left, DataIn
  <2> QED BY <1>2, <1>3, <2>1, <2>2, <2>3, SameDriver, ReturnInv
<1>9. CASE EnrollStarted(t, r)
  <2>1. /\ at[t].step = "ENROLL_START" /\ r = "OK" /\ enroll_state' = 1 /\ enroll_id' = call[t].id
        /\ Return(t, r) /\ UNCHANGED <<out, led_on>>
    BY <1>9 DEF EnrollStarted
  <2>2. call[t].id \in Ids
    BY <1>4, <1>5, <2>1, CallTyped, KindOf
  <2>3. SameEnrollment'
    BY <1>2, <2>1 DEF Over, SameEnrollment, sensorVars
  <2>4. line' = <<>>
    BY <1>3, <2>1 DEF Left, DataIn
  <2>5. enroll_state' \in 0 .. 4 /\ enroll_id' \in Ids /\ led_on' \in BOOLEAN /\ out' \in SUBSET Ids
    BY <1>6, <2>1, <2>2
  <2> QED BY <1>2, <2>1, <2>3, <2>4, <2>5, ReturnInv
<1>10. CASE LightSwitched(t, r)
  <2>1. /\ at[t].step = "CMOS_LED" /\ led_on' = (call[t].kind # "led_off")
        /\ IF call[t].kind \in Leds THEN Return(t, "OK") ELSE Continue(t, "IS_PRESS_FINGER")
        /\ UNCHANGED <<out, enroll_state, enroll_id>>
    BY <1>10 DEF LightSwitched
  <2>2. line' = <<>> /\ led_on' \in BOOLEAN /\ out' \in SUBSET Ids
    BY <1>3, <1>6, <2>1 DEF Left, DataIn
  <2>3. CASE call[t].kind \in Leds
    BY <1>2, <1>3, <1>7, <2>1, <2>2, <2>3, SameDriver, ReturnInv
  <2>4. CASE call[t].kind \notin Leds
    <3>1. call[t].kind \in Captures
      BY <1>4, <1>5, <2>1, <2>4, KindOf
    <3>2. "IS_PRESS_FINGER" \in Steps /\ "IS_PRESS_FINGER" \in StepsOf(call[t].kind)
      BY <3>1 DEF Captures, StepsOf, Steps, Leds
    <3>3. /\ at' = [at EXCEPT ![t] = [phase |-> "send", step |-> "IS_PRESS_FINGER", n |-> 0]]
          /\ UNCHANGED <<lock, call, ret>>
      BY <2>1, <2>4 DEF Continue, Goto
    <3> QED BY <1>2, <2>1, <2>2, <3>2, <3>3, GoOnInv DEF Uses, DataIn
  <2> QED BY <2>3, <2>4
<1>11. CASE FingerPolled(t, r, p)
  <2>1. /\ at[t].step = "IS_PRESS_FINGER"
        /\ \/ Continue(t, "CAPTURE_FINGER")
           \/ Return(t, "ETIMEDOUT")
           \/ Again(t, "send") /\ UNCHANGED <<lock, call, ret>>
        /\ UNCHANGED <<out, enroll_state, enroll_id>> /\ led_on' = led_on
    BY <1>11 DEF FingerPolled, driverVars
  <2>2. line' = <<>> /\ led_on' \in BOOLEAN /\ out' \in SUBSET Ids
    BY <1>3, <1>6, <2>1 DEF Left, DataIn
  <2>3. call[t].kind \in Captures
    BY <1>4, <1>5, <2>1, KindOf
  <2>4. \A s \in {"IS_PRESS_FINGER", "CAPTURE_FINGER"} : s \in Steps /\ s \in StepsOf(call[t].kind)
    BY <2>3 DEF Captures, StepsOf, Steps, Leds
  <2>5. CASE Continue(t, "CAPTURE_FINGER")
    <3>1. /\ at' = [at EXCEPT ![t] = [phase |-> "send", step |-> "CAPTURE_FINGER", n |-> 0]]
          /\ UNCHANGED <<lock, call, ret>>
      BY <2>5 DEF Continue, Goto
    <3> QED BY <1>2, <2>1, <2>2, <2>4, <3>1, GoOnInv DEF Uses, DataIn
  <2>6. CASE Return(t, "ETIMEDOUT")
    BY <1>2, <1>3, <1>7, <2>1, <2>2, <2>6, SameDriver, ReturnInv
  <2>7. CASE Again(t, "send") /\ UNCHANGED <<lock, call, ret>>
    <3>1. at' = [at EXCEPT ![t] = [phase |-> "send", step |-> "IS_PRESS_FINGER", n |-> at[t].n + 1]]
      BY <2>1, <2>7 DEF Again
    <3>2. at[t].n + 1 \in Nat
      BY <1>4
    <3> QED BY <1>2, <2>1, <2>2, <2>4, <2>7, <3>1, <3>2, GoOnInv DEF Uses, DataIn
  <2> QED BY <2>1, <2>5, <2>6, <2>7
<1>12. CASE FingerCaptured(t, r)
  <2>1. /\ at[t].step = "CAPTURE_FINGER" /\ r = "OK"
        /\ Continue(t, CASE call[t].kind = "enroll_capture" -> "ENROLL"
                         [] call[t].kind = "verify" -> "VERIFY"
                         [] call[t].kind = "identify" -> "IDENTIFY")
        /\ UNCHANGED <<out, enroll_state, enroll_id>> /\ led_on' = led_on
    BY <1>12 DEF FingerCaptured, Tolerated, driverVars
  <2>2. line' = <<>> /\ led_on' \in BOOLEAN /\ out' \in SUBSET Ids
    BY <1>3, <1>6, <2>1 DEF Left, DataIn
  <2>3. call[t].kind \in Captures
    BY <1>4, <1>5, <2>1, KindOf
  <2>4. PICK s : /\ s = CASE call[t].kind = "enroll_capture" -> "ENROLL"
                         [] call[t].kind = "verify" -> "VERIFY"
                         [] call[t].kind = "identify" -> "IDENTIFY"
    OBVIOUS
  <2>5. /\ s \in Uses /\ s \in Steps /\ s \in StepsOf(call[t].kind)
        /\ s = "ENROLL" <=> call[t].kind = "enroll_capture"
    BY <2>3, <2>4 DEF Captures, StepsOf, Steps, Uses, Leds
  <2>6. /\ at' = [at EXCEPT ![t] = [phase |-> "send", step |-> s, n |-> 0]]
        /\ UNCHANGED <<lock, call, ret>>
    BY <2>1, <2>4 DEF Continue, Goto
  <2>7. image = [by |-> t, best |-> IF s = "ENROLL" THEN 1 ELSE 0]
    BY <1>2, <2>1, <2>5 DEF Over, HwParam
  <2> QED BY <1>2, <2>1, <2>2, <2>5, <2>6, <2>7, GoOnInv DEF Uses, DataIn
<1>13. CASE SampleEnrolled(t, r)
  <2>1. /\ at[t].step = "ENROLL" /\ enroll_state' = enroll_state + 1
        /\ IF enroll_state = 3 THEN Return(t, "OK")
           ELSE /\ lock' = "nobody"
                /\ at' = [at EXCEPT ![t] = [phase |-> "removal", step |-> "REMOVAL", n |-> 0]]
                /\ UNCHANGED <<call, ret>>
        /\ UNCHANGED <<out, enroll_id, led_on>>
    BY <1>13 DEF SampleEnrolled
  <2>2. call[t].kind = "enroll_capture" /\ enroll_state \in 1 .. 3
    BY <1>4, <1>5, <2>1, KindOf DEF IInv, Stages
  <2>3. enroll_state' \in 0 .. 4 /\ enroll_id' \in Ids /\ led_on' \in BOOLEAN /\ out' \in SUBSET Ids
    BY <1>6, <2>1, <2>2 DEF IInv, Stages, Idle
  <2>4. SameEnrollment'
    BY <1>3, <2>1, <2>2 DEF IInv, SameEnrollment, sensorVars
  <2>5. line' = <<>>
    BY <1>3, <2>1 DEF Left, DataIn
  <2>6. CASE enroll_state = 3
    BY <1>2, <1>7, <2>1, <2>3, <2>4, <2>5, <2>6, ReturnInv
  <2>7. CASE enroll_state # 3
    <3>1. Leaves(t)
      BY <2>1, <2>2, <2>7 DEF Leaves
    <3>2. Quiet' /\ rx_on' = FALSE
      BY <1>2, <2>5 DEF Over, Quiet
    <3>3. ret' \in Errors \cup {"OK"}
      BY <2>1, <2>7 DEF IInv, TypeOK
    <3> QED BY <1>3, <2>3, <2>4, <3>1, <3>2, <3>3, LeavesInv
  <2> QED BY <2>6, <2>7
<1>14. CASE RemovalPolled(t, r, p)
  <2>1. /\ at[t].step = "REMOVAL"
        /\ \/ Return(t, "OK")
           \/ lock' = "nobody" /\ Again(t, "removal") /\ UNCHANGED <<call, ret>>
        /\ UNCHANGED <<out, enroll_state, enroll_id>> /\ led_on' = led_on
    BY <1>14 DEF RemovalPolled, driverVars
  <2>2. line' = <<>> /\ led_on' \in BOOLEAN /\ out' \in SUBSET Ids
    BY <1>3, <1>6, <2>1 DEF Left, DataIn
  <2>3. CASE Return(t, "OK")
    BY <1>2, <1>3, <1>7, <2>1, <2>2, <2>3, SameDriver, ReturnInv
  <2>4. CASE lock' = "nobody" /\ Again(t, "removal") /\ UNCHANGED <<call, ret>>
    <3>1. call[t].kind = "enroll_capture" /\ at[t].n + 1 \in Nat
      BY <1>4, <1>5, <2>1, KindOf
    <3>2. at' = [at EXCEPT ![t] = [phase |-> "removal", step |-> "REMOVAL", n |-> at[t].n + 1]]
      BY <2>1, <2>4 DEF Again
    <3>3. Leaves(t)
      BY <2>4, <3>1, <3>2 DEF Leaves
    <3>4. Quiet' /\ rx_on' = FALSE
      BY <1>2, <2>2 DEF Over, Quiet
    <3>5. ret' \in Errors \cup {"OK"}
      BY <2>4 DEF IInv, TypeOK
    <3> QED BY <1>3, <2>1, <2>2, <3>3, <3>4, <3>5, SameDriver, LeavesInv
  <2> QED BY <2>1, <2>3, <2>4
<1>15. CASE Matched(t, r, p)
  <2>1. /\ at[t].step \in {"VERIFY", "IDENTIFY"} /\ r = "OK"
        /\ out' = {IF at[t].step = "VERIFY" THEN call[t].id ELSE hw_id_to_api_id(p)}
        /\ Return(t, "OK")
        /\ UNCHANGED <<enroll_state, enroll_id>> /\ led_on' = led_on
    BY <1>15 DEF Matched, driverVars
  <2>2. at[t].step = "VERIFY" => call[t].id \in Ids
    BY <1>4, <1>5, CallTyped, KindOf
  <2>3. at[t].step = "IDENTIFY" => hw_id_to_api_id(p) \in Ids
    BY <1>2, <2>1, GT5XAssumption
    DEF GT5XAssumption, Over, IInv, TypeOK, HwIds, Ids, hw_id_to_api_id
  <2>4. line' = <<>> /\ led_on' \in BOOLEAN /\ out' \in SUBSET Ids
    BY <1>3, <1>6, <2>1, <2>2, <2>3 DEF Left, DataIn
  <2> QED BY <1>2, <1>3, <1>7, <2>1, <2>4, SameDriver, ReturnInv
<1>16. CASE IdChecked(t, r)
  <2>1. /\ at[t].step = "CHECK_ENROLLED" /\ r \in {"OK", "ENOENT"}
        /\ out' = IF r = "OK" THEN out \cup {hw_id_to_api_id(at[t].n)} ELSE out
        /\ IF LastId(at[t].n, out') THEN Return(t, "OK")
           ELSE Again(t, "send") /\ UNCHANGED <<lock, call, ret>>
        /\ UNCHANGED <<enroll_state, enroll_id>> /\ led_on' = led_on
    BY <1>16 DEF IdChecked, Tolerated, driverVars
  <2>2. at[t].n < MaxTemplates /\ out = Found(at[t].n)
    BY <1>3, <2>1 DEF IInv, Progress
  <2>3. out' = Found(at[t].n + 1)
    BY <1>2, <1>16, ScanStep
  <2>4. line' = <<>> /\ led_on' \in BOOLEAN /\ out' \in SUBSET Ids
    <3>1. hw_id_to_api_id(at[t].n) \in Ids
      BY <1>4, <2>2, GT5XAssumption DEF GT5XAssumption, Ids, hw_id_to_api_id
    <3> QED BY <1>3, <1>6, <2>1, <3>1 DEF Left, DataIn
  <2>5. CASE LastId(at[t].n, out')
    BY <1>2, <1>3, <1>7, <2>1, <2>4, <2>5, SameDriver, ReturnInv
  <2>6. CASE ~LastId(at[t].n, out')
    <3>1. /\ at' = [at EXCEPT ![t] = [phase |-> "send", step |-> "CHECK_ENROLLED", n |-> at[t].n + 1]]
          /\ UNCHANGED <<lock, call, ret>>
      BY <2>1, <2>6 DEF Again
    <3>2. at[t].n + 1 \in Nat /\ at[t].n + 1 < MaxTemplates
      BY <1>4, <2>2, <2>6, GT5XAssumption DEF GT5XAssumption, LastId
    <3>3. "CHECK_ENROLLED" \in Steps /\ "CHECK_ENROLLED" \in StepsOf(call[t].kind)
      BY <1>4, <2>1
    <3> QED BY <1>2, <2>1, <2>3, <2>4, <3>1, <3>2, <3>3, GoOnInv DEF Uses, DataIn
  <2> QED BY <2>5, <2>6
<1>17. CASE StepDone(t, r)
  <2>1. /\ at[t].step \in {"SET_TEMPLATE", "DATA", "DELETE_ID", "GET_TEMPLATE"} /\ r = "OK"
        /\ Continue(t, Following[at[t].step])
        /\ UNCHANGED <<out, enroll_state, enroll_id>> /\ led_on' = led_on
    BY <1>17 DEF StepDone, Following, Tolerated, driverVars
  <2>2. PICK s : s = Following[at[t].step]
    OBVIOUS
  <2>3. /\ s \in {"DATA", "GET_ENROLL_COUNT", "DATA_IN"}
        /\ s = "DATA" <=> at[t].step = "SET_TEMPLATE"
        /\ s \in DataIn <=> at[t].step = "GET_TEMPLATE"
    BY <2>1, <2>2 DEF Following, DataIn
  <2>4. s \in Steps /\ s \in StepsOf(call[t].kind)
    <3>1. CASE at[t].step \in {"SET_TEMPLATE", "DATA"}
      <4>1. call[t].kind = "template_store"
        BY <1>4, <1>5, <3>1, KindOf
      <4>2. s \in {"DATA", "GET_ENROLL_COUNT"}
        BY <2>3, <3>1 DEF DataIn
      <4> QED BY <4>1, <4>2 DEF StepsOf, Steps, Leds
    <3>2. CASE at[t].step = "DELETE_ID"
      <4>1. call[t].kind = "template_delete"
        BY <1>4, <1>5, <3>2, KindOf
      <4>2. s = "GET_ENROLL_COUNT"
        BY <2>3, <3>2 DEF DataIn
      <4> QED BY <4>1, <4>2 DEF StepsOf, Steps, Leds
    <3>3. CASE at[t].step = "GET_TEMPLATE"
      <4>1. call[t].kind = "template_read"
        BY <1>4, <1>5, <3>3, KindOf
      <4> QED BY <2>3, <3>3, <4>1 DEF StepsOf, Steps, Leds, DataIn
    <3> QED BY <2>1, <3>1, <3>2, <3>3
  <2>5. /\ at' = [at EXCEPT ![t] = [phase |-> "send", step |-> s, n |-> 0]]
        /\ UNCHANGED <<lock, call, ret>>
    BY <2>1, <2>2 DEF Continue, Goto
  <2>6. call[t].kind = "template_delete" => api_id_to_hw_id(call[t].id) \notin db
    <3>1. call[t].kind = "template_delete" => at[t].step = "DELETE_ID"
      BY <1>4, <1>5, <2>1, KindOf
    <3> QED BY <1>2, <2>1, <3>1 DEF Over
  <2>7. line' = <<>> \/ (s \in DataIn /\ Len(line') <= Pieces - 0)
    <3>1. CASE at[t].step = "GET_TEMPLATE"
      <4>1. Left(t, r) = Pieces /\ Pieces - 0 = Pieces
        BY <2>1, <3>1, GT5XAssumption DEF GT5XAssumption, Left, DataIn
      <4> QED BY <1>3, <2>3, <3>1, <4>1
    <3>2. CASE at[t].step # "GET_TEMPLATE"
      BY <1>3, <2>1, <3>2 DEF Left, DataIn
    <3> QED BY <3>1, <3>2
  <2>8. led_on' \in BOOLEAN /\ out' \in SUBSET Ids
    BY <1>6, <2>1
  <2>9. 0 < Pieces /\ s \notin Uses
    BY <2>3, GT5XAssumption DEF GT5XAssumption, Uses
  <2> QED BY <1>2, <2>1, <2>3, <2>4, <2>5, <2>6, <2>7, <2>8, <2>9, GoOnInv
<1>18. CASE PieceReceived(t, r)
  <2>1. PICK s \in DataIn :
             at' = [at EXCEPT ![t] = [phase |-> "send", step |-> s, n |-> at[t].n + 1]]
    BY <1>18 DEF PieceReceived, DataIn
  <2>2. /\ at[t].step \in DataIn /\ r = "OK" /\ at[t].n # Pieces - 1
        /\ UNCHANGED <<lock, call, ret>> /\ UNCHANGED <<enroll_state, enroll_id>>
        /\ out' = out /\ led_on' = led_on
    BY <1>18 DEF PieceReceived, LastPiece, driverVars
  <2>3. call[t].kind = "template_read"
    BY <1>4, <1>5, <2>2, KindOf
  <2>4. s \in Steps /\ s \in StepsOf(call[t].kind) /\ at[t].step # "REMOVAL"
        /\ s \notin Uses \cup {"REMOVAL", "CHECK_ENROLLED", "GET_ENROLL_COUNT"}
    BY <2>1, <2>2, <2>3 DEF StepsOf, Steps, Leds, Uses, DataIn
  <2>5. at[t].n < Pieces /\ Pieces \in Nat
    BY <1>3, <2>2, GT5XAssumption DEF GT5XAssumption, IInv, Progress
  <2>6. at[t].n + 1 \in Nat /\ at[t].n + 1 < Pieces /\ Pieces - at[t].n - 1 = Pieces - (at[t].n + 1)
    BY <1>4, <2>2, <2>5
  <2>7. Len(line') <= Pieces - (at[t].n + 1)
    BY <1>3, <2>2, <2>6 DEF Left, DataIn
  <2>8. led_on' \in BOOLEAN /\ out' \in SUBSET Ids
    BY <1>6, <2>2
  <2> QED BY <1>2, <2>1, <2>2, <2>4, <2>6, <2>7, <2>8, GoOnInv
<1>19. CASE LastStepDone(t, r)
  <2>1. /\ Return(t, "OK")
        /\ UNCHANGED <<out, enroll_state, enroll_id>> /\ led_on' = led_on
    BY <1>19 DEF LastStepDone, driverVars
  <2>2. Left(t, r) = 0
    <3>1. CASE at[t].step \in DataIn /\ LastPiece(t)
      BY <3>1, GT5XAssumption DEF GT5XAssumption, Left, LastPiece, DataIn
    <3>2. CASE at[t].step \in {"DELETE_ALL", "GET_ENROLL_COUNT"}
      BY <3>2 DEF Left, DataIn
    <3> QED BY <1>19, <3>1, <3>2 DEF LastStepDone
  <2>3. line' = <<>> /\ led_on' \in BOOLEAN /\ out' \in SUBSET Ids
    BY <1>3, <1>6, <2>1, <2>2
  <2> QED BY <1>2, <1>3, <1>7, <2>1, <2>3, SameDriver, ReturnInv
<1> QED BY <1>1, <1>8, <1>9, <1>10, <1>11, <1>12, <1>13, <1>14, <1>15, <1>16, <1>17, <1>18, <1>19

LEMMA InitInv == Init => IInv
<1> SUFFICES ASSUME Init PROVE IInv
  OBVIOUS
<1>1. /\ lock = "nobody" /\ call = [t \in Callers |-> NoCall] /\ at = [t \in Callers |-> Outside]
      /\ "nobody" \notin Callers
  BY GT5XAssumption DEF GT5XAssumption, Init
<1>2. \A t \in Callers : at[t] = Outside /\ call[t] = NoCall
  BY <1>1
<1>3. Quiet /\ rx_on = FALSE /\ db \in SUBSET HwIds
  BY DEF Init, Quiet
<1>4. enrolling \in [id : HwIds, pass : 0 .. 3] /\ image \in [by : Callers \cup {"nobody"}, best : {0, 1}]
  BY GT5XAssumption DEF GT5XAssumption, Init, NoEnrollment, NoImage, HwIds
<1>5. TypeOK
  <2>1. Outside \in [phase : Phases, step : Steps \cup {"none"}, n : Nat]
    BY DEF Outside, Phases
  <2>2. commands \in Seq(Requests) /\ line \in Seq(Packets)
    BY DEF Init
  <2>3. at \in [Callers -> [phase : Phases, step : Steps \cup {"none"}, n : Nat]]
    BY <1>1, <2>1
  <2>4. call \in [Callers -> Calls \cup {NoCall}]
    BY <1>1
  <2>5. /\ enroll_state \in 0 .. 4 /\ enroll_id \in Ids \cup {0}
        /\ packet \in Packets \cup {NoPacket} /\ lock \in Callers \cup {"nobody"}
    BY DEF Init, Idle
  <2>6. led_on \in BOOLEAN /\ rx_on \in BOOLEAN
    BY Zenon DEF Init
  <2>7. out \in SUBSET Ids /\ ret \in Errors \cup {"OK"}
    BY DEF Init
  <2> QED BY <1>3, <1>4, <2>2, <2>3, <2>4, <2>5, <2>6, <2>7 DEF TypeOK
<1>6. Places
  BY <1>1, <1>2 DEF Places, Outside, NoCall, StepsOf, Leds
<1>7. Stages /\ SameEnrollment
  BY <1>2 DEF Init, Stages, SameEnrollment, Idle, NoCall
<1>8. OneExchange
  BY <1>1, <1>2, <1>3 DEF OneExchange, Outside
<1>9. Progress
  BY <1>1 DEF Progress
<1> QED BY <1>5, <1>6, <1>7, <1>8, <1>9 DEF IInv

LEMMA StepInv == ASSUME LineAssumption, IInv, [Next]_vars PROVE IInv'
<1>1. CASE Sensor
  BY <1>1, SensorInv
<1>2. CASE RxIsr
  BY <1>2, RxIsrInv
<1>3. ASSUME NEW t \in Callers, Begin(t) PROVE IInv'
  BY <1>3, BeginInv
<1>4. ASSUME NEW t \in Callers, EnrollAbort(t) PROVE IInv'
  BY <1>4, EnrollAbortInv
<1>5. ASSUME NEW t \in Callers, Call(t) PROVE IInv'
  BY <1>5, SendInv, DeadlineInv, RelockInv, ProceedInv DEF Call
<1>6. CASE UNCHANGED vars
  <2>1. TypeOK' /\ Places' /\ Stages' /\ SameEnrollment'
    BY <1>6 DEF IInv, TypeOK, Places, Stages, SameEnrollment, vars, callVars, driverVars, rxVars,
       wireVars, sensorVars
  <2>2. \A t \in Callers : HwParam(t)' = HwParam(t)
    BY <1>6 DEF HwParam, vars, callVars, driverVars
  <2>3. OneExchange'
    BY <1>6, <2>2 DEF IInv, OneExchange, Quiet, Requested, Answered, Arrived, Request, Means, Follows,
       Due, Behind, vars, callVars, driverVars, rxVars, wireVars, sensorVars
  <2>4. Progress'
    BY <1>6 DEF IInv, Progress, Found, vars, callVars, driverVars, rxVars, wireVars, sensorVars
  <2> QED BY <2>1, <2>3, <2>4 DEF IInv
<1> QED BY <1>1, <1>2, <1>3, <1>4, <1>5, <1>6 DEF Next

(* The state of the driver, the line and the sensor keeps the inductive invariant. *)
THEOREM Invariance == ASSUME LineAssumption PROVE Spec => []IInv
<1>1. Init => IInv
  BY InitInv
<1>2. IInv /\ [Next]_vars => IInv'
  BY StepInv
<1> QED BY <1>1, <1>2, PTL DEF Spec

(* The image the sensor uses is one its caller captured for this use. *)
THEOREM OwnImage == ASSUME LineAssumption PROVE Spec => []ImageIsOwn
<1>1. ASSUME IInv PROVE ImageIsOwn
  <2>1. SUFFICES ASSUME commands # <<>>, Head(commands).cmd \in Uses
                 PROVE  image = [by |-> Head(commands).by,
                                 best |-> IF Head(commands).cmd = "ENROLL" THEN 1 ELSE 0]
    BY DEF ImageIsOwn
  <2>2. PICK t \in Callers : lock = t /\ at[t].phase = "recv" /\ Requested(t)
    BY <1>1, <2>1, Exchanging DEF Quiet
  <2>3. commands = <<Request(t)>> /\ Request(t) \in Requests /\ Request(t).by = t
        /\ Request(t).cmd = (IF at[t].step = "REMOVAL" THEN "IS_PRESS_FINGER" ELSE at[t].step)
    BY <1>1, <2>2, RequestTyped DEF Requested
  <2>4. Head(commands) = Request(t)
    BY <2>3, OneRequest
  <2>5. at[t].step \in Uses /\ Request(t).cmd = at[t].step
    BY <2>1, <2>3, <2>4 DEF Uses
  <2> QED BY <1>1, <2>1, <2>2, <2>3, <2>4, <2>5 DEF IInv, Progress
<1> QED BY <1>1, Invariance, PTL

(* How a call ends that returns 0. *)
LEMMA EndsOk ==
    ASSUME LineAssumption, IInv, [Next]_vars, NEW t \in Callers,
           call[t] # NoCall, at'[t] = Outside, ret' = "OK"
    PROVE  \E r, p :
             /\ Over(t, r, p)
             /\ \/ EnrollStarted(t, r) \/ LightSwitched(t, r) \/ SampleEnrolled(t, r)
                \/ RemovalPolled(t, r, p) \/ Matched(t, r, p)
                \/ IdChecked(t, r) /\ LastId(at[t].n, out')
                \/ LastStepDone(t, r)
<1>1. at[t] # Outside /\ Outside.phase = "idle" /\ Outside.step = "none"
  BY DEF IInv, Places, Outside
<1>2. at' # at
  BY <1>1
<1>3. ASSUME NEW u \in Callers, u # t, Begin(u) \/ Call(u) PROVE FALSE
  <2>1. \E w : at' = [at EXCEPT ![u] = w]
    BY <1>2, <1>3 DEF Begin, Goto, Call, Send, Deadline, Relock, Proceed, Fails, Return, EnrollStarted,
       LightSwitched, Continue, FingerPolled, FingerCaptured, SampleEnrolled, RemovalPolled, Again,
       Matched, IdChecked, StepDone, PieceReceived, LastStepDone
  <2> QED BY <1>1, <1>3, <2>1 DEF IInv, TypeOK
<1>4. ~Begin(t) /\ ~EnrollAbort(t)
  BY <1>1 DEF Begin, EnrollAbort
<1>5. ~Send(t) /\ ~Deadline(t) /\ ~Relock(t)
  BY <1>1 DEF Send, Deadline, Relock, IInv, TypeOK
<1>6. ~Sensor /\ ~RxIsr /\ ~UNCHANGED vars /\ \A u \in Callers : ~EnrollAbort(u)
  BY <1>2 DEF Sensor, RxIsr, EnrollAbort, vars, callVars
<1>7. Proceed(t)
  BY <1>3, <1>4, <1>5, <1>6 DEF Next, Call
<1>8. PICK r \in Errors \cup {"OK"}, p \in Params :
        /\ Ended(t, r, p)
        /\ \/ Fails(t, r) \/ EnrollStarted(t, r) \/ LightSwitched(t, r)
           \/ FingerPolled(t, r, p) \/ FingerCaptured(t, r) \/ SampleEnrolled(t, r)
           \/ RemovalPolled(t, r, p) \/ Matched(t, r, p) \/ IdChecked(t, r)
           \/ StepDone(t, r) \/ PieceReceived(t, r) \/ LastStepDone(t, r)
  BY <1>7 DEF Proceed
<1>9. Over(t, r, p)
  BY <1>8, EndedOver
<1>10. \A s, n : at' # [at EXCEPT ![t] = [phase |-> "send", step |-> s, n |-> n]]
  BY <1>1 DEF IInv, TypeOK
<1>11. ~Fails(t, r)
  BY DEF Fails, Return
<1>12. ~FingerPolled(t, r, p)
  BY <1>10 DEF FingerPolled, Continue, Goto, Again, Return
<1>13. ~FingerCaptured(t, r) /\ ~StepDone(t, r) /\ ~PieceReceived(t, r)
  BY <1>10 DEF FingerCaptured, StepDone, PieceReceived, Continue, Goto
<1>14. IdChecked(t, r) => LastId(at[t].n, out')
  BY <1>10 DEF IdChecked, Again
<1> QED BY <1>8, <1>9, <1>11, <1>12, <1>13, <1>14

LEMMA ApiIds ==
    ASSUME IInv
    PROVE  /\ \A i \in Ids : i \in Api <=> api_id_to_hw_id(i) \in db
           /\ \A hw \in HwIds : hw_id_to_api_id(hw) \in Api <=> hw \in db
           /\ Api \in SUBSET Ids /\ db \in SUBSET HwIds
<1>1. /\ \A i \in Ids : api_id_to_hw_id(i) \in HwIds /\ hw_id_to_api_id(api_id_to_hw_id(i)) = i
      /\ \A hw \in HwIds : hw_id_to_api_id(hw) \in Ids /\ api_id_to_hw_id(hw_id_to_api_id(hw)) = hw
  BY GT5XAssumption DEF GT5XAssumption, Ids, HwIds, hw_id_to_api_id, api_id_to_hw_id
<1>2. db \in SUBSET HwIds
  BY DEF IInv, TypeOK
<1> QED BY <1>1, <1>2 DEF Api

(* A listing that returned 0 is exact, unless the caller's array is full. *)
THEOREM ExactList == ASSUME LineAssumption PROVE Spec => ListIsExact
<1>1. ASSUME IInv, [Next]_vars, NEW t \in Callers, Returns(t, "template_list")
      PROVE  out' \subseteq Api /\ (out' = Api \/ Cardinality(out') = MaxCount)
  <2>1. call[t] # NoCall /\ at'[t] = Outside /\ ret' = "OK" /\ call[t].kind = "template_list"
    BY <1>1 DEF Returns, NoCall
  <2>2. PICK r, p :
             /\ Over(t, r, p)
             /\ \/ EnrollStarted(t, r) \/ LightSwitched(t, r) \/ SampleEnrolled(t, r)
                \/ RemovalPolled(t, r, p) \/ Matched(t, r, p)
                \/ IdChecked(t, r) /\ LastId(at[t].n, out')
                \/ LastStepDone(t, r)
    BY <1>1, <2>1, EndsOk
  <2>3. at[t].step = "CHECK_ENROLLED"
    <3>1. call[t] \in Calls \cup {NoCall} /\ at[t].step \in StepsOf(call[t].kind)
      BY <1>1 DEF IInv, TypeOK, Places
    <3> QED BY <2>1, <3>1, KindOf
  <2>4. IdChecked(t, r) /\ LastId(at[t].n, out')
    BY <2>2, <2>3
    DEF EnrollStarted, LightSwitched, SampleEnrolled, RemovalPolled, Matched, LastStepDone, DataIn
  <2>5. out' = Found(at[t].n + 1) /\ at[t].n \in Nat /\ at[t].n < MaxTemplates /\ db \in SUBSET Nat
    BY <1>1, <2>2, <2>4, ScanStep
  <2>6. out' \subseteq Api
    BY <2>5 DEF Found, Api
  <2>7. ASSUME at[t].n = MaxTemplates - 1 PROVE out' = Api
    <3>1. \A m \in db : m < MaxTemplates
      BY <1>1, GT5XAssumption DEF GT5XAssumption, IInv, TypeOK, HwIds
    <3>2. {m \in db : m < at[t].n + 1} = db
      BY <2>7, <3>1, GT5XAssumption DEF GT5XAssumption
    <3> QED BY <2>5, <3>2 DEF Found, Api
  <2> QED BY <2>4, <2>6, <2>7 DEF LastId
<1>2. ASSUME IInv, [Next]_vars
      PROVE  [\A t \in Callers : Returns(t, "template_list")
               => out' \subseteq Api /\ (out' = Api \/ Cardinality(out') = MaxCount)]_vars
  BY <1>1, <1>2
<1> QED BY <1>2, Invariance, PTL DEF Spec, ListIsExact

(* A delete that returned 0 has taken place. *)
THEOREM DeleteDone == ASSUME LineAssumption PROVE Spec => DeleteIsDone
<1>1. ASSUME IInv, [Next]_vars, NEW t \in Callers
      PROVE  /\ Returns(t, "template_delete") => call[t].id \notin Api
             /\ Returns(t, "template_delete_all") => db = {}
  <2>1. SUFFICES ASSUME Returns(t, "template_delete") \/ Returns(t, "template_delete_all")
                 PROVE  /\ call[t].kind = "template_delete" => call[t].id \notin Api
                        /\ call[t].kind = "template_delete_all" => db = {}
    BY DEF Returns
  <2>2. /\ call[t] # NoCall /\ at'[t] = Outside /\ ret' = "OK"
        /\ call[t].kind \in {"template_delete", "template_delete_all"}
    BY <2>1 DEF Returns, NoCall
  <2>3. PICK r, p :
             /\ Over(t, r, p)
             /\ \/ EnrollStarted(t, r) \/ LightSwitched(t, r) \/ SampleEnrolled(t, r)
                \/ RemovalPolled(t, r, p) \/ Matched(t, r, p)
                \/ IdChecked(t, r) /\ LastId(at[t].n, out')
                \/ LastStepDone(t, r)
    BY <1>1, <2>2, EndsOk
  <2>4. call[t] \in Calls /\ call[t] \in Calls \cup {NoCall} /\ at[t].step \in StepsOf(call[t].kind)
    BY <1>1, <2>2 DEF IInv, TypeOK, Places
  <2>5. /\ call[t].kind = "template_delete" => at[t].step \in {"DELETE_ID", "GET_ENROLL_COUNT"}
        /\ call[t].kind = "template_delete_all" => at[t].step = "DELETE_ALL"
    BY <2>4, KindOf DEF StepsOf, Leds
  <2>6. LastStepDone(t, r)
    BY <2>2, <2>3, <2>5
    DEF EnrollStarted, LightSwitched, SampleEnrolled, RemovalPolled, Matched, IdChecked
  <2>7. ASSUME call[t].kind = "template_delete" PROVE call[t].id \notin Api
    <3>1. at[t].step = "GET_ENROLL_COUNT" /\ lock = t
      BY <2>3, <2>5, <2>6, <2>7 DEF LastStepDone, Over, DataIn
    <3>2. api_id_to_hw_id(call[t].id) \notin db
      BY <1>1, <2>7, <3>1 DEF IInv, Progress
    <3>3. call[t].id \in Ids
      BY <2>4, <2>7, CallTyped
    <3> QED BY <1>1, <3>2, <3>3, ApiIds
  <2>8. ASSUME call[t].kind = "template_delete_all" PROVE db = {}
    BY <2>3, <2>5, <2>6, <2>8 DEF LastStepDone, Over
  <2> QED BY <2>7, <2>8
<1>2. ASSUME IInv, [Next]_vars
      PROVE  [\A t \in Callers :
                /\ Returns(t, "template_delete") => call[t].id \notin Api
                /\ Returns(t, "template_delete_all") => db = {}]_vars
  BY <1>1, <1>2
<1> QED BY <1>2, Invariance, PTL DEF Spec, DeleteIsDone

(* A verification or identification that returned 0 names a finger that the sensor *)
(* stores, and a verification the one it was asked about (gt5x_match).             *)
MatchIsStored ==
    [][\A t \in Callers :
        /\ Returns(t, "identify") => out' \subseteq Api /\ out' # {}
        /\ Returns(t, "verify") => out' = {call[t].id} /\ call[t].id \in Api]_vars

THEOREM StoredMatch == ASSUME LineAssumption PROVE Spec => MatchIsStored
<1>1. ASSUME IInv, [Next]_vars, NEW t \in Callers
      PROVE  /\ Returns(t, "identify") => out' \subseteq Api /\ out' # {}
             /\ Returns(t, "verify") => out' = {call[t].id} /\ call[t].id \in Api
  <2>1. SUFFICES ASSUME Returns(t, "identify") \/ Returns(t, "verify")
                 PROVE  /\ call[t].kind = "identify" => out' \subseteq Api /\ out' # {}
                        /\ call[t].kind = "verify" => out' = {call[t].id} /\ call[t].id \in Api
    BY DEF Returns
  <2>2. /\ call[t] # NoCall /\ at'[t] = Outside /\ ret' = "OK"
        /\ call[t].kind \in {"identify", "verify"}
    BY <2>1 DEF Returns, NoCall
  <2>3. PICK r, p :
             /\ Over(t, r, p)
             /\ \/ EnrollStarted(t, r) \/ LightSwitched(t, r) \/ SampleEnrolled(t, r)
                \/ RemovalPolled(t, r, p) \/ Matched(t, r, p)
                \/ IdChecked(t, r) /\ LastId(at[t].n, out')
                \/ LastStepDone(t, r)
    BY <1>1, <2>2, EndsOk
  <2>4. call[t] \in Calls /\ at[t].step \in StepsOf(call[t].kind)
    BY <1>1, <2>2 DEF IInv, TypeOK, Places
  <2>5. at[t].step \in {"CMOS_LED", "IS_PRESS_FINGER", "CAPTURE_FINGER",
                        IF call[t].kind = "verify" THEN "VERIFY" ELSE "IDENTIFY"}
    BY <2>2, <2>4 DEF StepsOf, Leds
  <2>6. ~LightSwitched(t, r)
    <3>1. ASSUME LightSwitched(t, r) PROVE at'[t].phase = "send"
      BY <1>1, <2>2, <3>1 DEF LightSwitched, Leds, Continue, Goto, IInv, TypeOK
    <3> QED BY <2>2, <3>1 DEF Outside
  <2>7. Matched(t, r, p)
    BY <2>2, <2>3, <2>5, <2>6
    DEF EnrollStarted, SampleEnrolled, RemovalPolled, IdChecked, LastStepDone, DataIn
  <2>8. /\ r = "OK"
        /\ out' = {IF at[t].step = "VERIFY" THEN call[t].id ELSE hw_id_to_api_id(p)}
        /\ at[t].step = IF call[t].kind = "verify" THEN "VERIFY" ELSE "IDENTIFY"
    BY <2>2, <2>5, <2>7 DEF Matched
  <2>9. CASE call[t].kind = "verify"
    <3>1. api_id_to_hw_id(call[t].id) \in db /\ call[t].id \in Ids
      BY <2>3, <2>4, <2>8, <2>9, CallTyped DEF Over
    <3> QED BY <1>1, <2>8, <2>9, <3>1, ApiIds
  <2>10. CASE call[t].kind = "identify"
    <3>1. p \in db
      BY <2>3, <2>8, <2>10 DEF Over
    <3>2. hw_id_to_api_id(p) \in Api
      BY <1>1, <3>1, ApiIds
    <3> QED BY <2>8, <2>10, <3>2
  <2> QED BY <2>2, <2>9, <2>10
<1>2. ASSUME IInv, [Next]_vars
      PROVE  [\A t \in Callers :
                /\ Returns(t, "identify") => out' \subseteq Api /\ out' # {}
                /\ Returns(t, "verify") => out' = {call[t].id} /\ call[t].id \in Api]_vars
  BY <1>1, <1>2
<1> QED BY <1>2, Invariance, PTL DEF Spec, MatchIsStored

(* What a step does to the sensor's templates and to the driver's enrollment. *)
LEMMA SensorStores ==
    ASSUME IInv, Sensor
    PROVE  \/ UNCHANGED Api
           \/ enroll_state # Idle /\ Api' = Api \cup {enroll_id}
           \/ \E t \in Callers, i \in Ids : /\ call[t] = [kind |-> "template_delete", id |-> i]
                                           /\ Api' = Api \ {i}
           \/ \E t \in Callers : /\ call[t] = [kind |-> "template_delete_all", id |-> 0]
                                /\ Api' = {}
<1>1. PICK t \in Callers : lock = t /\ at[t].phase = "recv" /\ Requested(t)
  BY Exchanging DEF Sensor, Quiet
<1>2. Request(t) \in Requests /\ commands = <<Request(t)>> /\ at[t].step \notin DataIn
  BY <1>1, RequestTyped DEF Requested
<1>3. PICK o \in Outcomes(Request(t)) : db' = o.db
  BY <1>2, OneRequest DEF Sensor
<1>4. Done(t, o) /\ o.db \in SUBSET HwIds
  BY <1>1, <1>2, OutcomeOf DEF Typed
<1>5. /\ call[t] \in Calls /\ call[t] \in Calls \cup {NoCall}
      /\ at[t].step \in StepsOf(call[t].kind)
  BY <1>1, InCall
<1>6. Api' = {hw_id_to_api_id(hw) : hw \in o.db}
  BY <1>3 DEF Api
<1>7. CASE o.db = db
  BY <1>6, <1>7 DEF Api
<1>8. CASE Stores(t) /\ enrolling.pass = 3 /\ o.db = db \cup {enrolling.id}
  <2>1. enroll_state = 3 /\ enroll_id \in Ids
    BY <1>8 DEF Stores, IInv, Stages, Idle
  <2>2. enrolling.id = api_id_to_hw_id(enroll_id)
    BY <1>8, <2>1 DEF IInv, SameEnrollment
  <2>3. hw_id_to_api_id(enrolling.id) = enroll_id
    BY <2>1, <2>2, GT5XAssumption DEF GT5XAssumption, Ids, api_id_to_hw_id, hw_id_to_api_id
  <2>4. Api' = Api \cup {enroll_id}
    BY <1>6, <1>8, <2>3 DEF Api
  <2> QED BY <2>1, <2>4 DEF Idle
<1>9. CASE at[t].step = "DELETE_ID" /\ o.db = db \ {api_id_to_hw_id(call[t].id)}
  <2>1. call[t].kind = "template_delete" /\ call[t].id \in Ids
    BY <1>5, <1>9, CallTyped, KindOf
  <2>2. call[t] = [kind |-> "template_delete", id |-> call[t].id]
    BY <1>5, <2>1 DEF Calls
  <2>3. \A hw \in db : hw = api_id_to_hw_id(call[t].id) <=> hw_id_to_api_id(hw) = call[t].id
    BY <2>1, GT5XAssumption
    DEF GT5XAssumption, IInv, TypeOK, HwIds, Ids, api_id_to_hw_id, hw_id_to_api_id
  <2>4. Api' = Api \ {call[t].id}
    BY <1>6, <1>9, <2>3 DEF Api
  <2> QED BY <2>1, <2>2, <2>4
<1>10. CASE at[t].step = "DELETE_ALL" /\ o.db = {}
  <2>1. call[t].kind = "template_delete_all"
    BY <1>5, <1>10, KindOf
  <2>2. call[t] = [kind |-> "template_delete_all", id |-> 0]
    BY <1>5, <2>1 DEF Calls, Leds
  <2>3. Api' = {}
    BY <1>6, <1>10
  <2> QED BY <2>2, <2>3
<1> QED BY <1>4, <1>7, <1>8, <1>9, <1>10 DEF Done

LEMMA ProceedEnrolls ==
    ASSUME LineAssumption, IInv, NEW t \in Callers, Proceed(t)
    PROVE  /\ UNCHANGED db
           /\ \/ UNCHANGED enroll_id /\ (enroll_state' # Idle <=> enroll_state # Idle)
              \/ /\ enroll_state = Idle /\ enroll_state' # Idle
                 /\ enroll_id' \in Ids
<1>1. PICK r \in Errors \cup {"OK"}, p \in Params :
        /\ Ended(t, r, p)
        /\ \/ Fails(t, r) \/ EnrollStarted(t, r) \/ LightSwitched(t, r)
           \/ FingerPolled(t, r, p) \/ FingerCaptured(t, r) \/ SampleEnrolled(t, r)
           \/ RemovalPolled(t, r, p) \/ Matched(t, r, p) \/ IdChecked(t, r)
           \/ StepDone(t, r) \/ PieceReceived(t, r) \/ LastStepDone(t, r)
  BY DEF Proceed
<1>2. Over(t, r, p)
  BY <1>1, EndedOver
<1>3. /\ call[t] \in Calls /\ call[t] \in Calls \cup {NoCall} /\ lock = t
      /\ at[t].step \in StepsOf(call[t].kind) /\ UNCHANGED db
  BY <1>2, InCall DEF Over, sensorVars
<1>4. CASE EnrollStarted(t, r)
  <2>1. /\ at[t].step = "ENROLL_START" /\ enroll_state' = 1 /\ enroll_id' = call[t].id
    BY <1>4 DEF EnrollStarted
  <2>2. call[t].kind = "enroll_start" /\ call[t].id \in Ids
    BY <1>3, <2>1, CallTyped, KindOf
  <2> QED BY <1>3, <2>1, <2>2 DEF IInv, Stages, Idle
<1>5. CASE SampleEnrolled(t, r)
  <2>1. at[t].step = "ENROLL" /\ enroll_state' = enroll_state + 1 /\ UNCHANGED enroll_id
    BY <1>5 DEF SampleEnrolled
  <2>2. enroll_state \in 1 .. 3
    BY <1>3, <2>1, KindOf DEF IInv, Stages
  <2> QED BY <1>3, <2>1, <2>2 DEF Idle
<1>6. CASE ~EnrollStarted(t, r) /\ ~SampleEnrolled(t, r)
  <2>1. UNCHANGED <<enroll_state, enroll_id>>
    BY <1>1, <1>6 DEF Fails, LightSwitched, FingerPolled, FingerCaptured, RemovalPolled, Matched,
       IdChecked, StepDone, PieceReceived, LastStepDone, driverVars
  <2> QED BY <1>3, <2>1
<1> QED BY <1>4, <1>5, <1>6

(* The driver keeps the promises of the API header about templates and enrollment. *)
THEOREM Contract == ASSUME LineAssumption PROVE Spec => StoreContract
<1> USE DEF Library!Next, Library!vars
<1>1. Init => Library!Init
  <2> SUFFICES ASSUME Init PROVE Library!Init
    OBVIOUS
  <2>1. Api \in SUBSET Ids
    BY InitInv, ApiIds
  <2> QED BY <2>1 DEF Init, Library!Init, Idle
<1>2. ASSUME IInv, [Next]_vars PROVE [Library!Next]_(Library!vars)
  <2>1. UNCHANGED db => UNCHANGED Api
    BY DEF Api
  <2>2. CASE Sensor
    <3>1. UNCHANGED <<enroll_state, enroll_id>>
      BY <2>2 DEF Sensor, driverVars
    <3>2. CASE UNCHANGED Api
      BY <3>1, <3>2
    <3>3. CASE enroll_state # Idle /\ Api' = Api \cup {enroll_id}
      BY <3>1, <3>3 DEF Library!EnrollCapture
    <3>4. CASE \E t \in Callers, i \in Ids : /\ call[t] = [kind |-> "template_delete", id |-> i]
                                           /\ Api' = Api \ {i}
      <4>1. PICK t \in Callers, i \in Ids : /\ call[t] = [kind |-> "template_delete", id |-> i]
                                          /\ Api' = Api \ {i}
        BY <3>4
      <4>2. Library!TemplateDelete(i)
        BY <3>1, <4>1 DEF Library!TemplateDelete
      <4>3. Library!HostCall("template_delete", i) \in {call[u] : u \in Callers}
        BY <4>1 DEF Library!HostCall
      <4> QED BY <4>2, <4>3
    <3>5. CASE \E t \in Callers : /\ call[t] = [kind |-> "template_delete_all", id |-> 0]
                                /\ Api' = {}
      <4>1. PICK t \in Callers : call[t] = [kind |-> "template_delete_all", id |-> 0] /\ Api' = {}
        BY <3>5
      <4>2. Library!TemplateDeleteAll
        BY <3>1, <4>1 DEF Library!TemplateDeleteAll
      <4>3. Library!HostCall("template_delete_all", 0) \in {call[u] : u \in Callers}
        BY <4>1 DEF Library!HostCall
      <4> QED BY <4>2, <4>3
    <3> QED BY <1>2, <2>2, <3>2, <3>3, <3>4, <3>5, SensorStores
  <2>3. ASSUME NEW t \in Callers, Begin(t) PROVE [Library!Next]_(Library!vars)
    <3>1. /\ UNCHANGED Api /\ UNCHANGED enroll_id
          /\ enroll_state' = enroll_state \/ (enroll_state # Idle /\ enroll_state' = Idle)
      <4>1. PICK c \in Calls :
              /\ Admitted(c)
              /\ enroll_state' = IF c.kind = "enroll_finalize" THEN Idle ELSE enroll_state
        BY <2>3 DEF Begin
      <4>2. c.kind = "enroll_finalize" => enroll_state # Idle
        BY <4>1 DEF Admitted, Leds, Idle, Ready
      <4> QED BY <2>1, <2>3, <4>1, <4>2 DEF Begin, sensorVars
    <3> QED BY <3>1 DEF Library!EnrollAbort
  <2>4. ASSUME NEW t \in Callers, EnrollAbort(t) PROVE Library!Next
    BY <2>1, <2>4 DEF EnrollAbort, Library!EnrollAbort, sensorVars
  <2>5. ASSUME NEW t \in Callers, Proceed(t) PROVE [Library!Next]_(Library!vars)
    <3>1. UNCHANGED Api
      BY <1>2, <2>1, <2>5, ProceedEnrolls
    <3>2. CASE UNCHANGED enroll_id /\ (enroll_state' # Idle <=> enroll_state # Idle)
      BY <3>1, <3>2
    <3>3. CASE enroll_state = Idle /\ enroll_state' # Idle /\ enroll_id' \in Ids
      BY <3>1, <3>3 DEF Library!EnrollStart
    <3> QED BY <1>2, <2>5, <3>2, <3>3, ProceedEnrolls
  <2>6. ASSUME UNCHANGED <<enroll_state, enroll_id, db>> PROVE UNCHANGED Library!vars
    BY <2>1, <2>6
  <2>7. CASE RxIsr \/ UNCHANGED vars
    BY <2>6, <2>7 DEF RxIsr, vars, driverVars, sensorVars
  <2>8. ASSUME NEW t \in Callers, Send(t) \/ Deadline(t) \/ Relock(t) PROVE UNCHANGED Library!vars
    BY <2>6, <2>8 DEF Send, Deadline, Relock, driverVars, sensorVars
  <2> QED BY <1>2, <2>2, <2>3, <2>4, <2>5, <2>7, <2>8 DEF Next, Call
<1> QED BY <1>1, <1>2, Invariance, PTL DEF Spec, StoreContract, Library!Spec
=============================================================================
