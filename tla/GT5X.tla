-------------------------------- MODULE GT5X --------------------------------
(***************************************************************************)
(* The GT5X driver (biometrics_gt5x.c): its API calls, the exchanges they  *)
(* are made of, and the receive interrupt.  Every exchange holds the       *)
(* (recursive) mutex, and so does every call for its whole length, except  *)
(* while enroll_capture waits for the finger to be lifted.                 *)
(*                                                                         *)
(* A frame is what one read takes, 12 bytes: an answer, or a piece of a    *)
(* data packet; frames are received whole.  The sensor and the line are    *)
(* external: the sensor serves commands in order; its answers name no      *)
(* command, and what arrives while reception is off waits in the UART.     *)
(* Calls refused at once, attributes, and enrolled_count and               *)
(* last_match_id, which no call acts on, are left out.                     *)
(***************************************************************************)
EXTENDS Naturals, Sequences, FiniteSets

CONSTANTS Callers,      \* the threads that use the driver
          MaxTemplates, \* max_templates of the device tree
          MaxCount,     \* ids the caller of a listing has room for
          Pieces,       \* reads that a data packet takes
          Polls,        \* polls for a finger before any timeout has elapsed
          Late,         \* frames that may be outstanding when a wait for one expires
          Faults        \* what may fail beside the sensor

ASSUME GT5XAssumption ==
    /\ MaxTemplates \in Nat \ {0} /\ Pieces \in Nat \ {0} /\ MaxCount \in Nat /\ Polls \in Nat /\ Late \in Nat
    /\ Faults \subseteq {"lost", "corrupt", "split", "heap"}
    /\ "nobody" \notin Callers

VARIABLES
    lock,           \* who holds the mutex
    call,           \* the API call of each thread
    at,             \* where it is: the phase of an exchange, its step and a count
    enroll_state,   \* 0 idle, 1..3 the sample awaited, 4 ready
    enroll_id, led_on,
    out,            \* ids found by the call that holds the mutex
    ret,            \* what the last call to end returned
    rx_on,          \* reception is enabled
    packet,         \* the frame that the token of uart_rx_sem stands for
    commands, line, \* commands to the sensor; its answers not yet received
    db, enrolling, image    \* the sensor: its templates, its enrollment, its last image

driverVars == <<enroll_state, enroll_id, led_on>>
rxVars == <<rx_on, packet>>
wireVars == <<commands, line>>
sensorVars == <<db, enrolling, image>>
callVars == <<lock, call, at, out, ret>>
vars == <<callVars, driverVars, rxVars, wireVars, sensorVars>>

Ids == 1 .. MaxTemplates
HwIds == 0 .. MaxTemplates - 1
api_id_to_hw_id(id) == id - 1
hw_id_to_api_id(hw) == hw + 1

Idle == 0
Ready == 4

Captures == {"enroll_capture", "verify", "identify"}
Leds == {"led_on", "led_off"}
Calls == [kind : {"enroll_start", "template_store", "template_read", "template_delete", "verify"},
          id : Ids]
         \cup [kind : {"enroll_capture", "enroll_finalize", "template_delete_all",
                       "template_list", "identify"} \cup Leds, id : {0}]

NoCall == [kind |-> "none", id |-> 0]
Outside == [phase |-> "idle", step |-> "none", n |-> 0]
NoPacket == [answer |-> "none", param |-> 0]
NoEnrollment == [id |-> 0, pass |-> 0]
NoImage == [by |-> "nobody", best |-> 0]

Init == /\ lock = "nobody"
        /\ call = [t \in Callers |-> NoCall]
        /\ at = [t \in Callers |-> Outside]
        /\ enroll_state = Idle
        /\ enroll_id = 0
        /\ led_on \in BOOLEAN
        /\ out = {}
        /\ ret = "OK"
        /\ rx_on = FALSE
        /\ packet = NoPacket
        /\ commands = <<>>
        /\ line = <<>>
        /\ db \in SUBSET HwIds
        /\ enrolling = NoEnrollment
        /\ image = NoImage
-----------------------------------------------------------------------------
(***************************************************************************)
(* The sensor and the line.                                                *)
(***************************************************************************)

Became(answer, param) ==
    [answer |-> answer, param |-> param, db |-> db, enrolling |-> enrolling, image |-> image]

Uses == {"ENROLL", "VERIFY", "IDENTIFY"}

(* What the sensor may answer to a command, and the state it is in then.  An image *)
(* is good for the next command only: the driver must not rely on more.            *)
Outcomes(c) ==
    CASE c.cmd \in {"CMOS_LED", "SET_TEMPLATE", "DATA"} -> {Became("ACK", 0)}
      [] c.cmd = "GET_ENROLL_COUNT" -> {Became("ACK", Cardinality(db))}
      [] c.cmd = "IS_PRESS_FINGER" -> {Became("ACK", p) : p \in 0..1}
      [] c.cmd \in {"CHECK_ENROLLED", "GET_TEMPLATE"} ->
            {Became(IF c.param \in db THEN "ACK" ELSE "IS_NOT_USED", 0)}
      [] c.cmd = "DELETE_ID" ->
            {[Became(IF c.param \in db THEN "ACK" ELSE "IS_NOT_USED", 0)
                EXCEPT !.db = @ \ {c.param}]}
      [] c.cmd = "DELETE_ALL" ->
            {[Became(IF db = {} THEN "DB_IS_EMPTY" ELSE "ACK", 0) EXCEPT !.db = {}]}
      [] c.cmd = "CAPTURE_FINGER" ->
            {[Became("FINGER_IS_NOT_PRESSED", 0) EXCEPT !.image = NoImage],
             [Became("ACK", 0) EXCEPT !.image = [by |-> c.by, best |-> c.param]]}
      [] c.cmd = "ENROLL_START" ->
            IF c.param \in db THEN {Became("IS_ALREADY_USED", 0)}
            ELSE {[Became("ACK", 0) EXCEPT !.enrolling = [id |-> c.param, pass |-> 1]]}
      [] c.cmd = "ENROLL" ->
            IF enrolling.pass # c.param THEN {Became("TURN_ERR", 0)}
            ELSE {Became("BAD_FINGER", 0),
                  [Became("ENROLL_FAILED", 0) EXCEPT !.enrolling = NoEnrollment],
                  IF c.param < 3
                  THEN [Became("ACK", 0) EXCEPT !.enrolling.pass = @ + 1]
                  ELSE [Became("ACK", 0) EXCEPT !.enrolling = NoEnrollment,
                                                !.db = @ \cup {enrolling.id}]}
      [] c.cmd = "VERIFY" ->
            IF c.param \in db THEN {Became("ACK", 0), Became("VERIFY_FAILED", 0)}
            ELSE {Became("IS_NOT_USED", 0)}
      [] c.cmd = "IDENTIFY" ->
            {Became("IDENTIFY_FAILED", 0)} \cup {Became("ACK", hw) : hw \in db}

Frame(answer, param) == [answer |-> answer, param |-> param]

(* The first n pieces of the data packet that follows the ACK of GET_TEMPLATE. *)
DataPieces(n) == [i \in 1 .. n |-> Frame("DATA", i)]
Damaged(i) == [DataPieces(Pieces) EXCEPT ![i] = Frame("BAD", 0)]

(* What arrives of an answer.  A data packet may be lost with its ACK, behind it, or *)
(* in part; "split" is that it arrives although the ACK is lost or damaged.          *)
Arrivals(c, o) ==
    LET ack == <<Frame(o.answer, o.param)>>
        bad == <<Frame("BAD", 0)>>
    IN  IF c.cmd = "GET_TEMPLATE" /\ o.answer = "ACK"
        THEN {ack \o DataPieces(Pieces)}
             \cup (IF "lost" \in Faults
                   THEN {<<>>} \cup {ack \o DataPieces(n) : n \in 0 .. Pieces - 1} ELSE {})
             \cup (IF "corrupt" \in Faults THEN {ack \o Damaged(i) : i \in 1 .. Pieces} ELSE {})
             \cup (IF "split" \in Faults
                   THEN {f \o DataPieces(n) : f \in {<<>>, bad}, n \in 1 .. Pieces} ELSE {})
        ELSE {ack}
             \cup (IF "lost" \in Faults THEN {<<>>} ELSE {})
             \cup (IF "corrupt" \in Faults THEN {bad} ELSE {})

Sensor ==
    /\ commands # <<>>
    /\ \E o \in Outcomes(Head(commands)) :
        /\ db' = o.db /\ enrolling' = o.enrolling
        /\ image' = IF Head(commands).cmd = "CAPTURE_FINGER" THEN o.image ELSE NoImage
        /\ \E frames \in Arrivals(Head(commands), o) : line' = line \o frames
    /\ commands' = Tail(commands)
    /\ UNCHANGED <<callVars, driverVars, rxVars>>

(* gt5x_uart_rx_handler(): with the bytes of one read reception ends and the token is *)
(* given; what nobody has taken of the last read is overwritten.                      *)
RxIsr ==
    /\ rx_on /\ line # <<>>
    /\ packet' = Head(line)
    /\ line' = Tail(line)
    /\ rx_on' = FALSE
    /\ UNCHANGED <<callVars, driverVars, commands, sensorVars>>
-----------------------------------------------------------------------------
(***************************************************************************)
(* Exchanges: gt5x_transceive() and the data packets.                      *)
(***************************************************************************)

Outstanding == Len(commands) + Len(line) + (IF packet = NoPacket THEN 0 ELSE 1)

HwParam(t) ==
    CASE at[t].step \in {"ENROLL_START", "SET_TEMPLATE", "GET_TEMPLATE", "DELETE_ID", "VERIFY"} ->
            api_id_to_hw_id(call[t].id)
      [] at[t].step = "CHECK_ENROLLED" -> at[t].n
      [] at[t].step = "CMOS_LED" -> IF call[t].kind = "led_off" THEN 0 ELSE 1
      [] at[t].step = "CAPTURE_FINGER" -> IF call[t].kind = "enroll_capture" THEN 1 ELSE 0
      [] at[t].step = "ENROLL" -> enroll_state
      [] OTHER -> 0

(* The steps in which a data packet is read: as sent so far, or with a wrong piece. *)
DataIn == {"DATA_IN", "DATA_BAD"}

Request(t) == [cmd |-> IF at[t].step = "REMOVAL" THEN "IS_PRESS_FINGER" ELSE at[t].step,
               param |-> HwParam(t), by |-> t]

(* The command is sent and reception enabled.  The pieces of a data packet from the *)
(* sensor are read without a command.                                               *)
Send(t) ==
    /\ at[t].phase = "send"
    /\ commands' = IF at[t].step \in DataIn THEN commands ELSE Append(commands, Request(t))
    /\ rx_on' = TRUE
    /\ at' = [at EXCEPT ![t].phase = "recv"]
    /\ UNCHANGED <<lock, call, out, ret, driverVars, packet, line, sensorVars>>

(* k_sem_take() gives up.  Reception is still on until the thread runs. *)
Deadline(t) ==
    /\ at[t].phase = "recv" /\ packet = NoPacket
    /\ Outstanding <= Late
    /\ at' = [at EXCEPT ![t].phase = "expired"]
    /\ UNCHANGED <<lock, call, out, ret, driverVars, rxVars, wireVars, sensorVars>>

(* gt5x_nack_to_errno() *)
nack_to_errno(answer) ==
    CASE answer \in {"IS_NOT_USED", "VERIFY_FAILED", "IDENTIFY_FAILED", "DB_IS_EMPTY"} -> "ENOENT"
      [] answer = "IS_ALREADY_USED" -> "EEXIST"
      [] answer \in {"BAD_FINGER", "FINGER_IS_NOT_PRESSED"} -> "EAGAIN"
      [] answer \in {"ENROLL_FAILED", "TURN_ERR"} -> "EIO"

Errors == {"ENOENT", "EEXIST", "EAGAIN", "EIO", "EBADMSG", "ETIMEDOUT", "ENOMEM"}
Params == 0 .. MaxTemplates

(* gt5x_recv_response() and gt5x_recv_data_packet() once the token is taken. *)
ResponseResult ==
    CASE packet.answer = "ACK" -> "OK"
      [] packet.answer \in {"DATA", "BAD"} -> "EBADMSG"
      [] OTHER -> nack_to_errno(packet.answer)

(* A data packet is checked when it is complete. *)
AsSent(t) == at[t].step = "DATA_IN" /\ packet = Frame("DATA", at[t].n + 1)
LastPiece(t) == at[t].n = Pieces - 1
DataResult(t) == IF LastPiece(t) /\ ~AsSent(t) THEN "EBADMSG" ELSE "OK"

(* The parameter is that of an acknowledgment. *)
Received(t, r, p) ==
    /\ at[t].phase = "recv" /\ packet # NoPacket
    /\ r = (IF at[t].step \in DataIn THEN DataResult(t) ELSE ResponseResult)
    /\ p = (IF packet.answer = "ACK" THEN packet.param ELSE 0)
    /\ packet' = NoPacket
    /\ UNCHANGED rx_on

Expired(t, r, p) ==
    /\ at[t].phase = "expired" /\ r = "ETIMEDOUT" /\ p = 0
    /\ rx_on' = FALSE
    /\ UNCHANGED packet

(* The UART does not take what is sent, or the heap has no room for a data packet, of *)
(* which nothing has been read or sent then.                                          *)
SendFailures(t) ==
    (IF "lost" \in Faults /\ at[t].step \notin DataIn THEN {"ETIMEDOUT"} ELSE {})
    \cup (IF "heap" \in Faults /\ at[t].step \in {"DATA", "DATA_IN"} /\ at[t].n = 0
          THEN {"ENOMEM"} ELSE {})

NotSent(t, r, p) ==
    /\ at[t].phase = "send" /\ r \in SendFailures(t) /\ p = 0
    /\ UNCHANGED rxVars

(* The exchange of t ends with result r and response parameter p. *)
Ended(t, r, p) ==
    /\ Received(t, r, p) \/ Expired(t, r, p) \/ NotSent(t, r, p)
    /\ UNCHANGED <<wireVars, sensorVars>>
-----------------------------------------------------------------------------
(***************************************************************************)
(* API calls.                                                              *)
(***************************************************************************)

FirstStep ==
    [enroll_start |-> "ENROLL_START", enroll_finalize |-> "GET_ENROLL_COUNT",
     template_store |-> "SET_TEMPLATE", template_read |-> "GET_TEMPLATE",
     template_delete |-> "DELETE_ID", template_delete_all |-> "DELETE_ALL",
     template_list |-> "CHECK_ENROLLED", led_on |-> "CMOS_LED", led_off |-> "CMOS_LED"]

(* Mutants: Bug_F is F with one plausible mistake. *)

(* An enrollment that is open is not noticed. *)
Bug_Admitted(c) ==
    CASE c.kind = "enroll_capture" -> enroll_state \notin {Idle, Ready}
      [] c.kind = "enroll_finalize" -> enroll_state = Ready
      [] c.kind \in Leds -> led_on # (c.kind = "led_on")
      [] c.kind = "template_list" -> MaxCount > 0
      [] OTHER -> TRUE

Admitted(c) ==
    CASE c.kind = "enroll_start" -> enroll_state = Idle
      [] c.kind = "enroll_capture" -> enroll_state \notin {Idle, Ready}
      [] c.kind = "enroll_finalize" -> enroll_state = Ready
      [] c.kind \in Leds -> led_on # (c.kind = "led_on")
      [] c.kind = "template_list" -> MaxCount > 0
      [] OTHER -> TRUE

Goto(t, step) == at' = [at EXCEPT ![t] = [phase |-> "send", step |-> step, n |-> 0]]

(* Every call that reaches the sensor up to its first command; a capture turns *)
(* the light on unless it is on.                                               *)
Begin(t) ==
    /\ at[t] = Outside /\ lock = "nobody"
    /\ \E c \in Calls :
        /\ Admitted(c)
        /\ call' = [call EXCEPT ![t] = c]
        /\ Goto(t, IF c.kind \notin Captures THEN FirstStep[c.kind]
                   ELSE IF led_on THEN "IS_PRESS_FINGER" ELSE "CMOS_LED")
        /\ enroll_state' = IF c.kind = "enroll_finalize" THEN Idle ELSE enroll_state
    /\ lock' = t
    /\ out' = {} /\ ret' = "OK"
    /\ UNCHANGED <<enroll_id, led_on, rxVars, wireVars, sensorVars>>

(* enroll_abort tells the sensor nothing. *)
EnrollAbort(t) ==
    /\ at[t] = Outside /\ lock = "nobody"
    /\ enroll_state # Idle
    /\ enroll_state' = Idle
    /\ ret' = "OK"
    /\ UNCHANGED <<lock, call, at, out, enroll_id, led_on, rxVars, wireVars, sensorVars>>

Return(t, r) ==
    /\ ret' = r
    /\ lock' = "nobody"
    /\ call' = [call EXCEPT ![t] = NoCall]
    /\ at' = [at EXCEPT ![t] = Outside]

Continue(t, step) == Goto(t, step) /\ UNCHANGED <<lock, call, ret>>

(* The same step once more, with the mutex (phase "send") or waiting for it. *)
Again(t, phase) ==
    at' = [at EXCEPT ![t] = [phase |-> phase, step |-> at[t].step, n |-> at[t].n + 1]]

(* A failed scan goes on with the next id. *)
Bug_Tolerated(t, r) ==
    \/ at[t].step = "CHECK_ENROLLED"
    \/ at[t].step \in {"GET_ENROLL_COUNT", "REMOVAL"}

(* A delete goes on to refresh the count whatever the sensor said. *)
Bug_Tolerated2(t, r) ==
    \/ at[t].step = "CHECK_ENROLLED" /\ r = "ENOENT"
    \/ at[t].step \in {"GET_ENROLL_COUNT", "REMOVAL", "DELETE_ID"}

(* The result of CAPTURE_FINGER is not looked at. *)
Bug_Tolerated3(t, r) ==
    \/ at[t].step = "CHECK_ENROLLED" /\ r = "ENOENT"
    \/ at[t].step \in {"GET_ENROLL_COUNT", "REMOVAL", "CAPTURE_FINGER"}

(* The failures that do not end a call. *)
Tolerated(t, r) ==
    \/ at[t].step = "CHECK_ENROLLED" /\ r = "ENOENT"
    \/ at[t].step \in {"GET_ENROLL_COUNT", "REMOVAL"}

Fails(t, r) ==
    /\ r # "OK" /\ ~Tolerated(t, r)
    /\ Return(t, r)
    /\ out' = {}
    /\ UNCHANGED driverVars

EnrollStarted(t, r) ==
    /\ at[t].step = "ENROLL_START" /\ r = "OK"
    /\ enroll_state' = 1 /\ enroll_id' = call[t].id
    /\ Return(t, r)
    /\ UNCHANGED <<out, led_on>>

LightSwitched(t, r) ==
    /\ at[t].step = "CMOS_LED" /\ r = "OK"
    /\ led_on' = (call[t].kind # "led_off")
    /\ IF call[t].kind \in Leds THEN Return(t, "OK") ELSE Continue(t, "IS_PRESS_FINGER")
    /\ UNCHANGED <<out, enroll_state, enroll_id>>

(* Polling for a finger goes on until the timeout: at once with K_NO_WAIT. *)
FingerPolled(t, r, p) ==
    /\ at[t].step = "IS_PRESS_FINGER" /\ r = "OK"
    /\ \/ p = 0 /\ Continue(t, "CAPTURE_FINGER")
       \/ p # 0 /\ Return(t, "ETIMEDOUT")
       \/ /\ p # 0 /\ at[t].n < Polls
          /\ Again(t, "send")
          /\ UNCHANGED <<lock, call, ret>>
    /\ UNCHANGED <<out, driverVars>>

FingerCaptured(t, r) ==
    /\ at[t].step = "CAPTURE_FINGER" /\ (r = "OK" \/ Tolerated(t, r))
    /\ Continue(t, CASE call[t].kind = "enroll_capture" -> "ENROLL"
                     [] call[t].kind = "verify" -> "VERIFY"
                     [] call[t].kind = "identify" -> "IDENTIFY")
    /\ UNCHANGED <<out, driverVars>>

(* A sample is in; unless it was the last the call waits for the finger to be *)
(* lifted, without the mutex.                                                 *)
SampleEnrolled(t, r) ==
    /\ at[t].step = "ENROLL" /\ r = "OK"
    /\ enroll_state' = enroll_state + 1
    /\ IF enroll_state = 3 THEN Return(t, "OK")
       ELSE /\ lock' = "nobody"
            /\ at' = [at EXCEPT ![t] = [phase |-> "removal", step |-> "REMOVAL", n |-> 0]]
            /\ UNCHANGED <<call, ret>>
    /\ UNCHANGED <<out, enroll_id, led_on>>

(* One poll of gt5x_wait_finger_removal(); its result is only logged. *)
Relock(t) ==
    /\ at[t].phase = "removal" /\ lock = "nobody"
    /\ lock' = t
    /\ at' = [at EXCEPT ![t].phase = "send"]
    /\ UNCHANGED <<call, out, ret, driverVars, rxVars, wireVars, sensorVars>>

(* The wait for removal has no timeout. *)
Bug_RemovalPolled(t, r, p) ==
    /\ at[t].step = "REMOVAL"
    /\ IF r # "OK" \/ p # 0 THEN Return(t, "OK")
       ELSE /\ lock' = "nobody"
            /\ at' = [at EXCEPT ![t].phase = "removal"]
            /\ UNCHANGED <<call, ret>>
    /\ UNCHANGED <<out, driverVars>>

RemovalPolled(t, r, p) ==
    /\ at[t].step = "REMOVAL"
    /\ \/ Return(t, "OK")
       \/ /\ r = "OK" /\ p = 0 /\ at[t].n < Polls
          /\ lock' = "nobody"
          /\ Again(t, "removal")
          /\ UNCHANGED <<call, ret>>
    /\ UNCHANGED <<out, driverVars>>

Matched(t, r, p) ==
    /\ at[t].step \in {"VERIFY", "IDENTIFY"} /\ r = "OK"
    /\ out' = {IF at[t].step = "VERIFY" THEN call[t].id ELSE hw_id_to_api_id(p)}
    /\ Return(t, "OK")
    /\ UNCHANGED driverVars

LastId(n, found) == n = MaxTemplates - 1 \/ Cardinality(found) = MaxCount

IdChecked(t, r) ==
    /\ at[t].step = "CHECK_ENROLLED" /\ (r = "OK" \/ Tolerated(t, r))
    /\ out' = IF r = "OK" THEN out \cup {hw_id_to_api_id(at[t].n)} ELSE out
    /\ IF LastId(at[t].n, out') THEN Return(t, "OK")
       ELSE /\ Again(t, "send")
            /\ UNCHANGED <<lock, call, ret>>
    /\ UNCHANGED driverVars

(* The steps that only lead to the next one. *)
Following == [SET_TEMPLATE |-> "DATA", DATA |-> "GET_ENROLL_COUNT",
              DELETE_ID |-> "GET_ENROLL_COUNT", GET_TEMPLATE |-> "DATA_IN"]

StepDone(t, r) ==
    /\ at[t].step \in DOMAIN Following /\ (r = "OK" \/ Tolerated(t, r))
    /\ Continue(t, Following[at[t].step])
    /\ UNCHANGED <<out, driverVars>>

(* The next read of a data packet. *)
PieceReceived(t, r) ==
    /\ at[t].step \in DataIn /\ r = "OK" /\ ~LastPiece(t)
    /\ at' = [at EXCEPT ![t] = [phase |-> "send", n |-> at[t].n + 1,
                                step |-> IF AsSent(t) THEN "DATA_IN" ELSE "DATA_BAD"]]
    /\ UNCHANGED <<lock, call, ret, out, driverVars>>

LastStepDone(t, r) ==
    /\ \/ at[t].step = "DELETE_ALL" /\ r = "OK"
       \/ at[t].step \in DataIn /\ r = "OK" /\ LastPiece(t)
       \/ at[t].step = "GET_ENROLL_COUNT"
    /\ Return(t, "OK")
    /\ UNCHANGED <<out, driverVars>>

Proceed(t) ==
    \E r \in Errors \cup {"OK"}, p \in Params :
        /\ Ended(t, r, p)
        /\ \/ Fails(t, r) \/ EnrollStarted(t, r) \/ LightSwitched(t, r)
           \/ FingerPolled(t, r, p) \/ FingerCaptured(t, r) \/ SampleEnrolled(t, r)
           \/ RemovalPolled(t, r, p) \/ Matched(t, r, p) \/ IdChecked(t, r)
           \/ StepDone(t, r) \/ PieceReceived(t, r) \/ LastStepDone(t, r)

Call(t) == Send(t) \/ Deadline(t) \/ Relock(t) \/ Proceed(t)

Next == \/ Sensor \/ RxIsr
        \/ \E t \in Callers : Begin(t) \/ EnrollAbort(t) \/ Call(t)

Spec == Init /\ [][Next]_vars

(* Interrupts, time and threads go on; the mutex goes to its longest waiter. *)
FairSpec == /\ Spec
            /\ WF_vars(Sensor) /\ WF_vars(RxIsr)
            /\ \A t \in Callers : /\ WF_vars(Send(t) \/ Deadline(t) \/ Proceed(t))
                                  /\ SF_vars(Relock(t))
-----------------------------------------------------------------------------
(***************************************************************************)
(* Properties.                                                             *)
(***************************************************************************)

Api == {hw_id_to_api_id(hw) : hw \in db}

Returns(t, kind) == call[t].kind = kind /\ at'[t] = Outside /\ ret' = "OK"

(* A listing that returned 0 reported the templates the sensor stores, all of them *)
(* unless the caller's array is full: "A failed scan must not report a valid       *)
(* inventory" (biometrics_gt5x.c:953), whatever other threads do meanwhile.        *)
ListIsExact ==
    [][\A t \in Callers : Returns(t, "template_list")
            => out' \subseteq Api /\ (out' = Api \/ Cardinality(out') = MaxCount)]_vars

(* A delete that returned 0 has taken place, even if refreshing the count failed. *)
DeleteIsDone ==
    [][\A t \in Callers :
        /\ Returns(t, "template_delete") => call[t].id \notin Api
        /\ Returns(t, "template_delete_all") => db = {}]_vars

Library == INSTANCE BiometricStore
            WITH db <- Api, open <- enroll_state # Idle, template_id <- enroll_id,
                 calls <- {call[t] : t \in Callers}

(* The driver keeps the promises of the blocking API (biometrics.h:487-698), on which *)
(* SharedWorkflow relies: what the sensor still has of an enrollment whose answers    *)
(* were lost, or that was aborted, never becomes a template of another one.           *)
StoreContract == Library!Spec

(* The image the sensor enrolls or compares is one the same caller captured for this *)
(* use, in the quality it asked for: no capture of another thread comes between, and *)
(* none is used again after a capture that failed.                                   *)
ImageIsOwn ==
    commands # <<>> /\ Head(commands).cmd \in Uses
        => image = [by |-> Head(commands).by,
                    best |-> IF Head(commands).cmd = "ENROLL" THEN 1 ELSE 0]

(* Every call returns, whatever the sensor answers: the polls end and no thread    *)
(* waits for the mutex for ever.                                                   *)
CallsReturn == \A t \in Callers : at[t] # Outside ~> at[t] = Outside
-----------------------------------------------------------------------------
(***************************************************************************)
(* The inductive invariant behind the safety properties, for Late = 0 and  *)
(* Faults without "split" and "heap".                                      *)
(***************************************************************************)

Steps == {"ENROLL_START", "GET_ENROLL_COUNT", "SET_TEMPLATE", "DATA", "GET_TEMPLATE", "DATA_IN",
          "DATA_BAD", "DELETE_ID", "DELETE_ALL", "CHECK_ENROLLED", "CMOS_LED", "IS_PRESS_FINGER",
          "CAPTURE_FINGER", "ENROLL", "REMOVAL", "VERIFY", "IDENTIFY"}
Phases == {"idle", "send", "recv", "expired", "removal"}
Answers == {"ACK", "DATA", "BAD", "IS_NOT_USED", "VERIFY_FAILED", "IDENTIFY_FAILED", "DB_IS_EMPTY",
            "IS_ALREADY_USED", "BAD_FINGER", "FINGER_IS_NOT_PRESSED", "ENROLL_FAILED", "TURN_ERR"}
Packets == [answer : Answers, param : Nat]
Requests == [cmd : Steps, param : Nat, by : Callers]

TypeOK ==
    /\ lock \in Callers \cup {"nobody"}
    /\ call \in [Callers -> Calls \cup {NoCall}]
    /\ at \in [Callers -> [phase : Phases, step : Steps \cup {"none"}, n : Nat]]
    /\ enroll_state \in 0 .. 4 /\ enroll_id \in Ids \cup {0} /\ led_on \in BOOLEAN
    /\ out \in SUBSET Ids
    /\ ret \in Errors \cup {"OK"}
    /\ rx_on \in BOOLEAN /\ packet \in Packets \cup {NoPacket}
    /\ commands \in Seq(Requests) /\ line \in Seq(Packets)
    /\ db \in SUBSET HwIds
    /\ enrolling \in [id : HwIds, pass : 0 .. 3]
    /\ image \in [by : Callers \cup {"nobody"}, best : {0, 1}]

(* The steps of a call after one another. *)
StepsOf(kind) ==
    CASE kind = "enroll_start" -> {"ENROLL_START"}
      [] kind = "enroll_capture" ->
            {"CMOS_LED", "IS_PRESS_FINGER", "CAPTURE_FINGER", "ENROLL", "REMOVAL"}
      [] kind = "enroll_finalize" -> {"GET_ENROLL_COUNT"}
      [] kind = "template_store" -> {"SET_TEMPLATE", "DATA", "GET_ENROLL_COUNT"}
      [] kind = "template_read" -> {"GET_TEMPLATE"} \cup DataIn
      [] kind = "template_delete" -> {"DELETE_ID", "GET_ENROLL_COUNT"}
      [] kind = "template_delete_all" -> {"DELETE_ALL"}
      [] kind = "template_list" -> {"CHECK_ENROLLED"}
      [] kind = "verify" -> {"CMOS_LED", "IS_PRESS_FINGER", "CAPTURE_FINGER", "VERIFY"}
      [] kind = "identify" -> {"CMOS_LED", "IS_PRESS_FINGER", "CAPTURE_FINGER", "IDENTIFY"}
      [] kind \in Leds -> {"CMOS_LED"}
      [] OTHER -> {"none"}

(* A thread that exchanges holds the mutex; one that waits for removal does not. *)
Places ==
    \A t \in Callers :
        /\ lock = t <=> at[t].phase \in {"send", "recv", "expired"}
        /\ at[t].phase = "idle" <=> at[t] = Outside
        /\ at[t] = Outside <=> call[t] = NoCall
        /\ at[t].step \in StepsOf(call[t].kind)
        /\ at[t].phase = "removal" => at[t].step = "REMOVAL"

(* An enrollment admits captures until its last sample; while one is made, or another is *)
(* started, its stage stays.                                                               *)
Stages ==
    /\ enroll_state # Idle => enroll_id \in Ids
    /\ \A t \in Callers :
        /\ call[t].kind = "enroll_start" => enroll_state = Idle
        /\ call[t].kind = "enroll_capture" /\ at[t].step # "REMOVAL" => enroll_state \in 1 .. 3

(* The sensor's enrollment is that of the driver, or over. *)
SameEnrollment ==
    enroll_state \in 1 .. 3 => enrolling.pass = 0 \/ enrolling.id = api_id_to_hw_id(enroll_id)

(* What the answers to t's command say of the sensor. *)
Means(t, f) ==
    /\ at[t].step = "CHECK_ENROLLED" =>
            \/ f.answer = "BAD"
            \/ f.answer = (IF at[t].n \in db THEN "ACK" ELSE "IS_NOT_USED")
    /\ f.answer = "ACK" =>
        /\ at[t].step = "DELETE_ID" => api_id_to_hw_id(call[t].id) \notin db
        /\ at[t].step = "DELETE_ALL" => db = {}
        /\ at[t].step = "ENROLL_START" => enrolling.id = api_id_to_hw_id(call[t].id)
        /\ at[t].step = "CAPTURE_FINGER" => image = [by |-> t, best |-> HwParam(t)]
        /\ at[t].step = "VERIFY" => api_id_to_hw_id(call[t].id) \in db
        /\ at[t].step = "IDENTIFY" => f.param \in db

(* How many frames the data packet may have on the line when t begins a read, and behind *)
(* the frame f that t reads; nothing else follows an answer.                             *)
Due(t) == IF at[t].step \in DataIn THEN Pieces - at[t].n ELSE 0
Behind(t, f) ==
    CASE at[t].step \in DataIn -> Pieces - at[t].n - 1
      [] at[t].step = "GET_TEMPLATE" /\ f.answer = "ACK" -> Pieces
      [] OTHER -> 0
Follows(t, f, frames) == Len(frames) <= Behind(t, f)

(* One exchange at a time: the wire is empty when its thread lets go of it. *)
Quiet == commands = <<>> /\ line = <<>> /\ packet = NoPacket

Requested(t) ==
    /\ commands = <<Request(t)>> /\ line = <<>> /\ packet = NoPacket /\ rx_on
    /\ at[t].step \notin DataIn
Answered(t) ==
    /\ commands = <<>> /\ packet = NoPacket /\ rx_on
    /\ line # <<>> => Means(t, Head(line)) /\ Follows(t, Head(line), Tail(line))
Arrived(t) ==
    /\ commands = <<>> /\ packet # NoPacket /\ ~rx_on
    /\ Means(t, packet) /\ Follows(t, packet, line)

OneExchange ==
    /\ lock = "nobody" => Quiet /\ ~rx_on
    /\ \A t \in Callers :
        /\ at[t].phase = "send" =>
                ~rx_on /\ commands = <<>> /\ packet = NoPacket /\ Len(line) <= Due(t)
        /\ at[t].phase = "recv" => Requested(t) \/ Answered(t) \/ Arrived(t)
        /\ at[t].phase = "expired" => Quiet

(* What the steps before have established for the one that t is at. *)
Found(n) == {hw_id_to_api_id(hw) : hw \in {m \in db : m < n}}

Progress ==
    \A t \in Callers :
        lock = t =>
            /\ at[t].step = "CHECK_ENROLLED" => at[t].n < MaxTemplates /\ out = Found(at[t].n)
            /\ at[t].step \in DataIn => at[t].n < Pieces
            /\ call[t].kind = "template_delete" /\ at[t].step = "GET_ENROLL_COUNT"
                    => api_id_to_hw_id(call[t].id) \notin db
            /\ at[t].step \in Uses /\ (at[t].phase = "send" \/ commands # <<>>)
                    => image = [by |-> t, best |-> IF at[t].step = "ENROLL" THEN 1 ELSE 0]

IInv == TypeOK /\ Places /\ Stages /\ SameEnrollment /\ OneExchange /\ Progress
=============================================================================
