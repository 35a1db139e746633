------------------------------ MODULE AI10Link ------------------------------
(***************************************************************************)
(* The exchange between the AI10 driver and the sensor: which reply a call *)
(* accepts as the answer to its command.  Frames carry a command but no    *)
(* sequence number; every operation opens with RESET, and the driver takes *)
(* the first RESET reply it sees as the boundary to what came before.      *)
(*                                                                         *)
(* The driver's side is biometrics_ai10.c one level above AI10Async: whole *)
(* frames, one operation at a time.  The sensor is external: it serves     *)
(* commands in order, RESET ends what it is doing, and it may be slow.     *)
(***************************************************************************)
EXTENDS Naturals, Sequences, FiniteSets

CONSTANTS Ids,          \* the templates the sensor can store
          PageSize,     \* ids in a full LIST reply: AI10_LIST_IDS_PER_PACKET
          MaxCount,     \* ids the caller of a listing has room for
          RingFrames,   \* frames the receive ring holds
          Slack,        \* RESETs that may be unanswered when the next one is sent
          Faults,       \* what the line may do to a frame: a subset of {"corrupt", "lost"}
          Numbers       \* names for operations: more than can be under way at once

ASSUME LinkAssumption ==
    /\ PageSize \in Nat \ {0} /\ MaxCount \in Nat /\ RingFrames \in Nat \ {0}
    /\ Slack \in Nat
    /\ Faults \subseteq {"corrupt", "lost"}
    /\ 0 \notin Numbers /\ \E m, n \in Numbers : m # n

VARIABLES
    hpc,            \* where the driver is: see HostPoints
    call,           \* the operation it is running or ran last
    ret,            \* how that operation ended
    cleanup,        \* and how its own cleanup ended (stop_result)
    out,            \* ids it reported to the caller
    taken,          \* the operation whose command the last accepted reply answers
    commands,       \* commands on their way to the sensor, oldest first
    working,        \* the command the sensor is working on
    db,             \* the templates the sensor stores
    ring, rxError,  \* frames received and not read, and the overrun flag
    lost            \* 1 once the line has lost a frame since the last RESET (history)

hostVars == <<hpc, call, ret, cleanup, out, taken>>
sensorVars == <<working, db>>
rxVars == <<ring, rxError, lost>>
vars == <<hostVars, commands, sensorVars, rxVars>>

HostPoints == {"idle", "reset", "command", "finished", "cleanup"}

AsyncKinds == {"identify", "identify_continuous", "enroll"}
VerifyKinds == {"identify", "identify_continuous", "match"}
Kinds == AsyncKinds \cup {"match", "delete", "list"}

(* delete_all is a delete of every id. *)
Calls == {c \in [kind : Kinds, ids : SUBSET Ids, n : Numbers] :
            IF c.kind = "delete" THEN Cardinality(c.ids) = 1 \/ c.ids = Ids ELSE c.ids = {}}

Command(kind) ==
    CASE kind \in VerifyKinds -> "VERIFY"
      [] kind = "enroll" -> "ENROLL"
      [] kind = "delete" -> "DELETE"
      [] kind = "list" -> "LIST"

NoCall == [kind |-> "none", ids |-> {}, n |-> 0]
Nothing == [of |-> NoCall, left |-> {}]
Frame(cmd, status, ids, n) == [cmd |-> cmd, status |-> status, ids |-> ids, n |-> n]
BadFrame == Frame("BAD", "OK", {}, 0)

Init == /\ hpc = "idle"
        /\ call = NoCall
        /\ ret = "OK"
        /\ cleanup = "OK"
        /\ out = {}
        /\ taken = 0
        /\ commands = <<>>
        /\ working = Nothing
        /\ db \in SUBSET Ids
        /\ ring = <<>>
        /\ rxError = 0
        /\ lost = 0
-----------------------------------------------------------------------------
(***************************************************************************)
(* The sensor and the line.                                                *)
(***************************************************************************)

(* Mutants: Bug_F is F with one plausible mistake. *)

(* A frame that finds the ring full is an overrun. *)
Receive(f) ==
    IF Len(ring) < RingFrames
    THEN /\ \/ ring' = Append(ring, f) /\ UNCHANGED lost
            \/ "corrupt" \in Faults /\ ring' = Append(ring, BadFrame) /\ UNCHANGED lost
            \/ "lost" \in Faults /\ lost' = 1 /\ UNCHANGED ring
         /\ UNCHANGED rxError
    ELSE rxError' = 1 /\ UNCHANGED <<ring, lost>>

SensorTakes ==
    /\ commands # <<>>
    /\ LET c == Head(commands) IN
        IF c.cmd = "RESET"
        THEN /\ working' = Nothing
             /\ Receive(Frame("RESET", "OK", {}, c.of.n))
        ELSE /\ working' = [of |-> c.of, left |-> IF c.cmd = "LIST" THEN db ELSE {}]
             /\ UNCHANGED rxVars
    /\ commands' = Tail(commands)
    /\ UNCHANGED <<hostVars, db>>

SensorVerifies ==
    /\ working.of.kind \in VerifyKinds
    /\ \/ \E id \in db : Receive(Frame("VERIFY", "OK", {id}, working.of.n))
       \/ \E s \in {"UNKNOWN_USER", "REJECTED"} : Receive(Frame("VERIFY", s, {}, working.of.n))
    /\ working' = IF working.of.kind = "identify_continuous" THEN working ELSE Nothing
    /\ UNCHANGED <<hostVars, commands, db>>

SensorEnrolls ==
    /\ working.of.kind = "enroll"
    /\ \/ \E id \in Ids \ db :
            /\ db' = db \cup {id}
            /\ Receive(Frame("ENROLL", "OK", {id}, working.of.n))
       \/ UNCHANGED db /\ Receive(Frame("ENROLL", "REJECTED", {}, working.of.n))
    /\ working' = Nothing
    /\ UNCHANGED <<hostVars, commands>>

SensorDeletes ==
    /\ working.of.kind = "delete"
    /\ db' = db \ working.of.ids
    /\ \E s \in {"OK", "UNKNOWN_USER"} :
        /\ s = "UNKNOWN_USER" => working.of.ids \cap db = {}
        /\ Receive(Frame("DELETE", s, {}, working.of.n))
    /\ working' = Nothing
    /\ UNCHANGED <<hostVars, commands>>

(* A page that is not full is the last one. *)
SensorListsPage ==
    /\ working.of.kind = "list"
    /\ \E page \in SUBSET working.left :
        /\ IF Cardinality(working.left) < PageSize
           THEN page = working.left /\ working' = Nothing
           ELSE /\ Cardinality(page) = PageSize
                /\ working' = [working EXCEPT !.left = @ \ page]
        /\ Receive(Frame("LIST", "OK", page, working.of.n))
    /\ UNCHANGED <<hostVars, commands, db>>

Sensor == SensorTakes \/ SensorVerifies \/ SensorEnrolls \/ SensorDeletes \/ SensorListsPage
-----------------------------------------------------------------------------
(***************************************************************************)
(* The driver.                                                             *)
(***************************************************************************)

Unanswered == Cardinality({i \in DOMAIN commands : commands[i].cmd = "RESET"})

(* ai10_send() *)
Send(cmd, c) == commands' = Append(commands, [cmd |-> cmd, of |-> c])

(* RESET is sent over what an earlier operation left in the ring. *)
Bug_SendReset(c) ==
    /\ Unanswered <= Slack
    /\ Send("RESET", c)
    /\ UNCHANGED rxVars

(* ai10_reset() up to its wait: discard what was received, send RESET. *)
SendReset(c) ==
    /\ Unanswered <= Slack
    /\ ring' = <<>>
    /\ rxError' = 0
    /\ lost' = 0
    /\ Send("RESET", c)

(* The operations that still have a command in the sensor. *)
InUse == {commands[i].of.n : i \in DOMAIN commands} \cup {working.of.n}

Start ==
    /\ hpc = "idle"
    /\ \E c \in Calls :
        /\ c.n = CHOOSE n \in Numbers : n \notin InUse
        /\ call' = c
        /\ SendReset(c)
    /\ hpc' = "reset"
    /\ ret' = "OK" /\ cleanup' = "OK" /\ out' = {} /\ taken' = 0
    /\ UNCHANGED sensorVars

(* No operation cleans up. *)
Bug_Finish(r) == ret' = r /\ hpc' = "idle"

(* The worker and biometric_match() clean up; database calls do not, nor does *)
(* a match whose first RESET failed.                                          *)
Finish(r) ==
    /\ ret' = r
    /\ hpc' = IF call.kind \in AsyncKinds \/ (call.kind = "match" /\ hpc = "command")
              THEN "finished" ELSE "idle"

(* The overrun is not looked at. *)
Bug_Reads(f) == /\ ring # <<>> /\ f = Head(ring) /\ ring' = Tail(ring)
                /\ UNCHANGED <<rxError, lost>>

(* The reply at the head of the ring is read; after an overrun nothing is. *)
Reads(f) == /\ rxError = 0
            /\ ring # <<>> /\ f = Head(ring) /\ ring' = Tail(ring)
            /\ UNCHANGED <<rxError, lost>>

Awaited == IF hpc = "command" THEN Command(call.kind) ELSE "RESET"
Waiting == hpc \in {"reset", "command", "cleanup"}

(* ai10_reply() passes over replies to other commands. *)
SkipReply ==
    /\ Waiting
    /\ ring # <<>> /\ Head(ring).cmd \notin {Awaited, "BAD"}
    /\ Reads(Head(ring))
    /\ UNCHANGED <<hostVars, commands, sensorVars>>

Cancellable == call.kind \in AsyncKinds /\ hpc = "command"

(* A wait that ends without its reply: a bad frame, an overrun, the deadline, *)
(* or a cancellation.                                                         *)
Failures == {"EBADMSG", "ENOBUFS", "ETIMEDOUT", "ECANCELED"}

WaitFails ==
    /\ Waiting
    /\ \E r \in Failures :
        /\ \/ r = "EBADMSG" /\ Reads(BadFrame)
           \/ r = "ENOBUFS" /\ rxError = 1 /\ UNCHANGED rxVars
           \/ r = "ETIMEDOUT" /\ UNCHANGED rxVars
           \/ r = "ECANCELED" /\ Cancellable /\ UNCHANGED rxVars
        /\ IF hpc = "cleanup"
           THEN ret' = r /\ cleanup' = r /\ hpc' = "idle"
           ELSE Finish(r) /\ UNCHANGED cleanup
    /\ UNCHANGED <<call, out, taken, commands, sensorVars>>

(* An asynchronous request that was cancelled meanwhile sends no command. *)
ResetAcknowledged ==
    /\ hpc = "reset"
    /\ ring # <<>> /\ Head(ring).cmd = "RESET" /\ Reads(Head(ring))
    /\ \/ /\ Send(Command(call.kind), call)
          /\ hpc' = "command"
          /\ UNCHANGED ret
       \/ call.kind \in AsyncKinds /\ Finish("ECANCELED") /\ UNCHANGED commands
    /\ UNCHANGED <<call, cleanup, out, taken, sensorVars>>

(* A page that is not full is the last one. *)
LastPage(f) == Cardinality(f.ids) < PageSize

Answers(f) == f.cmd = Command(call.kind)

(* Continuous recognition goes on, and so does a listing after a full page. *)
AcceptReply ==
    /\ hpc = "command"
    /\ ring # <<>>
    /\ LET f == Head(ring) IN
        /\ Answers(f)
        /\ Reads(f)
        /\ taken' = f.n
        /\ out' = IF call.kind = "list" THEN out \cup f.ids ELSE f.ids
        /\ IF f.status = "REJECTED" THEN Finish("EBUSY")
           ELSE IF f.status = "UNKNOWN_USER" /\ call.kind \notin {"identify", "identify_continuous"}
             THEN Finish("ENOENT")
           ELSE IF \/ call.kind = "identify_continuous"
                   \/ call.kind = "list" /\ ~LastPage(f)
             THEN UNCHANGED <<hpc, ret>>
           ELSE IF call.kind = "list" /\ Cardinality(out') > MaxCount THEN Finish("ENOMEM")
           ELSE Finish("OK")
    /\ UNCHANGED <<call, cleanup, commands, sensorVars>>

SendCleanup ==
    /\ hpc = "finished"
    /\ SendReset(call)
    /\ hpc' = "cleanup"
    /\ UNCHANGED <<call, ret, cleanup, out, taken, sensorVars>>

CleanupAcknowledged ==
    /\ hpc = "cleanup"
    /\ ring # <<>> /\ Head(ring).cmd = "RESET" /\ Reads(Head(ring))
    /\ hpc' = "idle"
    /\ UNCHANGED <<call, ret, cleanup, out, taken, commands, sensorVars>>

Driver == Start \/ SkipReply \/ WaitFails \/ ResetAcknowledged \/ AcceptReply
          \/ SendCleanup \/ CleanupAcknowledged

Next == Sensor \/ Driver

Spec == Init /\ [][Next]_vars
-----------------------------------------------------------------------------
(***************************************************************************)
(* Properties.                                                             *)
(***************************************************************************)

(* An operation accepts the answer to its own command, never one that an earlier *)
(* operation of the same kind left behind when it timed out or was cancelled:    *)
(* "RESET acknowledgment is the protocol boundary between successive operations" *)
(* (biometrics_ai10.c:339).                                                      *)
ReplyIsFresh == taken \in {0, call.n}

(* What a call answers is true of the sensor: the ids it reports are of templates *)
(* that are stored, and after a delete that returned 0 they are not.              *)
AnswersAreTrue ==
    /\ out \subseteq db
    /\ hpc = "idle" /\ call.kind = "delete" /\ ret = "OK" => call.ids \cap db = {}

(* A listing that returned 0 reported every template: an overrun or a page with a *)
(* wrong checksum fails it.  A page whose header the line destroys is not missed  *)
(* (a page does not say how many there are), so this holds only while none is.    *)
ListIsComplete ==
    hpc = "idle" /\ call.kind = "list" /\ ret = "OK" /\ lost = 0 => out = db

(* After an operation whose last exchange succeeded, a stopped one in particular, *)
(* the sensor has nothing left to do: no late reply follows, and no enrollment    *)
(* completes behind the back of the driver.                                       *)
QuietWhenDone ==
    hpc = "idle" /\ (ret = "OK" \/ (call.kind \in AsyncKinds /\ cleanup = "OK"))
        => commands = <<>> /\ working = Nothing
-----------------------------------------------------------------------------
(***************************************************************************)
(* The inductive invariant behind the four properties, for Slack = 0.      *)
(***************************************************************************)

Commands == [cmd : {"RESET", "VERIFY", "ENROLL", "DELETE", "LIST"}, of : Calls]
Frames == [cmd : {"RESET", "VERIFY", "ENROLL", "DELETE", "LIST", "BAD"},
           status : {"OK", "UNKNOWN_USER", "REJECTED"}, ids : SUBSET Ids, n : Numbers \cup {0}]

TypeOK ==
    /\ hpc \in HostPoints
    /\ call \in Calls \/ (call = NoCall /\ hpc = "idle")
    /\ ret \in Failures \cup {"OK", "EBUSY", "ENOENT", "ENOMEM"}
    /\ cleanup \in Failures \cup {"OK"}
    /\ out \in SUBSET Ids /\ db \in SUBSET Ids
    /\ taken \in Numbers \cup {0}
    /\ commands \in Seq(Commands)
    /\ working = Nothing \/ working \in [of : Calls, left : SUBSET Ids]
    /\ ring \in Seq(Frames)
    /\ rxError \in {0, 1} /\ lost \in {0, 1}

Resetting == \E i \in DOMAIN commands : commands[i].cmd = "RESET"
Quiet == commands = <<>> /\ working = Nothing

(* At most one command and one RESET after it are under way, and the sensor does *)
(* nothing while the command is.                                                   *)
OneCommand ==
    \A i \in DOMAIN commands :
        \/ commands[i].cmd = "RESET" /\ i = Len(commands)
        \/ /\ i = 1 /\ working = Nothing
           /\ commands[i].cmd = Command(commands[i].of.kind)

(* RESET is a boundary: its reply comes after every frame of what was before it, with *)
(* nothing left to follow.                                                             *)
Boundary ==
    \A j \in DOMAIN ring : ring[j].cmd = "RESET" => ~Resetting /\ j = Len(ring) /\ Quiet

(* From the RESET reply to the next operation only the call's own command is under way. *)
Own == hpc = "command" \/ taken # 0
OwnWork ==
    /\ taken \in {0, call.n}
    /\ Own => /\ call \in Calls
              /\ \A i \in DOMAIN commands : commands[i].of = call
              /\ working = Nothing \/ working.of = call

(* A frame after which the sensor is done with the command. *)
FinalFrame(f) == \/ call.kind \in {"identify", "match", "enroll", "delete"}
                 \/ call.kind = "list" /\ f.cmd = "LIST" /\ LastPage(f)

OwnFrames ==
    hpc = "command" =>
        /\ ~Resetting
        /\ commands # <<>> => ring = <<>> /\ out = {}
        /\ \A j \in DOMAIN ring :
               /\ ring[j].cmd \in {"BAD", Command(call.kind)}
               /\ FinalFrame(ring[j]) => j = Len(ring) /\ Quiet
               /\ ring[j].cmd # "BAD" => /\ ring[j].n = call.n /\ ring[j].ids \subseteq db
                                         /\ call.kind = "delete" =>
                                                ring[j].ids = {} /\ call.ids \cap db = {}

(* Every template is on a page that was taken, is in the ring, or is still to come. *)
PagesAccounted ==
    hpc = "command" /\ call.kind = "list" /\ commands = <<>> /\ lost = 0 /\ rxError = 0
        => \/ \E j \in DOMAIN ring : ring[j].cmd = "BAD"
           \/ \A x \in db : \/ x \in out \/ x \in working.left
                            \/ \E j \in DOMAIN ring : x \in ring[j].ids

(* What a listing has still to report is stored: nothing else changes the database *)
(* while the sensor works on it.                                                   *)
LeftStored ==
    /\ working.left \subseteq db
    /\ working.of.kind # "list" => working.left = {}

(* How an operation ends. *)
EndsKnown ==
    /\ taken = 0 => out = {}
    /\ call.kind = "delete" => out = {}
    /\ hpc = "reset" => taken = 0
    /\ hpc \in {"idle", "finished", "cleanup"} /\ ret = "OK" => call = NoCall \/ taken # 0
    /\ hpc \in {"finished", "cleanup"} => call.kind \in AsyncKinds \cup {"match"}

IInv == /\ TypeOK /\ OneCommand /\ Boundary /\ OwnWork /\ OwnFrames /\ PagesAccounted
        /\ LeftStored /\ EndsKnown
        /\ AnswersAreTrue /\ ListIsComplete /\ QuietWhenDone
=============================================================================
