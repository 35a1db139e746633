--------------------------- MODULE BiometricsShell --------------------------
(***************************************************************************)
(* The shell commands of the subsystem (biometrics_shell.c) on an emulated *)
(* sensor.  Several shells, and applications, use one device: each caller  *)
(* is a thread that gives commands or calls the API itself.  A command is  *)
(* one call of the API but for "enroll", a whole enrollment, between whose *)
(* calls the others go on.                                                 *)
(*                                                                         *)
(* Commands that only read are left out, as are commands and calls that    *)
(* are refused without an effect.                                          *)
(***************************************************************************)
EXTENDS Emul

CONSTANTS UINT16_MAX,  \* the largest template id
          Arguments,   \* numbers given to commands
          NoOne        \* not a caller

ASSUME ShellAssumption ==
    /\ UINT16_MAX \in Nat \ {0}
    /\ Ids = 1 .. UINT16_MAX
    /\ Arguments \subseteq Int
    /\ NoOne \notin Callers

VARIABLES
    command,    \* of each caller: its step in the enroll command, or "none"
    asked,      \* the id it was given
    captured,   \* its loop counter
    \* history
    opener,     \* whose enroll command has opened the enrollment that is open
    disturbed   \* of each caller: somebody else ended an enrollment during its command

enrollCommandVars == <<command, asked, captured>>
shellVars == <<enrollCommandVars, opener, disturbed>>

ShellInit ==
    /\ Init
    /\ command = [t \in Callers |-> "none"]
    /\ asked = [t \in Callers |-> 0]
    /\ captured = [t \in Callers |-> 0]
    /\ opener = NoOne
    /\ disturbed = [t \in Callers |-> FALSE]

(* Arguments are parsed as long; an id has to be in range before its conversion. *)
InRange(number) == 1 <= number /\ number <= UINT16_MAX
uint16(number) == number % (UINT16_MAX + 1)

Inside(t) == command[t] \in {"capture", "finalize", "abort"}

(* The open enrollment is over, by the hand of t, whose own command is over too. *)
EndedBy(t) ==
    /\ opener' = NoOne
    /\ disturbed' = [u \in Callers |-> u # t /\ (disturbed[u] \/ Inside(u))]

NotDisturbed(t) == disturbed' = [disturbed EXCEPT ![t] = FALSE]

Idle(t) == command[t] = "none"
-----------------------------------------------------------------------------
(***************************************************************************)
(* Commands of one call.                                                   *)
(***************************************************************************)

EnrollStartCommand(t) ==
    /\ Idle(t)
    /\ \E a \in Arguments : InRange(a) /\ EnrollStart(t, uint16(a))
    /\ opener' = NoOne
    /\ UNCHANGED <<enrollCommandVars, disturbed>>

EnrollCaptureCommand(t) ==
    /\ Idle(t)
    /\ EnrollCapture(t) \/ EnrollCaptureDone(t)
    /\ UNCHANGED shellVars

EnrollFinalizeCommand(t) ==
    /\ Idle(t)
    /\ EnrollFinalize(t)
    /\ EndedBy(t)
    /\ UNCHANGED enrollCommandVars

EnrollAbortCommand(t) ==
    /\ Idle(t)
    /\ EnrollAbort(t)
    /\ EndedBy(t)
    /\ UNCHANGED enrollCommandVars

TemplateDeleteCommand(t) ==
    /\ Idle(t)
    /\ \E a \in Arguments : InRange(a) /\ TemplateDelete(t, uint16(a))
    /\ UNCHANGED shellVars

TemplateDeleteAllCommand(t) ==
    /\ Idle(t)
    /\ TemplateDeleteAll(t)
    /\ UNCHANGED shellVars

(* Identification is a match without an id; the id to verify is converted unchecked, *)
(* and the conversion to 0 is the id of no template.                                 *)
MatchCommand(t) ==
    /\ Idle(t)
    /\ \/ Match(t, 0)
       \/ \E a \in Arguments : uint16(a) # 0 /\ Match(t, uint16(a))
       \/ MatchDone(t)
    /\ UNCHANGED shellVars

AttrSetCommand(t) ==
    /\ Idle(t)
    /\ \E s \in Settings, attr \in Attributes : AttrSet(t, attr, s[attr])
    /\ settings' \in Settings
    /\ UNCHANGED shellVars

LedCommand(t) ==
    /\ Idle(t)
    /\ \E s \in Settings : LedControl(t, s.led_state)
    /\ settings' \in Settings
    /\ UNCHANGED shellVars

(* An application restores a template, a test sets a control: no command does. *)
ApplicationCall(t) ==
    /\ Idle(t)
    /\ \/ \E id \in Ids : TemplateStore(t, id)
       \/ \E s \in Settings, control \in Controls : SetControl(t, control, s[control])
    /\ settings' \in Settings
    /\ UNCHANGED shellVars

(***************************************************************************)
(* The enroll command.                                                     *)
(***************************************************************************)

Enroll(t) ==
    /\ Idle(t) /\ pc[t] = "ready"
    /\ \E a \in Arguments : InRange(a) /\ asked' = [asked EXCEPT ![t] = uint16(a)]
    /\ command' = [command EXCEPT ![t] = "start"]
    /\ UNCHANGED <<vars, captured, opener, disturbed>>

(* Its local variables are gone. *)
Returns(t) ==
    /\ command' = [command EXCEPT ![t] = "none"]
    /\ asked' = [asked EXCEPT ![t] = 0]
    /\ captured' = [captured EXCEPT ![t] = 0]

Continues(t, step) ==
    /\ command' = [command EXCEPT ![t] = step]
    /\ UNCHANGED asked

CannotStart(t) == enrolling \/ SlotsOf(asked[t]) # {} \/ Full

(* The answer of enroll_start is not looked at. *)
Bug_EnrollStarts(t) ==
    /\ command[t] = "start"
    /\ \/ EnrollStart(t, asked[t]) /\ opener' = t
       \/ CannotStart(t) /\ UNCHANGED <<vars, opener>>
    /\ Continues(t, "capture")
    /\ UNCHANGED <<captured, disturbed>>

EnrollStarts(t) ==
    /\ command[t] = "start"
    /\ \/ EnrollStart(t, asked[t]) /\ opener' = t /\ Continues(t, "capture")
          /\ UNCHANGED captured
       \/ CannotStart(t) /\ Returns(t) /\ UNCHANGED <<vars, opener>>
    /\ UNCHANGED disturbed

(* A capture that fails ends the command. *)
Bug_CaptureFails(t) ==
    /\ command[t] = "capture" /\ pc[t] = "ready"
    /\ ~enrolling \/ samples >= Samples \/ settings.force_capture_timeout
    /\ Returns(t) /\ NotDisturbed(t)
    /\ UNCHANGED <<vars, opener>>

(* Nothing is open any more, its samples are complete, or nobody comes. *)
CaptureFails(t) ==
    /\ command[t] = "capture" /\ pc[t] = "ready"
    /\ ~enrolling \/ samples >= Samples \/ settings.force_capture_timeout
    /\ Continues(t, "abort")
    /\ UNCHANGED <<vars, captured, opener, disturbed>>

Captures(t) ==
    /\ command[t] = "capture"
    /\ \/ EnrollCapture(t)
          /\ UNCHANGED enrollCommandVars
       \/ EnrollCaptureDone(t)
          /\ captured' = [captured EXCEPT ![t] = @ + 1]
          /\ Continues(t, IF captured'[t] = Samples THEN "finalize" ELSE "capture")
    /\ UNCHANGED <<opener, disturbed>>

(* Whatever the abort says; it may end the enrollment of somebody else. *)
Aborts(t) ==
    /\ command[t] = "abort"
    /\ Returns(t)
    /\ \/ EnrollAbort(t) /\ EndedBy(t)
       \/ ~enrolling /\ NotDisturbed(t) /\ UNCHANGED <<vars, opener>>

(* A finalize that fails is not aborted: what is open stays open. *)
Finalizes(t) ==
    /\ command[t] = "finalize"
    /\ \/ EnrollFinalize(t) /\ EndedBy(t) /\ Continues(t, "complete") /\ UNCHANGED captured
       \/ /\ ~enrolling \/ samples < Samples \/ Valid = Slots
          /\ Returns(t) /\ NotDisturbed(t)
          /\ UNCHANGED <<vars, opener>>

(* "Enrollment complete" *)
Completes(t) ==
    /\ command[t] = "complete"
    /\ Returns(t)
    /\ UNCHANGED <<vars, opener, disturbed>>

EnrollStep(t) ==
    \/ EnrollStarts(t) \/ Captures(t) \/ CaptureFails(t) \/ Aborts(t) \/ Finalizes(t)
    \/ Completes(t)

ShellStep(t) ==
    \/ EnrollStartCommand(t) \/ EnrollCaptureCommand(t) \/ EnrollFinalizeCommand(t)
    \/ EnrollAbortCommand(t) \/ TemplateDeleteCommand(t) \/ TemplateDeleteAllCommand(t)
    \/ MatchCommand(t) \/ AttrSetCommand(t) \/ LedCommand(t) \/ ApplicationCall(t)
    \/ Enroll(t) \/ EnrollStep(t)

ShellNext == \E t \in Callers : ShellStep(t)

ShellSpec == ShellInit /\ [][ShellNext]_<<vars, shellVars>>
-----------------------------------------------------------------------------
(***************************************************************************)
(* Properties.                                                             *)
(***************************************************************************)

(* "Enrollment complete" for an id is the truth (biometrics_shell.c:623, "Enrolling ID *)
(* %ld" at :597): unless somebody else ended an enrollment during the command, the     *)
(* template it has stored is the one it was asked for, whatever else shells did.       *)
CompleteIsStored ==
    [][\A t \in Callers :
        command[t] = "finalize" /\ command'[t] = "complete" /\ ~disturbed[t]
        => asked[t] \in Stored' /\ enroll_id = asked[t]]_<<vars, shellVars>>

(* An enroll command that returns with its own enrollment still open, so that the next  *)
(* one cannot start, leaves it with all its samples taken and no slot to store it in:    *)
(* only finalize, which nothing aborts (biometrics_shell.c:617), leaves it, and never    *)
(* for want of samples, though others capture, abort and enroll between the captures.    *)
LeftOpenWhenFull ==
    [][\A t \in Callers :
        Inside(t) /\ ~Inside(t)' /\ opener = t /\ opener' = t
        => samples >= Samples /\ Valid = Slots]_<<vars, shellVars>>
-----------------------------------------------------------------------------
(***************************************************************************)
(* The inductive invariant behind both, beside that of the emulator.       *)
(***************************************************************************)

Steps == {"none", "start", "capture", "finalize", "abort", "complete"}

ShellTypeOK ==
    /\ command \in [Callers -> Steps]
    /\ asked \in [Callers -> Ids \cup {0}]
    /\ captured \in [Callers -> Nat]
    /\ opener \in Callers \cup {NoOne}
    /\ disturbed \in [Callers -> BOOLEAN]

(* An enroll command runs for the id it was asked for. *)
AskedFor == \A t \in Callers : command[t] # "none" => asked[t] \in Ids

(* While nobody else ends an enrollment, the one a command has opened stays open, for *)
(* the id the command was asked for.                                                  *)
KeepsOpen == \A t \in Callers : Inside(t) /\ ~disturbed[t] => enrolling /\ enroll_id = asked[t]

(* The loop counter, which is what a command goes by. *)
Counts ==
    \A t \in Callers :
        /\ command[t] \in {"none", "start"} => captured[t] = 0
        /\ command[t] = "finalize" => captured[t] = Samples

(* The enrollment an enroll command has opened has a sample for each of its captures, *)
(* and is open until somebody ends it.                                                *)
HasOwnSamples ==
    /\ opener # NoOne => enrolling
    /\ \A t \in Callers : opener = t /\ Inside(t) => samples >= captured[t]

ShellIInv == ShellTypeOK /\ AskedFor /\ KeepsOpen /\ Counts /\ HasOwnSamples
=============================================================================
