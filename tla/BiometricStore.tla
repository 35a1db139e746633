--------------------------- MODULE BiometricStore ---------------------------
(***************************************************************************)
(* What the blocking API of <zephyr/drivers/biometrics.h> promises about   *)
(* the template library: a template enters it by the enrollment that is    *)
(* open for its id, or by a template_store in progress for its id; it      *)
(* leaves it by a delete in progress; one enrollment is open at a time.    *)
(* When during a call its effect takes place, and what the call returns,   *)
(* is not said: an answer may be lost after the effect.                    *)
(***************************************************************************)
CONSTANT Ids          \* template ids, 1 to max_templates

VARIABLES db,          \* the ids in the library
          open,        \* an enrollment was started and neither finalized nor aborted
          template_id, \* the id it was started for
          calls        \* the storing and deleting calls in progress; the callers' choice

vars == <<db, open, template_id>>

HostCalls == [kind : {"template_store", "template_delete"}, id : Ids]
             \cup [kind : {"template_delete_all"}, id : {0}]

HostCall(k, id) == [kind |-> k, id |-> id]

(* A device may hold any templates when the program starts. *)
Init == /\ db \in SUBSET Ids
        /\ open = FALSE
        /\ template_id \in Ids \cup {0}

EnrollStart(id) ==
    /\ ~open
    /\ open' = TRUE
    /\ template_id' = id
    /\ UNCHANGED db

(* The last sample is in: some sensors store the template at once. *)
EnrollCapture ==
    /\ open
    /\ db' = db \cup {template_id}
    /\ UNCHANGED <<open, template_id>>

EnrollFinalize ==
    /\ open
    /\ db' = db \cup {template_id}
    /\ open' = FALSE
    /\ UNCHANGED template_id

(* By the caller, or because a capture failed; a template already stored stays. *)
EnrollAbort ==
    /\ open
    /\ open' = FALSE
    /\ UNCHANGED <<db, template_id>>

TemplateStore(id) ==
    /\ db' = db \cup {id}
    /\ UNCHANGED <<open, template_id>>

TemplateDelete(id) ==
    /\ db' = db \ {id}
    /\ UNCHANGED <<open, template_id>>

TemplateDeleteAll ==
    /\ db' = {}
    /\ UNCHANGED <<open, template_id>>

Next == \/ \E id \in Ids : \/ EnrollStart(id)
                           \/ HostCall("template_store", id) \in calls /\ TemplateStore(id)
                           \/ HostCall("template_delete", id) \in calls /\ TemplateDelete(id)
        \/ EnrollCapture \/ EnrollFinalize \/ EnrollAbort
        \/ HostCall("template_delete_all", 0) \in calls /\ TemplateDeleteAll

Spec == Init /\ [][Next]_vars
=============================================================================
