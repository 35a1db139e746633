----------------------------- MODULE AI10Status -----------------------------
(***************************************************************************)
(* Reply status of the AI10 sensor and the errno each one becomes.  Errno  *)
(* values are strings without the minus sign; "OK" is the return value 0.  *)
(***************************************************************************)

(* AI10_STATUS_*; "OTHER" stands for every code ai10_status() has no case for. *)
Statuses ==
    {"OK", "REJECTED", "ABORTED", "INVALID_PARAM", "NO_MEMORY", "UNKNOWN_USER",
     "STORAGE_FULL", "ALREADY_ENROLLED", "LIVENESS_FAILED", "TIMEOUT",
     "AUTHORIZATION_FAILED", "OTHER"}

ai10_status ==
    [s \in Statuses |->
        CASE s = "OK"               -> "OK"
          [] s = "REJECTED"         -> "EBUSY"
          [] s = "ABORTED"          -> "ECANCELED"
          [] s = "INVALID_PARAM"    -> "EINVAL"
          [] s = "NO_MEMORY"        -> "ENOMEM"
          [] s = "UNKNOWN_USER"     -> "ENOENT"
          [] s = "STORAGE_FULL"     -> "ENOSPC"
          [] s = "ALREADY_ENROLLED" -> "EEXIST"
          [] s \in {"LIVENESS_FAILED", "AUTHORIZATION_FAILED"} -> "EACCES"
          [] s = "TIMEOUT"          -> "ETIMEDOUT"
          [] OTHER                  -> "EIO"]

(* What ai10_receive() returns for a frame it cannot use: length or checksum. *)
FrameErrors == {"EMSGSIZE", "EBADMSG"}

(* Every value a request of the driver can end with. *)
Errnos ==
    {"OK", "EBUSY", "ECANCELED", "EINVAL", "ENOMEM", "ENOENT", "ENOSPC", "EEXIST",
     "EACCES", "ETIMEDOUT", "EIO", "ENOBUFS", "EALREADY"} \cup FrameErrors

(* Verification statuses that are a result (no match), not a failure. *)
NoMatchStatuses == {"UNKNOWN_USER", "LIVENESS_FAILED", "TIMEOUT"}
=============================================================================
