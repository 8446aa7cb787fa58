----------------------------- MODULE MCAuditLog -----------------------------
(***************************************************************************)
(* Two callers and a queue of one: it is full at most calls.  The list is    *)
(* flushed at two entries, so a last one waits for the tick.                 *)
(***************************************************************************)
EXTENDS AuditLog
=============================================================================
