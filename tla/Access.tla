------------------------------- MODULE Access -------------------------------
(***************************************************************************)
(* One register access as its caller sees it.  Ep0 models the layer that   *)
(* carries it out; the modules above it only need to know how it ended.    *)
(* "ok": done.  "lost": an error, and the chip never saw it.  "late": an   *)
(* error (a timeout, as a rule), though the chip has carried it out.       *)
(***************************************************************************)

Outcomes == {"ok", "lost", "late"}

(* The chip has seen the access.                                           *)
Landed(out) == out # "lost"
=============================================================================
