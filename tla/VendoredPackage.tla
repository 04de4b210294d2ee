--------------------------- MODULE VendoredPackage ---------------------------
(***************************************************************************)
(* What a porter promises about one vendored package, whatever commands it *)
(* is made of.  The package is fresh (as downloaded), ported (as an        *)
(* undisturbed run leaves it) or torn (neither).  PackagePort implements   *)
(* this module; Session relies on it.                                      *)
(***************************************************************************)
VARIABLES
  repairs,  \* whether a run finishes what an interrupted one began; constant
  status,   \* "fresh", "torn" or "ported"
  phase,    \* "idle" or "running"
  sound,    \* no run has been disturbed since the download
  hitch     \* a command of the current run has failed

vars == <<repairs, status, phase, sound, hitch>>

\* What a run may leave behind that reaches its end.
Ends(r, s, isSound, hadHitch) == (isSound \/ (r /\ ~hadHitch)) => s = "ported"

\* What a command that fails may leave behind.  A file cut short may look like
\* the one that was downloaded.
Disturbed == {"fresh", "torn", "ported"}

Init ==
  /\ repairs \in BOOLEAN
  /\ status \in {"fresh", "ported"}
  /\ phase = "idle" /\ sound = TRUE /\ hitch = FALSE

Fetch ==
  /\ phase = "idle"
  /\ status' \in {"fresh", "ported"}
  /\ sound' = TRUE
  /\ UNCHANGED <<phase, hitch>>

Begin ==
  /\ phase = "idle" /\ phase' = "running"
  /\ hitch' = FALSE
  /\ UNCHANGED <<status, sound>>

Work ==
  /\ phase = "running"
  /\ status' \in {"torn", "ported"}
  /\ UNCHANGED <<phase, sound, hitch>>

Stumble ==
  /\ phase = "running"
  /\ sound' = FALSE /\ hitch' = TRUE
  /\ status' \in Disturbed
  /\ UNCHANGED phase

End ==
  /\ phase = "running" /\ phase' = "idle"
  /\ Ends(repairs, status, sound, hitch)
  /\ UNCHANGED <<status, sound, hitch>>

Break ==
  /\ phase = "running" /\ phase' = "idle"
  /\ sound' = FALSE /\ hitch' \in BOOLEAN
  /\ status' \in Disturbed

Next ==
  /\ Fetch \/ Begin \/ Work \/ Stumble \/ End \/ Break
  /\ UNCHANGED repairs

Spec == Init /\ [][Next]_vars
=============================================================================
