------------------------------ MODULE MCSession ------------------------------
(* Instances of Session for TLC. *)
EXTENDS Session

\* Whatever the user may type.
AllNames    == {"photo", "unknown", ""}
AllSettings == Settings \cup {"other"}
AllValues   == {"valid", "invalid", "contrast", ""}
AllAngles   == {"valid", "invalid", ""}

\* Only texts that the handler can answer.
MCNames  == {"photo", "unknown"}
MCValues == {"valid", "invalid"}
=============================================================================
