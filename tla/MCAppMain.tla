----------------------------- MODULE MCAppMain -----------------------------
(***************************************************************************)
(* Instances of AppMain for TLC.                                           *)
(***************************************************************************)
EXTENDS AppMain

\* app_main.c as it is.
BothLog == {Tasks}

\* One of the two tasks has its logging taken out.
OneLogger == {{t} : t \in Tasks}
=============================================================================
