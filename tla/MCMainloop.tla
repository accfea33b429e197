----------------------------- MODULE MCMainloop -----------------------------
(***************************************************************************)
(* The instance of Mainloop for TLC.                                       *)
(***************************************************************************)
EXTENDS Mainloop

\* No faults; bits left in fds; all that end the process; all that lose
\* connections or descriptors.
SomeFaults == {{}, {"other"}, {"stray", "other", "select", "signal"},
               {"withdraw", "other", "thread", "send"}}
=============================================================================
