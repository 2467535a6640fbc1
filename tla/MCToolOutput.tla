---------------------------- MODULE MCToolOutput ----------------------------
(***************************************************************************)
(* The instance of OutputView, and of the command it watches, for TLC.     *)
(***************************************************************************)
EXTENDS OutputView

\* Commands with a limit on their output, and with one on what clients are
\* sent; neither is reached by a command that writes less.
MCConfigs ==
  {[limit |-> 2, client |-> 0, chunk |-> 1],
   [limit |-> 0, client |-> 1, chunk |-> 2]}
=============================================================================
