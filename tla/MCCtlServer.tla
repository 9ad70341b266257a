---------------------------- MODULE MCCtlServer ----------------------------
(* CtlServer with the application and one component, the log server. *)
EXTENDS CtlServer, TLC

\* the array commands[] of ctlserver.c and one command of logging.c
MCCommands == Main :> <<"help">> @@ "log" :> <<"log_dump">>
MCAppOnly == Main :> <<"help">>
Sym == Permutations(Conns)
=============================================================================
