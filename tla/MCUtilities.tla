----------------------------- MODULE MCUtilities -----------------------------
(* The utilities for texts, logs and memory, one at a time, which kind says. *)
EXTENDS Uris, LineParser, CrlfReader, LogFile, MemLimit

CONSTANTS t1, t2, m1, m2

MCThreads == {t1, t2}
MCObjects == {m1, m2}
NumberChars == {"0", "1", "2", "5", "7", "8", "f", "x", "-", " ", ":"}
UriChars == {"a", "/", "?", "#", ":", "@", "[", "]", "%", " "}
UriStarts == {<<>>, <<"/", "/">>, <<"a", ":">>, <<"/", "/", "a", "@", "a", ":">>, <<"/", "/", "[", ":", ":">>}
Kind(use, start, chars, more) == [use |-> use, start |-> start, chars |-> chars, max |-> Len(start) + more]
MCKinds == {Kind("numbers", <<>>, NumberChars, 4)}
             \cup {Kind("uris", start, UriChars, 4) : start \in UriStarts}
             \cup {Kind("lines", <<>>, {"a", " ", "\n", "\\", "#"}, 6)}
             \cup {Kind("crlf", <<>>, {"a", CR, LF}, 5)}
             \cup {Kind(use, <<>>, {}, 0) : use \in {"log", "memory", "none"}}
MCAddresses == {<<":", ":">>}

textvars == <<kind, text>>
utilityvars == <<textvars, crvars, logvars, memvars>>

UtilitiesInit == /\ TextInit /\ CrInit /\ LogInit /\ MemInit
                 /\ For("crlf") \/ cr.total = Grown(0)

\* Nobody writes to a stream that was closed.
UtilitiesNext ==
  \/ ~closed /\ Write /\ UNCHANGED <<crvars, logvars, memvars>>
  \/ For("crlf") /\ CrNext /\ UNCHANGED <<textvars, logvars, memvars>>
  \/ For("log") /\ LogNext /\ UNCHANGED <<textvars, crvars, memvars>>
  \/ For("memory") /\ MemNext /\ UNCHANGED <<textvars, crvars, logvars>>

-----------------------------------------------------------------------------
===============================================================================
