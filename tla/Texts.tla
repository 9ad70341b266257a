-------------------------------- MODULE Texts --------------------------------
(***************************************************************************)
(* The texts that the lexers, parsers and readers are given: a sequence of   *)
(* characters that starts in one of a few ways and grows.                    *)
(***************************************************************************)
EXTENDS Integers, Sequences, SequencesExt

CONSTANT Kinds   \* records: what the text is for, how it starts, the characters
                 \* it goes on with, and its greatest length (a bound)

VARIABLES kind, text

TextInit == kind \in Kinds /\ text = kind.start

Write == /\ Len(text) < kind.max
         /\ \E c \in kind.chars : text' = Append(text, c)
         /\ UNCHANGED kind

For(use) == kind.use = use

\* The character at i, none at the end, and the first place from i that does not
\* hold a character of C.
At(s, i) == IF i \in DOMAIN s THEN s[i] ELSE ""
Past(s, i, C) == CHOOSE j \in i .. Len(s) + 1 :
                   At(s, j) \notin C /\ \A k \in i .. j - 1 : s[k] \in C
===============================================================================
