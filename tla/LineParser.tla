------------------------------ MODULE LineParser ------------------------------
(***************************************************************************)
(* The parser of configuration files by lines, libdank/utils/lineparser.c:   *)
(* a buffer that is filled by reads and holds a window of what was read.      *)
(* The text is the file; a read is short only at its end.  The buffer may fail *)
(* to grow and a read may fail, at any time.                                 *)
(***************************************************************************)
EXTENDS Lexers

CONSTANT BufSizes  \* values of BUFSIZ, by which the buffer grows

\* In the buffer the first base characters are done with and the next count are
\* not; got characters of the file were read.  The first fills calls of Realloc() and
\* read() succeed, and no more.
NewCtx(size, fills) == [buf |-> <<>>, base |-> 0, count |-> 0, total |-> size, size |-> size,
                        got |-> 0, eof |-> FALSE, fills |-> fills]

ForgetsBase(s, c) ==
  LET total == IF c.count = c.total - 1 THEN c.total + c.size ELSE c.total
      want == total - c.count - 1
      have == IF Len(s) - c.got < want THEN Len(s) - c.got ELSE want
  IN [c EXCEPT !.fills = @ - 1, !.buf = SubSeq(@, 1, c.count) \o SubSeq(s, c.got + 1, c.got + have), !.base = 0,
               !.count = @ + have, !.total = total, !.got = @ + have, !.eof = have < want]

\* What is left moves to the front, or the buffer grows; a short read is the last.
\* When the buffer cannot grow or the read fails line_parser_next() returns at once.
Fill(s, c) ==
  LET total == IF c.count = c.total - 1 THEN c.total + c.size ELSE c.total
      want == total - c.count - 1
      have == IF Len(s) - c.got < want THEN Len(s) - c.got ELSE want
  IN [c EXCEPT !.fills = @ - 1, !.buf = SubSeq(@, c.base + 1, c.base + c.count) \o SubSeq(s, c.got + 1, c.got + have),
               !.base = 0, !.count = @ + have, !.total = total, !.got = @ + have,
               !.eof = have < want]

Drop(c, n) == [c EXCEPT !.base = @ + n, !.count = @ - n]
is_comment(c) == At(c.buf, c.base + 1) = "#"

\* Blanks at the start of a line.  A backslash among them ends them: the code that
\* is to join lines here meets the same backslash again and stops.
SkipBlanks(c) == Drop(c, Past(c.buf, c.base + 1, Space) - c.base - 1)

\* The end of the line from examined on: a newline, unless a backslash comes before
\* it, blanks aside, in which case both become blanks.
RECURSIVE EndOfLine(_, _, _)
EndOfLine(buf, base, examined) ==
  LET ends == {k \in base + examined + 1 .. Len(buf) : buf[k] = "\n"}
      end == CHOOSE k \in ends : \A l \in ends : k <= l
      before == {k \in base + 1 .. end - 1 : buf[k] \notin Space}
      last == CHOOSE k \in before : \A l \in before : l <= k
  IN IF ends = {} THEN [buf |-> buf, end |-> 0]
     ELSE IF before # {} /\ buf[last] = "\\"
     THEN EndOfLine([buf EXCEPT ![last] = " ", ![end] = " "], base, end - 1 - base)
     ELSE [buf |-> buf, end |-> end]

\* What is left at the end of the file is a line, or a comment.
Remainder(c) ==
  IF c.count # 0 /\ ~is_comment(c)
  THEN [line |-> SubSeq(c.buf, c.base + 1, c.base + c.count), ctx |-> [c EXCEPT !.count = 0],
        ok |-> TRUE]
  ELSE [line |-> <<>>, ctx |-> c, ok |-> TRUE]

RECURSIVE line_parser_next(_, _, _)

\* The blanks are gone: the line in the window is handed out or, as a comment,
\* dropped; or more has to be read.
TakeLine(s, c, examined) ==
  LET l == EndOfLine(c.buf, c.base, examined)
      f == [c EXCEPT !.buf = l.buf]
      g == Drop(f, l.end - f.base)
  IN IF c.count = 0 THEN line_parser_next(s, c, 0)
     ELSE IF l.end = 0 THEN line_parser_next(s, f, f.count)
     ELSE IF is_comment(f) THEN line_parser_next(s, g, 0)
     ELSE [line |-> SubSeq(f.buf, f.base + 1, l.end - 1), ctx |-> g, ok |-> TRUE]

LookForLine(s, c, examined) == TakeLine(s, IF examined = 0 THEN SkipBlanks(c) ELSE c, examined)

\* The next line, or none at the end or after a failure, which errno tells apart.
line_parser_next(s, c, examined) ==
  LET d == Fill(s, c)
  IN IF c.count # examined THEN LookForLine(s, c, examined)
     ELSE IF c.eof THEN Remainder(c)
     ELSE IF c.fills = 0 THEN [line |-> <<>>, ctx |-> c, ok |-> FALSE]
     ELSE IF d.count = c.count THEN Remainder(d)
     ELSE LookForLine(s, d, examined)

\* The lines the callback is given, and whether that was all of the file.
RECURSIVE parser_byline(_, _)
Collected(s, n) ==
  IF n.line = <<>> THEN [lines |-> <<>>, ok |-> n.ok]
  ELSE [parser_byline(s, n.ctx) EXCEPT !.lines = <<n.line>> \o @]
parser_byline(s, c) == Collected(s, line_parser_next(s, c, 0))

-------------------------------------------------------------------------------
(* Properties. *)

\* However the text is read, it has the lines of whole.
SameInPieces(whole) ==
  \A size \in BufSizes :
    /\ parser_byline(text, NewCtx(size, 2 * Len(text) + 3)) = whole
    /\ \A fills \in 0..4 :
         LET r == parser_byline(text, NewCtx(size, fills))
         IN IsPrefix(r.lines, whole.lines) /\ (r.ok => r.lines = whole.lines)

\* A line has no newline and is no comment, and starts with a blank only if a
\* backslash joins lines.
LineTame(line) ==
  /\ line[1] # "#" /\ (line[1] \in Space => \E n \in DOMAIN text : text[n] = "\\")
  /\ \A n \in DOMAIN line : line[n] # "\n"

LinesTame(whole) == whole.ok /\ SameInPieces(whole) /\ \A k \in DOMAIN whole.lines : LineTame(whole.lines[k])

\* The lines of a file are the same whatever the size of the buffer, wherever the
\* reads cut it: between a backslash and its newline, among the blanks before a
\* line, within a comment.  When the buffer cannot grow or a read fails the callback
\* has had the first of them, and parser_byline() succeeds only when it had all.  No
\* line has a newline or starts with '#', and without backslashes none starts with a
\* blank.  A backslash before a newline can make a line of blanks, or of blanks and a
\* comment (lineparser.c:105-127), although the comment at 22-23 says that comments
\* are stripped.
LinesDoNotDependOnReads ==
  For("lines") => LinesTame(parser_byline(text, NewCtx(Len(text) + 2, Len(text) + 3)))
===============================================================================
