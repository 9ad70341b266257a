------------------------------ MODULE CrlfReader ------------------------------
(***************************************************************************)
(* The reader of lines that end in CR LF, libdank/objects/crlfreader.c, on a *)
(* stream whose other end writes when it pleases.  The text is the stream;   *)
(* a read takes any part of what is there.                                   *)
(***************************************************************************)
EXTENDS Texts, FiniteSets

CONSTANTS GrowBy,         \* 8192 in the code
          MAX_LINE_SIZE,  \* 0x100000 in the code
          Provided        \* sizes of buffers that a caller of setup_crlf_reader() has

ASSUME CrAssumption == /\ GrowBy \in Nat /\ MAX_LINE_SIZE \in Nat /\ Provided \subseteq Nat
                       /\ \A k \in Kinds : k.start \in Seq(STRING) /\ k.chars \subseteq STRING

CR == "CR"
LF == "LF"

\* The reader: buf is what the buffer holds from its first byte on, of which count
\* bytes from base on are not consumed and examined of these were searched.
VARIABLES cr,
          result,  \* of the last call, "none" while it is under way
          got,     \* characters read so far
          closed,  \* the other end closed the stream
          handed   \* handed out so far: the characters, and where among them lines end

crvars == <<cr, result, got, closed, handed>>

Grown(total) == IF total + GrowBy > MAX_LINE_SIZE THEN MAX_LINE_SIZE ELSE total + GrowBy

setup_crlf_reader(size) ==
  [buf |-> <<>>, total |-> size, base |-> 0, count |-> 0, examined |-> 0, eof |-> FALSE]

CrInit == /\ cr \in {setup_crlf_reader(size) : size \in Provided \cup {Grown(0)}}
          /\ result = "none" /\ got = 0 /\ closed = FALSE
          /\ handed = [chars |-> <<>>, ends |-> {}]

Close == /\ ~closed /\ closed' = TRUE
         /\ UNCHANGED <<cr, result, got, handed>>

Window == SubSeq(cr.buf, cr.base + 1, cr.base + cr.count)
InCall == result = "none"
Return(res) == result' = res /\ UNCHANGED <<got, closed, handed>>

\* The caller may come back unless the call before was the last.
Call == /\ result \in {"SUCCESS", "MOREDATA", "NBLOCK"}
        /\ result' = "none"
        /\ UNCHANGED <<cr, got, closed, handed>>

\* Only a line that fills the buffer makes it grow, up to a limit.
grow_buf == IF cr.count # cr.total THEN cr.total ELSE Grown(cr.total)

ReadEof == /\ InCall /\ cr.examined = cr.count /\ cr.eof
           /\ Return(IF cr.count = 0 THEN "EOF" ELSE "SHORTLINE")
           /\ UNCHANGED cr

\* iv is not set.
LongLine == /\ InCall /\ cr.examined = cr.count /\ ~cr.eof
            /\ cr.count = cr.total /\ cr.total >= MAX_LINE_SIZE
            /\ Return("LONGLINE")
            /\ UNCHANGED cr

\* No memory to grow into: the old buffer is released.
NoMemory == /\ InCall /\ cr.examined = cr.count /\ ~cr.eof
            /\ cr.count = cr.total /\ cr.total < MAX_LINE_SIZE
            /\ Return("SYSERR")
            /\ cr' = [cr EXCEPT !.buf = <<>>, !.base = 0, !.count = 0, !.examined = 0]

MovesTooLittle(more) == [cr EXCEPT !.buf = SubSeq(@, 1, cr.count) \o more, !.base = 0,
                                   !.total = grow_buf, !.count = @ + Len(more)]

\* What is left moves to the front of the buffer, and more comes behind it.
Moved(more) == [cr EXCEPT !.buf = Window \o more, !.base = 0, !.total = grow_buf,
                          !.count = @ + Len(more)]

\* read(2): some of what is there, the end, nothing yet, or an error.
read_cr_data ==
  /\ InCall /\ cr.examined = cr.count /\ ~cr.eof
  /\ cr.count = cr.total => cr.total < MAX_LINE_SIZE
  /\ \/ \E n \in 1 .. grow_buf - cr.count :
          /\ got + n <= Len(text)
          /\ cr' = Moved(SubSeq(text, got + 1, got + n)) /\ got' = got + n
          /\ UNCHANGED <<result, closed, handed>>
     \/ /\ got = Len(text) /\ closed
        /\ cr' = [Moved(<<>>) EXCEPT !.eof = TRUE]
        /\ Return(IF cr.count = 0 THEN "EOF" ELSE "SHORTLINE")
     \/ /\ got = Len(text) /\ ~closed
        /\ cr' = Moved(<<>>) /\ Return("NBLOCK")
     \/ cr' = Moved(<<>>) /\ Return("SYSERR")

\* The next LF in the window that was not examined, 0 if there is none.
Linefeed == LET at == {k \in cr.examined + 1 .. cr.count : Window[k] = LF}
            IN IF at = {} THEN 0 ELSE CHOOSE k \in at : \A l \in at : k <= l

ForgetsCR == /\ cr' = [cr EXCEPT !.examined = IF Linefeed = 0 THEN cr.count ELSE Linefeed]
             /\ UNCHANGED <<result, got, closed, handed>>

\* A line goes to the caller, and the search starts again behind it; an LF after
\* something else is passed over.
read_crlf_line ==
  /\ InCall /\ cr.examined # cr.count
  /\ IF Linefeed > 1 /\ Window[Linefeed - 1] = CR
     THEN \/ /\ cr' = [cr EXCEPT !.count = @ - Linefeed, !.base = @ + Linefeed, !.examined = 0]
             /\ handed' = [chars |-> handed.chars \o SubSeq(Window, 1, Linefeed),
                           ends |-> handed.ends \cup {Len(handed.chars) + Linefeed}]
             /\ result' = IF cr'.count # 0 \/ cr.eof THEN "MOREDATA" ELSE "SUCCESS"
             /\ UNCHANGED <<got, closed>>
          \/ \* no memory for the copy
             /\ result' = "SYSERR"
             /\ UNCHANGED <<cr, got, closed, handed>>
     ELSE /\ cr' = [cr EXCEPT !.examined = IF Linefeed = 0 THEN cr.count ELSE Linefeed]
          /\ UNCHANGED <<result, got, closed, handed>>

CrNext == Close \/ Call \/ ReadEof \/ LongLine \/ NoMemory \/ read_cr_data \/ read_crlf_line

\* With a peer that writes until it closes its end.
CrStep == \/ CrNext /\ UNCHANGED <<kind, text>>
          \/ ~closed /\ Write /\ UNCHANGED crvars

CrSpec == TextInit /\ CrInit /\ [][CrStep]_<<kind, text, crvars>>

-------------------------------------------------------------------------------
(* Properties. *)

Crlf(s) == {k \in 2 .. Len(s) : s[k] = LF /\ s[k - 1] = CR}

\* However the stream is cut into reads and wherever the buffer ends, the lines and
\* the rest in the buffer are what was read, lines end where there is a CRLF and
\* nowhere else, and no CRLF was passed over.
LinesAreTheStream ==
  /\ ~(result = "SYSERR" /\ cr.buf = <<>>) =>
       handed.chars \o Window = SubSeq(text, 1, got)
  /\ Crlf(handed.chars) = handed.ends
  /\ Crlf(SubSeq(Window, 1, cr.examined)) = {}
  /\ cr.base + cr.count <= cr.total

\* The last word is true: SHORTLINE is the end of the stream without its CRLF,
\* LONGLINE a line of the greatest length or more without one, EOF the end with nothing left,
\* and SUCCESS and NBLOCK leave no line in the buffer, where poll() would not see it.
\* LONGLINE hands nothing out: the data stays in the buffer and iv is what the line before
\* left there (crlfreader.c:125-133), although crlfreader.h:50-54 says that a caller finds
\* the data and its length in iv and has to free it.
ResultsAreTrue ==
  /\ result \in {"SHORTLINE", "EOF"} =>
       closed /\ got = Len(text) /\ Crlf(Window) = {} /\ (Window = <<>> <=> result = "EOF")
  /\ result = "LONGLINE" => Len(Window) >= MAX_LINE_SIZE /\ Crlf(Window) = {}
  /\ result \in {"SUCCESS", "NBLOCK"} => Crlf(Window) = {}

\* Both: what read_crlf_line() hands out with SUCCESS and MOREDATA is the stream, and what
\* it says of the stream with every result is true.  Of iv nothing is promised for
\* LONGLINE, where the code does not do what crlfreader.h:50-54 says.
StreamBecomesLines == LinesAreTheStream /\ ResultsAreTrue
===============================================================================
