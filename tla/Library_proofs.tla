---------------------------- MODULE Library_proofs -----------------------------
(***************************************************************************)
(* Proofs about the parts of the library that keep to themselves: the       *)
(* reader of lines, for streams, buffers and reads of any size, the log     *)
(* file of a thread, for any size, the accounts of memory, for any number   *)
(* of threads and objects, the trie, for any strings and objects, the sets  *)
(* of addresses and of ports, for any number and any highest one, and the   *)
(* netlink cache, for any dumps.                                            *)
(***************************************************************************)
EXTENDS CrlfReader, LogFile, MemLimit, LruPat, Netlink, PortSets,
        FiniteSetTheorems, SequenceTheorems, WellFoundedInduction, TLAPS

-------------------------------------------------------------------------------
(* The reader of lines: CrlfReader.                                         *)

Readers == [buf : Seq(STRING), total : Nat, base : Nat, count : Nat, examined : Nat, eof : BOOLEAN]

CrTypeOK ==
  /\ kind \in Kinds /\ text \in Seq(STRING)
  /\ cr \in Readers
  /\ result \in {"none", "SUCCESS", "MOREDATA", "NBLOCK", "EOF", "SHORTLINE", "LONGLINE", "SYSERR"}
  /\ got \in 0 .. Len(text) /\ closed \in BOOLEAN
  /\ handed \in [chars : Seq(STRING), ends : SUBSET Nat]

\* The buffer holds nothing behind what is to be consumed
BufferInv == /\ cr.base + cr.count = Len(cr.buf) /\ Len(cr.buf) <= cr.total
             /\ cr.examined <= cr.count

\* The buffer was released when it could not grow
Lost == result = "SYSERR" /\ cr.buf = <<>>

Out == Len(handed.chars)

\* What was handed out and what is left are the text, place by place
StreamInv ==
  /\ Out <= got
  /\ \A k \in 1 .. Out : handed.chars[k] = text[k]
  /\ ~Lost => /\ Out + cr.count = got
              /\ \A k \in 1 .. cr.count : cr.buf[cr.base + k] = text[Out + k]

EndsAt(k) == text[k] = LF /\ text[k - 1] = CR

LinesInv ==
  /\ handed.ends \subseteq 2 .. Out
  /\ \A k \in 2 .. Out : k \in handed.ends <=> EndsAt(k)
  /\ Out > 0 => text[Out] = LF
  /\ \A k \in 2 .. cr.examined : ~EndsAt(Out + k)

ResultInv ==
  /\ cr.eof => closed /\ got = Len(text)
  /\ result \in {"SHORTLINE", "EOF"} =>
       cr.eof /\ cr.examined = cr.count /\ (cr.count = 0 <=> result = "EOF")
  /\ result = "LONGLINE" => cr.examined = cr.count /\ cr.count >= MAX_LINE_SIZE
  /\ result \in {"SUCCESS", "NBLOCK"} => cr.examined = cr.count

CrInv == CrTypeOK /\ BufferInv /\ StreamInv /\ LinesInv /\ ResultInv

LEMMA WindowIs ==
  ASSUME CrTypeOK, BufferInv
  PROVE  /\ Window \in Seq(STRING) /\ Len(Window) = cr.count
         /\ \A k \in 1 .. cr.count : Window[k] = cr.buf[cr.base + k]
<1>1. /\ cr.buf \in Seq(STRING) /\ cr.base \in Nat /\ cr.count \in Nat
      /\ cr.base + cr.count = Len(cr.buf)
  BY DEF CrTypeOK, Readers, BufferInv
<1> DEFINE from == cr.base + 1
           to == cr.base + cr.count
<1>2. from \in Int /\ to \in Int /\ \A i \in from .. to : i \in 1 .. Len(cr.buf)
  BY <1>1
<1>3. \A i \in from .. to : cr.buf[i] \in STRING
  BY <1>1, <1>2, ElementOfSeq
<1>4. /\ SubSeq(cr.buf, from, to) \in Seq(STRING)
      /\ Len(SubSeq(cr.buf, from, to)) = IF from <= to THEN to - from + 1 ELSE 0
      /\ \A i \in 1 .. to - from + 1 : SubSeq(cr.buf, from, to)[i] = cr.buf[from + i - 1]
  <2> HIDE DEF from, to
  <2> QED BY <1>2, <1>3, SubSeqProperties
<1>5. to - from + 1 = cr.count /\ (from <= to <=> cr.count # 0) /\ cr.count \in Nat
  BY <1>1
<1>6. \A k \in 1 .. cr.count : SubSeq(cr.buf, from, to)[k] = cr.buf[cr.base + k]
  <2>1. ASSUME NEW k \in 1 .. cr.count PROVE from + k - 1 = cr.base + k
    BY <1>1
  <2> QED BY <1>4, <1>5, <2>1
<1> QED BY <1>4, <1>5, <1>6 DEF Window

\* A part of the text
LEMMA PartIs ==
  ASSUME NEW s \in Seq(STRING), NEW i \in Nat, NEW n \in Nat, i + n <= Len(s)
  PROVE  /\ SubSeq(s, i + 1, i + n) \in Seq(STRING) /\ Len(SubSeq(s, i + 1, i + n)) = n
         /\ \A k \in 1 .. n : SubSeq(s, i + 1, i + n)[k] = s[i + k]
<1> DEFINE from == i + 1
           to == i + n
<1>2. from \in Int /\ to \in Int /\ \A j \in from .. to : j \in 1 .. Len(s)
  OBVIOUS
<1>3. \A j \in from .. to : s[j] \in STRING
  BY <1>2, ElementOfSeq
<1>4. /\ SubSeq(s, from, to) \in Seq(STRING)
      /\ Len(SubSeq(s, from, to)) = IF from <= to THEN to - from + 1 ELSE 0
      /\ \A j \in 1 .. to - from + 1 : SubSeq(s, from, to)[j] = s[from + j - 1]
  <2> HIDE DEF from, to
  <2> QED BY <1>2, <1>3, SubSeqProperties
<1> QED BY <1>4

LEMMA LinefeedIs ==
  ASSUME CrTypeOK
  PROVE  \/ Linefeed = 0 /\ \A k \in cr.examined + 1 .. cr.count : Window[k] # LF
         \/ /\ Linefeed \in cr.examined + 1 .. cr.count /\ Window[Linefeed] = LF
            /\ \A k \in cr.examined + 1 .. Linefeed - 1 : Window[k] # LF
<1> DEFINE at == {k \in cr.examined + 1 .. cr.count : Window[k] = LF}
<1>1. cr.examined \in Nat /\ cr.count \in Nat
  BY DEF CrTypeOK, Readers
<1>2. CASE at = {}
  BY <1>2 DEF Linefeed
<1>3. CASE at # {}
  <2>1. at \subseteq Nat
    BY <1>1
  <2>2. PICK m \in at : \A j \in at : ~(<<j, m>> \in OpToRel(<, Nat))
    <3> HIDE DEF at
    <3> QED BY <1>3, <2>1, NatLessThanWellFounded, WFMin
  <2>3. \A j \in at : m <= j
    <3> TAKE j \in at
    <3>1. j \in Nat /\ m \in Nat
      BY <2>1
    <3>2. ~(j < m)
      BY <2>2, <3>1 DEF OpToRel
    <3> QED BY <3>1, <3>2
  <2>4. Linefeed = CHOOSE k \in at : \A l \in at : k <= l
    BY <1>3 DEF Linefeed
  <2>5. Linefeed \in at /\ \A j \in at : Linefeed <= j
    <3> HIDE DEF at
    <3> QED BY <2>3, <2>4
  <2>6. ASSUME NEW k \in cr.examined + 1 .. Linefeed - 1 PROVE Window[k] # LF
    <3>1. Linefeed \in Nat /\ Linefeed <= cr.count
      BY <1>1, <2>5
    <3>2. k \in cr.examined + 1 .. cr.count /\ ~(Linefeed <= k)
      BY <1>1, <3>1
    <3> QED BY <2>5, <3>2
  <2> QED BY <2>5, <2>6
<1> QED BY <1>2, <1>3

LEMMA GrowBufIs ==
  ASSUME CrTypeOK, BufferInv, cr.count = cr.total => cr.total < MAX_LINE_SIZE
  PROVE  grow_buf \in Nat /\ cr.count <= grow_buf
BY CrAssumption DEF CrTypeOK, Readers, BufferInv, grow_buf, Grown

\* What a read of n bytes leaves in the reader
LEMMA MovedIs ==
  ASSUME CrTypeOK, BufferInv, NEW more \in Seq(STRING),
         cr.count = cr.total => cr.total < MAX_LINE_SIZE, cr.count + Len(more) <= grow_buf
  PROVE  LET r == Moved(more)
         IN /\ r \in Readers
            /\ r.base = 0 /\ r.count = cr.count + Len(more) /\ r.examined = cr.examined
            /\ r.eof = cr.eof /\ Len(r.buf) = r.count /\ r.count <= r.total
            /\ \A k \in 1 .. cr.count : r.buf[k] = cr.buf[cr.base + k]
            /\ \A k \in 1 .. Len(more) : r.buf[cr.count + k] = more[k]
<1> DEFINE r == Moved(more)
<1>1. /\ Window \in Seq(STRING) /\ Len(Window) = cr.count
      /\ \A k \in 1 .. cr.count : Window[k] = cr.buf[cr.base + k]
  BY WindowIs
<1>2. cr \in Readers /\ cr.count \in Nat /\ Len(more) \in Nat /\ grow_buf \in Nat
  BY GrowBufIs DEF CrTypeOK, Readers
<1>3. /\ Window \o more \in Seq(STRING) /\ Len(Window \o more) = cr.count + Len(more)
      /\ \A k \in 1 .. cr.count + Len(more) :
           (Window \o more)[k] = IF k <= cr.count THEN Window[k] ELSE more[k - cr.count]
  <2> DEFINE w == Window
  <2>1. w \in Seq(STRING) /\ Len(w) = cr.count
    BY <1>1
  <2> HIDE DEF w
  <2>2. /\ w \o more \in Seq(STRING) /\ Len(w \o more) = cr.count + Len(more)
        /\ \A k \in 1 .. cr.count + Len(more) :
             (w \o more)[k] = IF k <= cr.count THEN w[k] ELSE more[k - cr.count]
    BY <2>1, ConcatProperties, SMTT(30)
  <2> QED BY <2>2 DEF w
<1>4. /\ r.buf = Window \o more /\ r.base = 0 /\ r.total = grow_buf
      /\ r.count = cr.count + Len(more) /\ r.examined = cr.examined /\ r.eof = cr.eof
  BY <1>2 DEF Moved, Readers
<1>5. r \in Readers
  <2>1. r = [cr EXCEPT !.buf = Window \o more, !.base = 0, !.total = grow_buf,
                       !.count = cr.count + Len(more)]
    BY DEF Moved
  <2>2. cr.count + Len(more) \in Nat
    BY <1>2
  <2> HIDE DEF r
  <2> QED BY <1>2, <1>3, <2>1, <2>2 DEF Readers
<1> HIDE DEF r
<1>6. \A k \in 1 .. cr.count : r.buf[k] = cr.buf[cr.base + k]
  BY <1>1, <1>2, <1>3, <1>4
<1>7. \A k \in 1 .. Len(more) : r.buf[cr.count + k] = more[k]
  BY <1>2, <1>3, <1>4
<1> QED BY <1>3, <1>4, <1>5, <1>6, <1>7 DEF r

\* What a read does to the reader
ReadStepOf(more) ==
  /\ cr'.base = 0 /\ cr'.count = cr.count + Len(more) /\ cr'.examined = cr.examined
  /\ cr' \in Readers /\ Len(cr'.buf) = cr'.count /\ cr'.count <= cr'.total
  /\ \A k \in 1 .. cr.count : cr'.buf[k] = cr.buf[cr.base + k]
  /\ \A k \in 1 .. Len(more) : cr'.buf[cr.count + k] = more[k]

LEMMA Numbers ==
  ASSUME CrTypeOK
  PROVE  /\ cr.base \in Nat /\ cr.count \in Nat /\ cr.examined \in Nat /\ cr.total \in Nat
         /\ cr.buf \in Seq(STRING) /\ Len(cr.buf) \in Nat /\ cr.eof \in BOOLEAN
         /\ handed.chars \in Seq(STRING) /\ handed.ends \subseteq Nat /\ Out \in Nat
         /\ got \in Nat /\ Len(text) \in Nat /\ got <= Len(text)
BY DEF CrTypeOK, Readers, Out

\* What comes next in the text
Follows(more) ==
  got + Len(more) <= Len(text) /\ \A k \in 1 .. Len(more) : more[k] = text[got + k]

LEMMA ReadSome ==
  ASSUME CrInv, read_cr_data, NEW more \in Seq(STRING), cr.count + Len(more) <= grow_buf,
         Follows(more),
         cr' = Moved(more), got' = got + Len(more),
         UNCHANGED <<kind, text, result, closed, handed>>
  PROVE  CrInv'
<1> DEFINE n == Len(more)
<1>1. /\ CrTypeOK /\ BufferInv /\ result = "none" /\ ~cr.eof /\ cr.examined = cr.count
      /\ cr.count = cr.total => cr.total < MAX_LINE_SIZE
  BY DEF CrInv, read_cr_data, InCall
<1>2. /\ cr.count \in Nat /\ got \in Nat /\ n \in Nat
      /\ cr.base \in Nat /\ Out \in Nat
  BY <1>1, Numbers
<1>3. /\ got + n <= Len(text) /\ got' = got + n
      /\ \A k \in 1 .. n : more[k] = text[got + k]
  BY DEF Follows
<1>5. ReadStepOf(more) /\ cr'.eof = cr.eof
  BY <1>1, MovedIs DEF ReadStepOf
<1>6. Out' = Out /\ cr'.count = cr.count + n
  BY <1>3, <1>5 DEF Out, ReadStepOf
<1>7. CrTypeOK'
  <2>1. Len(text) \in Nat /\ cr' \in Readers /\ got' \in 0 .. Len(text)
    BY <1>1, <1>2, <1>3, <1>5, Numbers DEF ReadStepOf
  <2> QED BY <1>1, <2>1 DEF CrTypeOK
<1>8. BufferInv'
  BY <1>1, <1>2, <1>3, <1>5 DEF BufferInv, ReadStepOf
<1>9. StreamInv'
  <2>1. ~Lost /\ Out + cr.count = got
    BY <1>1 DEF CrInv, StreamInv, Lost
  <2>2. Out' + cr'.count = got'
    BY <1>2, <1>6, <2>1
  <2>3. ASSUME NEW k \in 1 .. cr'.count PROVE cr'.buf[cr'.base + k] = text[Out + k]
    <3>1. cr'.base + k = k
      BY <1>5 DEF ReadStepOf
    <3>2. CASE k <= cr.count
      BY <1>2, <1>5, <2>1, <3>1, <3>2 DEF ReadStepOf, CrInv, StreamInv
    <3>3. CASE k > cr.count
      <4>1. k - cr.count \in 1 .. n /\ cr.count + (k - cr.count) = k
            /\ got + (k - cr.count) = Out + k
        BY <1>2, <1>6, <2>1, <3>3
      <4>2. cr'.buf[k] = more[k - cr.count]
        BY <1>3, <1>5, <4>1 DEF ReadStepOf
      <4> QED BY <1>3, <3>1, <4>1, <4>2
    <3> QED BY <1>2, <1>3, <1>5, <3>2, <3>3 DEF ReadStepOf
  <2>4. Out <= got' /\ \A k \in 1 .. Out : handed.chars[k] = text[k]
    BY <1>2 DEF CrInv, StreamInv
  <2> QED BY <1>6, <2>2, <2>3, <2>4 DEF StreamInv
<1>10. LinesInv'
  BY <1>5, <1>6 DEF CrInv, LinesInv, EndsAt, ReadStepOf
<1>11. ResultInv'
  BY <1>1, <1>5 DEF ResultInv
<1> QED BY <1>7, <1>8, <1>9, <1>10, <1>11 DEF CrInv

\* The end of the stream, nothing yet, or an error
LEMMA ReadNothing ==
  ASSUME CrInv, read_cr_data, NEW e \in BOOLEAN, e => closed /\ got = Len(text),
         cr' = [Moved(<<>>) EXCEPT !.eof = e],
         result' \in {"SHORTLINE", "EOF", "NBLOCK", "SYSERR"},
         result' \in {"SHORTLINE", "EOF"} => e /\ (cr.count = 0 <=> result' = "EOF"),
         UNCHANGED <<kind, text, got, closed, handed>>
  PROVE  CrInv'
<1>1. /\ CrTypeOK /\ BufferInv /\ result = "none" /\ ~cr.eof /\ cr.examined = cr.count
      /\ cr.count = cr.total => cr.total < MAX_LINE_SIZE
  BY DEF CrInv, read_cr_data, InCall
<1>2. /\ cr.count \in Nat /\ got \in Nat /\ grow_buf \in Nat /\ cr.count <= grow_buf
      /\ cr.base \in Nat /\ Out \in Nat
  BY <1>1, Numbers, GrowBufIs
<1>3. <<>> \in Seq(STRING) /\ Len(<<>>) = 0
  BY EmptySeq
<1>4. ReadStepOf(<<>>) /\ cr'.eof = e
  <2>1. cr.count + Len(<<>>) <= grow_buf
    BY <1>2, <1>3
  <2> DEFINE r == Moved(<<>>)
  <2>2. /\ r \in Readers
        /\ r.base = 0 /\ r.count = cr.count + Len(<<>>) /\ r.examined = cr.examined
        /\ Len(r.buf) = r.count /\ r.count <= r.total
        /\ \A k \in 1 .. cr.count : r.buf[k] = cr.buf[cr.base + k]
        /\ \A k \in 1 .. Len(<<>>) : r.buf[cr.count + k] = <<>>[k]
    BY <1>1, <1>3, <2>1, MovedIs
  <2> HIDE DEF r
  <2>3. cr' = [r EXCEPT !.eof = e]
    BY DEF r
  <2>4. /\ cr' \in Readers /\ cr'.buf = r.buf /\ cr'.base = r.base /\ cr'.count = r.count
        /\ cr'.examined = r.examined /\ cr'.total = r.total /\ cr'.eof = e
    BY <2>2, <2>3 DEF Readers
  <2> QED BY <2>2, <2>4 DEF ReadStepOf
<1>5. Out' = Out /\ cr'.count = cr.count
  BY <1>2, <1>3, <1>4 DEF Out, ReadStepOf
<1>6. CrTypeOK'
  BY <1>1, <1>4 DEF CrTypeOK, ReadStepOf
<1>7. BufferInv'
  BY <1>1, <1>2, <1>3, <1>4 DEF BufferInv, ReadStepOf
<1>8. StreamInv'
  <2>1. ~Lost
    BY <1>1 DEF Lost
  <2>2. ASSUME NEW k \in 1 .. cr.count PROVE cr'.buf[cr'.base + k] = text[Out + k]
    BY <1>2, <1>4, <2>1 DEF ReadStepOf, CrInv, StreamInv
  <2> QED BY <1>5, <2>1, <2>2 DEF CrInv, StreamInv
<1>9. LinesInv'
  BY <1>4, <1>5 DEF CrInv, LinesInv, EndsAt, ReadStepOf
<1>10. ResultInv'
  BY <1>1, <1>4, <1>5 DEF ResultInv, ReadStepOf
<1> QED BY <1>6, <1>7, <1>8, <1>9, <1>10 DEF CrInv

LEMMA ReadStep ==
  ASSUME CrInv, read_cr_data, UNCHANGED <<kind, text>>
  PROVE  CrInv'
<1> DEFINE same == [Moved(<<>>) EXCEPT !.eof = FALSE]
<1>1. ~cr.eof /\ cr.count \in Nat
  BY Numbers DEF read_cr_data, CrInv
<1>2. Moved(<<>>) = same
  <2>1. CrTypeOK /\ BufferInv /\ (cr.count = cr.total => cr.total < MAX_LINE_SIZE)
    BY DEF CrInv, read_cr_data
  <2>2. <<>> \in Seq(STRING) /\ cr.count + Len(<<>>) <= grow_buf
    BY <1>1, <2>1, EmptySeq, GrowBufIs
  <2>3. Moved(<<>>) \in Readers /\ Moved(<<>>).eof = cr.eof
    BY <2>1, <2>2, MovedIs
  <2> QED BY <1>1, <2>3 DEF Readers
<1>3. CASE \E n \in 1 .. grow_buf - cr.count :
          /\ got + n <= Len(text)
          /\ cr' = Moved(SubSeq(text, got + 1, got + n)) /\ got' = got + n
          /\ UNCHANGED <<result, closed, handed>>
  <2>1. PICK n \in 1 .. grow_buf - cr.count :
          /\ got + n <= Len(text)
          /\ cr' = Moved(SubSeq(text, got + 1, got + n)) /\ got' = got + n
          /\ UNCHANGED <<result, closed, handed>>
    BY <1>3
  <2>2. grow_buf \in Nat
    BY GrowBufIs DEF CrInv, read_cr_data
  <2> DEFINE more == SubSeq(text, got + 1, got + n)
  <2>3. n \in Nat /\ cr.count + n <= grow_buf /\ got \in Nat /\ text \in Seq(STRING)
    BY <1>1, <2>2, Numbers DEF CrInv, CrTypeOK
  <2>4. more \in Seq(STRING) /\ Len(more) = n /\ \A k \in 1 .. n : more[k] = text[got + k]
    BY <2>1, <2>3, PartIs
  <2> HIDE DEF more
  <2>5. cr' = Moved(more)
    BY <2>1 DEF more
  <2>6. Follows(more)
    BY <2>1, <2>4 DEF Follows
  <2> QED BY <2>1, <2>3, <2>4, <2>5, <2>6, ReadSome
<1>4. CASE /\ got = Len(text) /\ closed
           /\ cr' = [Moved(<<>>) EXCEPT !.eof = TRUE]
           /\ Return(IF cr.count = 0 THEN "EOF" ELSE "SHORTLINE")
  BY <1>4, ReadNothing DEF Return
<1>5. CASE cr' = Moved(<<>>) /\ (Return("NBLOCK") \/ Return("SYSERR"))
  <2>1. cr' = [Moved(<<>>) EXCEPT !.eof = FALSE]
    BY <1>2, <1>5
  <2>2. result' \in {"NBLOCK", "SYSERR"} /\ UNCHANGED <<got, closed, handed>>
    BY <1>5 DEF Return
  <2> QED BY <2>1, <2>2, ReadNothing
<1> QED BY <1>3, <1>4, <1>5 DEF read_cr_data

\* A call begins or ends, and the reader stays as it is.
LEMMA StayStep ==
  ASSUME CrInv, UNCHANGED <<kind, text>>, Close \/ Call \/ ReadEof \/ LongLine
  PROVE  CrInv'
<1> USE DEF CrInv
<1>1. UNCHANGED <<cr, got, handed>> /\ Out' = Out
  BY DEF Close, Call, ReadEof, LongLine, Return, Out
<1>2. CrTypeOK'
  BY <1>1 DEF CrTypeOK, Close, Call, ReadEof, LongLine, Return
<1>3. BufferInv' /\ LinesInv'
  BY <1>1 DEF BufferInv, LinesInv, EndsAt
<1>4. StreamInv'
  BY <1>1 DEF StreamInv, Lost, Close, Call, ReadEof, LongLine, Return, InCall
<1>5. ResultInv'
  BY <1>1, Numbers, CrAssumption DEF ResultInv, Close, Call, ReadEof, LongLine, Return, InCall
<1> QED BY <1>2, <1>3, <1>4, <1>5

LEMMA NoMemoryStep ==
  ASSUME CrInv, NoMemory, UNCHANGED <<kind, text>>
  PROVE  CrInv'
<1> USE DEF CrInv
<1>1. /\ cr'.buf = <<>> /\ cr'.base = 0 /\ cr'.count = 0 /\ cr'.examined = 0
      /\ cr'.total = cr.total /\ cr'.eof = cr.eof /\ cr' \in Readers
      /\ result' = "SYSERR" /\ UNCHANGED <<got, closed, handed>> /\ Out' = Out
  <2>1. <<>> \in Seq(STRING) /\ cr \in Readers
    BY EmptySeq DEF CrTypeOK
  <2> QED BY <2>1 DEF NoMemory, Readers, Return, Out
<1>2. CrTypeOK'
  BY <1>1 DEF CrTypeOK
<1>3. BufferInv' /\ ResultInv'
  BY <1>1, Numbers, EmptySeq DEF BufferInv, ResultInv
<1>4. StreamInv' /\ LinesInv'
  BY <1>1 DEF StreamInv, LinesInv, Lost, EndsAt
<1> QED BY <1>2, <1>3, <1>4

LEMMA WriteStep ==
  ASSUME CrInv, ~closed, Write, UNCHANGED crvars
  PROVE  CrInv'
<1> USE DEF CrInv, crvars
<1>1. PICK c \in kind.chars : text' = Append(text, c)
  BY DEF Write
<1>2. c \in STRING /\ text \in Seq(STRING)
  BY <1>1, CrAssumption DEF CrTypeOK
<1>3. /\ text' \in Seq(STRING) /\ Len(text') = Len(text) + 1
      /\ \A k \in 1 .. Len(text) : text'[k] = text[k]
  BY <1>1, <1>2, AppendProperties
<1>4. Out' = Out /\ Out \in Nat /\ got \in Nat /\ Len(text) \in Nat /\ Out <= got /\ got <= Len(text)
  BY Numbers DEF Out, StreamInv
<1>5. CrTypeOK'
  BY <1>3, <1>4 DEF CrTypeOK, Write
<1>6. BufferInv' /\ ResultInv'
  BY DEF BufferInv, ResultInv
<1>7. \A k \in 1 .. got : text'[k] = text[k]
  BY <1>3, <1>4
<1>8. StreamInv'
  BY <1>4, <1>7, Numbers DEF StreamInv, Lost
<1>9. LinesInv'
  <2>1. \A k \in 2 .. got : EndsAt(k)' <=> EndsAt(k)
    BY <1>4, <1>7 DEF EndsAt
  <2>2. Out + cr.examined <= got
    BY <1>4, Numbers DEF StreamInv, BufferInv, LinesInv, Lost
  <2> QED BY <1>4, <1>7, <2>1, <2>2, Numbers, SMTT(30) DEF LinesInv
<1> QED BY <1>5, <1>6, <1>8, <1>9

\* What was not examined holds no LF before l
NoLinefeed(l) == \A k \in cr.examined + 1 .. l - 1 : Window[k] # LF

\* The beginning of what is left
Heads(line) == \A k \in 1 .. Len(line) : line[k] = Window[k]

LEMMA EndsAtSum ==
  ASSUME NEW i \in Nat, NEW k \in Nat, k > 0
  PROVE  EndsAt(i + k) <=> text[i + k] = LF /\ text[i + (k - 1)] = CR
<1>1. i + k - 1 = i + (k - 1)
  OBVIOUS
<1> QED BY <1>1 DEF EndsAt

\* Places after the last line, as far as they were examined
LEMMA NoEndBefore ==
  ASSUME CrInv, ~Lost, cr.examined # cr.count, NEW l \in cr.examined + 1 .. cr.count,
         NoLinefeed(l),
         NEW k \in 1 .. l - 1, Out + k >= 2
  PROVE  ~EndsAt(Out + k)
<1> USE Numbers DEF CrInv
<1>1. l \in Nat /\ l <= cr.count
  OBVIOUS
<1>2. CASE k = 1
  <2>1. Out > 0 /\ Out + k - 1 = Out
    BY <1>2
  <2>2. text[Out] = LF
    BY <2>1 DEF LinesInv
  <2> QED BY <2>1, <2>2 DEF EndsAt, CR, LF
<1>3. CASE k > 1 /\ k <= cr.examined
  BY <1>3 DEF LinesInv
<1>4. CASE k > cr.examined
  <2>1. k \in cr.examined + 1 .. l - 1 /\ k \in 1 .. cr.count
    BY <1>1, <1>4
  <2>2. Window[k] = cr.buf[cr.base + k] /\ cr.buf[cr.base + k] = text[Out + k]
    BY <2>1, WindowIs DEF StreamInv
  <2> QED BY <2>1, <2>2 DEF EndsAt, NoLinefeed
<1> QED BY <1>2, <1>3, <1>4

\* A line of l characters goes out
LEMMA LineStep ==
  ASSUME CrInv, result = "none", NEW l \in Nat, cr.examined < l, 1 < l, l <= cr.count,
         Window[l] = LF, Window[l - 1] = CR, NoLinefeed(l),
         NEW line \in Seq(STRING), Len(line) = l, Heads(line),
         cr' = [cr EXCEPT !.count = cr.count - l, !.base = cr.base + l, !.examined = 0],
         handed' = [chars |-> handed.chars \o line, ends |-> handed.ends \cup {Out + l}],
         result' = IF cr'.count # 0 \/ cr.eof THEN "MOREDATA" ELSE "SUCCESS",
         UNCHANGED <<kind, text, got, closed>>
  PROVE  CrInv'
<1>1. /\ CrTypeOK /\ BufferInv /\ StreamInv /\ LinesInv /\ ResultInv
      /\ cr.base \in Nat /\ cr.count \in Nat /\ cr.examined \in Nat /\ Out \in Nat /\ got \in Nat
      /\ ~Lost
  BY Numbers DEF CrInv, Lost
<1>2. \A k \in 1 .. cr.count : Window[k] = text[Out + k]
  BY <1>1, WindowIs DEF StreamInv
<1>3. \A k \in 1 .. l : line[k] = Window[k]
  BY DEF Heads
<1>4. /\ cr' \in Readers /\ cr'.count = cr.count - l /\ cr'.base = cr.base + l
      /\ cr'.examined = 0 /\ cr'.buf = cr.buf /\ cr'.total = cr.total /\ cr'.eof = cr.eof
  <2>1. cr \in Readers /\ cr.count - l \in Nat /\ cr.base + l \in Nat
    BY <1>1 DEF CrTypeOK
  <2> QED BY <2>1 DEF Readers
<1>6. /\ handed.chars \in Seq(STRING) /\ handed.ends \subseteq Nat
  BY <1>1, Numbers
<1>7. /\ handed.chars \o line \in Seq(STRING) /\ Len(handed.chars \o line) = Out + l
      /\ \A k \in 1 .. Out + l :
           (handed.chars \o line)[k] = IF k <= Out THEN handed.chars[k] ELSE line[k - Out]
  BY <1>6, ConcatProperties DEF Out
<1>5. handed'.chars = handed.chars \o line /\ handed'.ends = handed.ends \cup {Out + l}
  OBVIOUS
<1>8. /\ handed'.chars = handed.chars \o line /\ handed'.ends = handed.ends \cup {Out + l}
      /\ Out' = Out + l
  <2>1. Len(handed'.chars) = Out + l
    BY <1>5, <1>7
  <2> QED BY <1>5, <2>1 DEF Out
<1>9. CrTypeOK'
  <2>1. Out + l \in Nat
    BY <1>1
  <2>2. handed' \in [chars : Seq(STRING), ends : SUBSET Nat]
    BY <1>6, <1>7, <2>1
  <2> QED BY <1>1, <1>4, <2>2 DEF CrTypeOK
<1>10. BufferInv'
  BY <1>1, <1>4 DEF BufferInv
<1>11. Out + cr.count = got /\ \A k \in 1 .. cr.count : cr.buf[cr.base + k] = text[Out + k]
  BY <1>1 DEF StreamInv
<1>12. StreamInv'
  <2> DEFINE all == handed.chars \o line
  <2>0. \A k \in 1 .. Out + l : all[k] = IF k <= Out THEN handed.chars[k] ELSE line[k - Out]
    BY <1>7
  <2> HIDE DEF all
  <2>1. ASSUME NEW k \in 1 .. Out + l PROVE all[k] = text[k]
    <3>0. k \in Nat /\ k <= Out + l /\ (k <= Out \/ k > Out)
      BY <1>1
    <3>1. CASE k <= Out
      <4>1. k \in 1 .. Out
        BY <1>1, <3>1
      <4> QED BY <1>1, <2>0, <3>1, <4>1 DEF StreamInv
    <3>2. CASE k > Out
      <4>1. k - Out \in 1 .. l /\ k - Out \in 1 .. cr.count /\ Out + (k - Out) = k
        BY <1>1, <3>0, <3>2
      <4>2. all[k] = line[k - Out]
        BY <1>1, <2>0, <3>2
      <4>3. line[k - Out] = Window[k - Out] /\ Window[k - Out] = text[Out + (k - Out)]
        BY <1>2, <1>3, <4>1
      <4> QED BY <4>1, <4>2, <4>3
    <3> QED BY <3>0, <3>1, <3>2
  <2>2. ASSUME NEW k \in 1 .. cr'.count PROVE cr'.buf[cr'.base + k] = text[Out' + k]
    <3>1. /\ l + k \in 1 .. cr.count /\ cr'.base + k = cr.base + (l + k)
          /\ Out' + k = Out + (l + k)
      BY <1>1, <1>4, <1>8
    <3> QED BY <1>4, <1>11, <3>1
  <2>3. Out' + cr'.count = got' /\ Out' <= got'
    BY <1>1, <1>4, <1>8, <1>11
  <2>4. handed'.chars = all
    BY <1>8 DEF all
  <2> QED BY <1>8, <2>1, <2>2, <2>3, <2>4 DEF StreamInv
<1>13. text[Out + l] = LF /\ EndsAt(Out + l)
  <2>1. l \in 1 .. cr.count /\ l - 1 \in 1 .. cr.count
    BY <1>1
  <2>2. text[Out + l] = LF /\ text[Out + (l - 1)] = CR
    BY <1>2, <2>1
  <2>3. EndsAt(Out + l) <=> text[Out + l] = LF /\ text[Out + (l - 1)] = CR
    BY <1>1, EndsAtSum
  <2> QED BY <2>2, <2>3
<1>14. LinesInv'
  <2>1. handed'.ends \subseteq 2 .. Out'
    BY <1>1, <1>6, <1>8 DEF LinesInv
  <2>2. ASSUME NEW k \in 2 .. Out + l PROVE k \in handed'.ends <=> EndsAt(k)
    <3>1. CASE k <= Out
      <4>1. k # Out + l /\ k \in 2 .. Out
        BY <1>1, <3>1
      <4> QED BY <1>1, <1>8, <4>1 DEF LinesInv
    <3>2. CASE k > Out /\ k < Out + l
      <4>1. k - Out \in 1 .. l - 1 /\ Out + (k - Out) = k
        BY <1>1, <3>2
      <4>2. ~EndsAt(k)
        <5> DEFINE j == k - Out
        <5>1. /\ j \in 1 .. l - 1 /\ Out + j = k /\ Out + j >= 2
              /\ l \in cr.examined + 1 .. cr.count /\ cr.examined # cr.count
          BY <1>1, <4>1
        <5> HIDE DEF j
        <5>2. ~EndsAt(Out + j)
          BY <1>1, <5>1, NoEndBefore
        <5> QED BY <5>1, <5>2
      <4>3. k \notin handed.ends
        BY <1>1, <3>2 DEF LinesInv
      <4> QED BY <1>1, <1>8, <3>2, <4>2, <4>3
    <3>3. CASE k = Out + l
      BY <1>8, <1>13, <3>3
    <3>4. k <= Out \/ (k > Out /\ k < Out + l) \/ k = Out + l
      BY <1>1
    <3> QED BY <3>1, <3>2, <3>3, <3>4
  <2>3. \A k : EndsAt(k)' <=> EndsAt(k)
    BY DEF EndsAt
  <2> QED BY <1>4, <1>8, <1>13, <2>1, <2>2, <2>3 DEF LinesInv
<1>15. ResultInv'
  BY <1>1, <1>4 DEF ResultInv
<1> QED BY <1>9, <1>10, <1>12, <1>14, <1>15 DEF CrInv

\* No line yet: what was examined is extended up to e.
LEMMA ExamineStep ==
  ASSUME CrInv, result = "none", cr.examined # cr.count, NEW l \in Nat,
         \/ l = 0 /\ NoLinefeed(cr.count + 1)
         \/ /\ l \in cr.examined + 1 .. cr.count /\ ~(l > 1 /\ Window[l - 1] = CR)
            /\ NoLinefeed(l),
         cr' = [cr EXCEPT !.examined = IF l = 0 THEN cr.count ELSE l],
         UNCHANGED <<kind, text, result, got, closed, handed>>
  PROVE  CrInv'
<1> DEFINE e == IF l = 0 THEN cr.count ELSE l
<1>1. /\ CrTypeOK /\ BufferInv /\ StreamInv /\ LinesInv /\ ResultInv
      /\ cr.base \in Nat /\ cr.count \in Nat /\ cr.examined \in Nat /\ Out \in Nat
      /\ cr.examined <= cr.count /\ ~Lost
  BY Numbers DEF CrInv, BufferInv, Lost
<1>2. e \in Nat /\ e <= cr.count /\ e # 0 /\ e >= cr.examined + 1
  BY <1>1
<1>3. NoLinefeed(e)
  <2>1. CASE l = 0
    <3>1. e = cr.count /\ cr.count + 1 - 1 = cr.count /\ NoLinefeed(cr.count + 1)
      BY <1>1, <2>1
    <3> QED BY <1>1, <3>1 DEF NoLinefeed
  <2>2. CASE l # 0
    BY <2>2
  <2> QED BY <2>1, <2>2
<1>4. Window[e] # LF \/ e = 1 \/ (e > 1 /\ Window[e - 1] # CR)
  <2>1. CASE l = 0
    <3>1. /\ cr.count \in cr.examined + 1 .. cr.count /\ e = cr.count
          /\ cr.count + 1 - 1 = cr.count /\ NoLinefeed(cr.count + 1)
      BY <1>1, <2>1
    <3> QED BY <3>1 DEF NoLinefeed
  <2>2. CASE l # 0
    BY <1>2, <2>2
  <2> QED BY <2>1, <2>2
<1>5. cr' = [cr EXCEPT !.examined = e]
  OBVIOUS
<1> HIDE DEF e
<1>6. /\ cr' \in Readers /\ cr'.examined = e /\ cr'.count = cr.count /\ cr'.base = cr.base
      /\ cr'.buf = cr.buf /\ cr'.total = cr.total /\ cr'.eof = cr.eof /\ Out' = Out
  BY <1>1, <1>2, <1>5 DEF CrTypeOK, Readers, Out
<1>7. CrTypeOK' /\ BufferInv' /\ StreamInv' /\ ResultInv'
  BY <1>1, <1>2, <1>6 DEF CrTypeOK, BufferInv, StreamInv, ResultInv, Lost
<1>8. ASSUME NEW k \in 2 .. e PROVE ~EndsAt(Out + k)
  <2>1. CASE k < e
    <3>1. e \in cr.examined + 1 .. cr.count /\ k \in 1 .. e - 1 /\ Out + k >= 2
      BY <1>1, <1>2, <2>1
    <3> QED BY <1>1, <1>3, <3>1, NoEndBefore
  <2>2. CASE k = e
    <3>1. e \in 1 .. cr.count /\ e - 1 \in 1 .. cr.count /\ Out + k - 1 = Out + (e - 1)
      BY <1>1, <1>2, <2>2
    <3>2. Window[e] = text[Out + e] /\ Window[e - 1] = text[Out + (e - 1)]
      BY <1>1, <3>1, WindowIs DEF StreamInv
    <3>3. e > 1
      BY <1>2, <2>2
    <3>4. EndsAt(Out + e) <=> text[Out + e] = LF /\ text[Out + (e - 1)] = CR
      BY <1>1, <1>2, EndsAtSum
    <3> QED BY <1>4, <2>2, <3>2, <3>3, <3>4
  <2> QED BY <1>2, <2>1, <2>2
<1>9. LinesInv'
  <2>1. \A k : EndsAt(k)' <=> EndsAt(k)
    BY DEF EndsAt
  <2> QED BY <1>1, <1>6, <1>8, <2>1 DEF LinesInv
<1> QED BY <1>7, <1>9 DEF CrInv

LEMMA LookStep ==
  ASSUME CrInv, read_crlf_line, UNCHANGED <<kind, text>>
  PROVE  CrInv'
<1>1. /\ result = "none" /\ cr.examined # cr.count /\ CrTypeOK
  BY DEF read_crlf_line, InCall, CrInv
<1>2. cr.examined \in Nat /\ cr.count \in Nat
  BY <1>1, Numbers
<1>3. \/ Linefeed = 0 /\ \A k \in cr.examined + 1 .. cr.count : Window[k] # LF
      \/ /\ Linefeed \in cr.examined + 1 .. cr.count /\ Window[Linefeed] = LF
         /\ \A k \in cr.examined + 1 .. Linefeed - 1 : Window[k] # LF
  BY <1>1, LinefeedIs
<1>4. /\ Linefeed \in Nat
      /\ Linefeed = 0 => NoLinefeed(cr.count + 1)
      /\ Linefeed # 0 => /\ Linefeed \in cr.examined + 1 .. cr.count /\ Window[Linefeed] = LF
                         /\ NoLinefeed(Linefeed)
  BY <1>2, <1>3 DEF NoLinefeed
<1>5. CASE Linefeed > 1 /\ Window[Linefeed - 1] = CR
  <2>1. /\ cr.examined < Linefeed /\ Linefeed <= cr.count /\ Window[Linefeed] = LF
        /\ NoLinefeed(Linefeed)
    BY <1>2, <1>4, <1>5
  <2>2. CASE /\ cr' = [cr EXCEPT !.count = @ - Linefeed, !.base = @ + Linefeed, !.examined = 0]
             /\ handed' = [chars |-> handed.chars \o SubSeq(Window, 1, Linefeed),
                           ends |-> handed.ends \cup {Len(handed.chars) + Linefeed}]
             /\ result' = IF cr'.count # 0 \/ cr.eof THEN "MOREDATA" ELSE "SUCCESS"
             /\ UNCHANGED <<got, closed>>
    <3>1. cr' = [cr EXCEPT !.count = cr.count - Linefeed, !.base = cr.base + Linefeed,
                           !.examined = 0]
      BY <2>2
    <3> DEFINE line == SubSeq(Window, 1, Linefeed)
    <3>2. handed' = [chars |-> handed.chars \o line, ends |-> handed.ends \cup {Out + Linefeed}]
      BY <2>2 DEF Out
    <3>3. Window \in Seq(STRING) /\ Len(Window) = cr.count
      BY WindowIs DEF CrInv
    <3>4. line \in Seq(STRING) /\ Len(line) = Linefeed /\ Heads(line)
      BY <1>2, <1>4, <2>1, <3>3, PartIs DEF Heads
    <3> HIDE DEF line
    <3> QED BY <1>1, <1>4, <1>5, <2>1, <2>2, <3>1, <3>2, <3>4, LineStep
  <2>3. CASE result' = "SYSERR" /\ UNCHANGED <<cr, got, closed, handed>>
    <3>1. CrTypeOK' /\ BufferInv' /\ LinesInv' /\ StreamInv' /\ ResultInv'
      BY <1>1, <2>3 DEF CrInv, CrTypeOK, BufferInv, LinesInv, StreamInv, ResultInv, Out, EndsAt, Lost
    <3> QED BY <3>1 DEF CrInv
  <2> QED BY <1>5, <2>2, <2>3 DEF read_crlf_line
<1>6. CASE ~(Linefeed > 1 /\ Window[Linefeed - 1] = CR)
  <2>1. /\ cr' = [cr EXCEPT !.examined = IF Linefeed = 0 THEN cr.count ELSE Linefeed]
        /\ UNCHANGED <<result, got, closed, handed>>
    BY <1>6 DEF read_crlf_line
  <2> QED BY <1>1, <1>4, <1>6, <2>1, ExamineStep
<1> QED BY <1>5, <1>6

LEMMA CrInitInv == TextInit /\ CrInit => CrInv
<1> SUFFICES ASSUME TextInit, CrInit PROVE CrInv
  OBVIOUS
<1>1. PICK size \in Provided \cup {Grown(0)} : cr = setup_crlf_reader(size)
  BY DEF CrInit
<1>2. size \in Nat /\ <<>> \in Seq(STRING) /\ Len(<<>>) = 0
  BY CrAssumption, EmptySeq DEF Grown
<1>3. /\ cr \in Readers /\ cr.buf = <<>> /\ cr.base = 0 /\ cr.count = 0 /\ cr.examined = 0
      /\ cr.eof = FALSE /\ cr.total = size
  BY <1>1, <1>2 DEF setup_crlf_reader, Readers
<1>4. /\ result = "none" /\ got = 0 /\ closed = FALSE /\ handed = [chars |-> <<>>, ends |-> {}]
      /\ kind \in Kinds /\ text \in Seq(STRING)
  BY CrAssumption DEF CrInit, TextInit
<1>5. Out = 0
  BY <1>2, <1>4 DEF Out
<1>6. CrTypeOK
  <2>1. got \in 0 .. Len(text)
    BY <1>4
  <2>2. handed \in [chars : Seq(STRING), ends : SUBSET Nat]
    BY <1>2, <1>4
  <2> QED BY <1>3, <1>4, <2>1, <2>2 DEF CrTypeOK
<1>7. BufferInv /\ StreamInv /\ LinesInv /\ ResultInv
  BY <1>2, <1>3, <1>4, <1>5 DEF BufferInv, StreamInv, LinesInv, ResultInv
<1> QED BY <1>6, <1>7 DEF CrInv

LEMMA CrSpecInv == CrSpec => []CrInv
<1>1. ASSUME CrInv, [CrStep]_<<kind, text, crvars>> PROVE CrInv'
  <2>1. CASE CrNext /\ UNCHANGED <<kind, text>>
    <3>1. CASE Close \/ Call \/ ReadEof \/ LongLine
      BY <1>1, <2>1, <3>1, StayStep
    <3>2. CASE NoMemory \/ read_cr_data \/ read_crlf_line
      BY <1>1, <2>1, <3>2, NoMemoryStep, ReadStep, LookStep
    <3> QED BY <2>1, <3>1, <3>2 DEF CrNext
  <2>2. CASE ~closed /\ Write /\ UNCHANGED crvars
    BY <1>1, <2>2, WriteStep
  <2>3. CASE UNCHANGED <<kind, text, crvars>>
    BY <1>1, <2>3 DEF crvars, CrInv, CrTypeOK, BufferInv, StreamInv, LinesInv, ResultInv, Out,
                      EndsAt, Lost
  <2> QED BY <1>1, <2>1, <2>2, <2>3 DEF CrStep
<1>2. CrInv /\ [CrStep]_<<kind, text, crvars>> => CrInv'
  BY <1>1
<1> QED BY CrInitInv, <1>2, PTL DEF CrSpec

LEMMA CrlfOfWindow ==
  ASSUME CrInv
  PROVE  Crlf(SubSeq(Window, 1, cr.examined)) = {}
<1>1. /\ CrTypeOK /\ BufferInv /\ cr.examined \in Nat /\ cr.count \in Nat /\ Out \in Nat
      /\ cr.base \in Nat /\ cr.examined <= cr.count
  BY Numbers DEF CrInv, BufferInv
<1>2. /\ Window \in Seq(STRING) /\ Len(Window) = cr.count
      /\ \A k \in 1 .. cr.count : Window[k] = cr.buf[cr.base + k]
  BY <1>1, WindowIs
<1> DEFINE s == SubSeq(Window, 1, cr.examined)
<1>3. Len(s) = cr.examined /\ \A k \in 1 .. cr.examined : s[k] = Window[k]
  BY <1>1, <1>2, PartIs
<1> HIDE DEF s
<1>4. ASSUME NEW k \in 2 .. cr.examined, s[k] = LF, s[k - 1] = CR PROVE FALSE
  <2>1. /\ k \in 1 .. cr.count /\ k - 1 \in 1 .. cr.count /\ k - 1 \in 1 .. cr.examined
        /\ k \in 1 .. cr.examined /\ Out + (k - 1) = Out + k - 1
    BY <1>1
  <2>2. ~Lost
    <3>1. Lost => cr.count = 0
      BY <1>1, EmptySeq DEF Lost, BufferInv
    <3> QED BY <1>1, <2>1, <3>1
  <2>3. Window[k] = text[Out + k] /\ Window[k - 1] = text[Out + (k - 1)]
    BY <1>2, <2>1, <2>2 DEF CrInv, StreamInv
  <2>4. EndsAt(Out + k)
    <3>1. EndsAt(Out + k) <=> text[Out + k] = LF /\ text[Out + (k - 1)] = CR
      BY <1>1, <2>1, EndsAtSum
    <3>2. s[k] = Window[k] /\ s[k - 1] = Window[k - 1]
      BY <1>3, <2>1
    <3> QED BY <1>4, <2>3, <3>1, <3>2
  <2> QED BY <2>4 DEF CrInv, LinesInv
<1>5. Crlf(s) = {}
  BY <1>1, <1>3, <1>4 DEF Crlf
<1> QED BY <1>5 DEF s

\* However a stream is cut into reads, and for buffers of every size, read_crlf_line()
\* hands out the lines of the stream, misses none, and says the truth of the rest.
THEOREM StreamCorrect == CrSpec => []StreamBecomesLines
<1>1. ASSUME CrInv PROVE StreamBecomesLines
  <2>1. /\ CrTypeOK /\ BufferInv /\ StreamInv /\ LinesInv /\ ResultInv
        /\ cr.examined \in Nat /\ cr.count \in Nat /\ cr.base \in Nat
        /\ Out \in Nat /\ got \in Nat /\ got <= Len(text) /\ Len(text) \in Nat
    BY <1>1, Numbers DEF CrInv
  <2>2. /\ Window \in Seq(STRING) /\ Len(Window) = cr.count
        /\ \A k \in 1 .. cr.count : Window[k] = cr.buf[cr.base + k]
    BY <2>1, WindowIs
  <2>3. Crlf(SubSeq(Window, 1, cr.examined)) = {}
    BY <1>1, CrlfOfWindow
  <2>4. ASSUME ~Lost PROVE handed.chars \o Window = SubSeq(text, 1, got)
    <3>1. handed.chars \in Seq(STRING) /\ Len(handed.chars) = Out /\ text \in Seq(STRING)
      BY <2>1, Numbers DEF Out, CrTypeOK
    <3>0. Len(handed.chars) + Len(Window) = got
      BY <2>1, <2>2, <2>4, <3>1 DEF StreamInv
    <3>2. /\ handed.chars \o Window \in Seq(STRING) /\ Len(handed.chars \o Window) = got
          /\ \A k \in 1 .. got : (handed.chars \o Window)[k] =
               IF k <= Out THEN handed.chars[k] ELSE Window[k - Out]
      BY <2>2, <3>0, <3>1, ConcatProperties
    <3>3. /\ SubSeq(text, 1, got) \in Seq(STRING) /\ Len(SubSeq(text, 1, got)) = got
          /\ \A k \in 1 .. got : SubSeq(text, 1, got)[k] = text[k]
      BY <2>1, <3>1, PartIs
    <3>4. ASSUME NEW k \in 1 .. got PROVE (handed.chars \o Window)[k] = text[k]
      <4>0. k \in Nat /\ (k <= Out \/ k > Out)
        BY <2>1
      <4>1. CASE k <= Out
        BY <2>1, <3>2, <4>1 DEF StreamInv
      <4>2. CASE k > Out
        <5>1. k - Out \in 1 .. cr.count /\ Out + (k - Out) = k
          BY <2>1, <2>4, <4>2 DEF StreamInv
        <5>2. (handed.chars \o Window)[k] = Window[k - Out]
          BY <2>1, <3>2, <4>2
        <5>3. Window[k - Out] = text[Out + (k - Out)]
          BY <2>1, <2>2, <2>4, <5>1 DEF StreamInv
        <5> QED BY <5>1, <5>2, <5>3
      <4> QED BY <4>0, <4>1, <4>2
    <3> QED BY <3>2, <3>3, <3>4, SeqEqual
  <2>5. Crlf(handed.chars) = handed.ends
    <3>1. Len(handed.chars) = Out
      BY DEF Out
    <3>2. ASSUME NEW k \in 2 .. Out
          PROVE  k \in handed.ends <=> handed.chars[k] = LF /\ handed.chars[k - 1] = CR
      <4>1. k \in 1 .. Out /\ k - 1 \in 1 .. Out
        BY <2>1
      <4> QED BY <2>1, <4>1 DEF StreamInv, LinesInv, EndsAt
    <3> QED BY <2>1, <3>1, <3>2 DEF Crlf, LinesInv
  <2>6. LinesAreTheStream
    BY <2>1, <2>3, <2>4, <2>5 DEF LinesAreTheStream, BufferInv, Lost
  <2>7. cr.examined = cr.count => Crlf(Window) = {}
    BY <2>2, <2>3, SubSeqFull
  <2>8. Window = <<>> <=> cr.count = 0
    BY <2>2, EmptySeq
  <2>9. ResultsAreTrue
    BY <2>1, <2>2, <2>7, <2>8 DEF ResultsAreTrue, ResultInv
  <2> QED BY <2>6, <2>9 DEF StreamBecomesLines
<1>2. CrInv => StreamBecomesLines
  BY <1>1
<1> QED BY CrSpecInv, <1>2, PTL

-------------------------------------------------------------------------------
(* The log file of a thread: LogFile.                                       *)

LogTypeOK ==
  /\ lfile \in {"open", "NULL", "freed"}
  /\ disk \in Seq(Nat) /\ buffered \in Seq(Nat) /\ lap \in Seq(Nat)
  /\ pos \in Nat /\ lfile_offset \in Nat /\ lineswritten \in Nat

\* What was written since the file began at its start is in the file up to where the
\* stream writes, and in the stream's buffer.
IsLap(l, d, p, b) ==
  /\ p <= Len(d) /\ Len(l) = p + Len(b)
  /\ \A k \in 1 .. p : l[k] = d[k]
  /\ \A k \in 1 .. Len(b) : l[p + k] = b[k]

LapInv == lfile = "open" => /\ IsLap(lap, disk, pos, buffered)
                            /\ lfile_offset = Len(lap) /\ Len(lap) <= LOGFILE_MAX_SIZE

SizeInv == (disk = <<>> /\ lap = <<>>) \/ \E m \in Lengths : Len(disk) <= LOGFILE_MAX_SIZE + m

LogInv == LogTypeOK /\ LapInv /\ SizeInv /\ (lfile = "freed" => disk = lap)

LEMMA SequenceOf ==
  ASSUME NEW S, NEW n \in Nat, NEW s \in [1 .. n -> S]
  PROVE  s \in Seq(S) /\ Len(s) = n
OBVIOUS

LEMMA OverwrittenIs ==
  ASSUME NEW d \in Seq(Nat), NEW p \in Nat, NEW data \in Seq(Nat), p <= Len(d)
  PROVE  /\ Overwritten(d, p, data) \in Seq(Nat)
         /\ Len(Overwritten(d, p, data)) = Longer(Len(d), p + Len(data))
         /\ \A k \in 1 .. p : Overwritten(d, p, data)[k] = d[k]
         /\ \A k \in 1 .. Len(data) : Overwritten(d, p, data)[p + k] = data[k]
<1> DEFINE n == Longer(Len(d), p + Len(data))
           s == Overwritten(d, p, data)
<1>1. n \in Nat /\ Len(d) <= n /\ p + Len(data) <= n
  BY DEF Longer
<1>2. s = [k \in 1 .. n |-> IF k > p /\ k <= p + Len(data) THEN data[k - p] ELSE d[k]]
  BY DEF Overwritten
<1> HIDE DEF n, s
<1>3. ASSUME NEW k \in 1 .. n, ~(k > p /\ k <= p + Len(data)) PROVE k \in 1 .. Len(d)
  BY <1>1, <1>3 DEF n, Longer
<1>4. s \in [1 .. n -> Nat]
  BY <1>1, <1>2, <1>3
<1>5. s \in Seq(Nat) /\ Len(s) = n
  BY <1>1, <1>4, SequenceOf
<1>6. \A k \in 1 .. p : s[k] = d[k]
  BY <1>1, <1>2
<1>7. \A k \in 1 .. Len(data) : s[p + k] = data[k]
  BY <1>1, <1>2
<1> QED BY <1>5, <1>6, <1>7 DEF s, n

LEMMA TruncatedIs ==
  ASSUME NEW d \in Seq(Nat), NEW length \in Nat
  PROVE  /\ Truncated(d, length) \in Seq(Nat)
         /\ Len(Truncated(d, length)) = length
         /\ \A k \in 1 .. length : k <= Len(d) => Truncated(d, length)[k] = d[k]
<1>1. Truncated(d, length) \in [1 .. length -> Nat]
  BY DEF Truncated
<1>2. Truncated(d, length) \in Seq(Nat) /\ Len(Truncated(d, length)) = length
  BY <1>1, SequenceOf
<1> QED BY <1>2 DEF Truncated

LEMMA MessageIs ==
  ASSUME LogTypeOK, NEW n \in Nat
  PROVE  Message(n) \in Seq(Nat) /\ Len(Message(n)) = n
<1>1. Message(n) \in [1 .. n -> Nat]
  BY DEF Message, LogTypeOK
<1> QED BY <1>1, SequenceOf

\* A message behind the lap, in the buffer or in the file
LEMMA LapGrows ==
  ASSUME NEW l \in Seq(Nat), NEW d \in Seq(Nat), NEW p \in Nat, NEW b \in Seq(Nat),
         NEW msg \in Seq(Nat), IsLap(l, d, p, b)
  PROVE  /\ IsLap(l \o msg, d, p, b \o msg)
         /\ IsLap(l \o msg, Overwritten(d, p, b \o msg), p + Len(b \o msg), <<>>)
<1>1. /\ l \o msg \in Seq(Nat) /\ Len(l \o msg) = Len(l) + Len(msg)
      /\ \A k \in 1 .. Len(l) + Len(msg) :
           (l \o msg)[k] = IF k <= Len(l) THEN l[k] ELSE msg[k - Len(l)]
  BY ConcatProperties
<1>2. /\ b \o msg \in Seq(Nat) /\ Len(b \o msg) = Len(b) + Len(msg)
      /\ \A k \in 1 .. Len(b) + Len(msg) :
           (b \o msg)[k] = IF k <= Len(b) THEN b[k] ELSE msg[k - Len(b)]
  BY ConcatProperties
<1>3. Len(l) \in Nat /\ Len(b) \in Nat /\ Len(msg) \in Nat /\ Len(d) \in Nat
  OBVIOUS
<1>4. IsLap(l \o msg, d, p, b \o msg)
  BY <1>1, <1>2, <1>3, SMTT(30) DEF IsLap
<1> DEFINE all == b \o msg
           o == Overwritten(d, p, all)
<1>5. /\ o \in Seq(Nat) /\ Len(o) = Longer(Len(d), p + Len(all))
      /\ \A k \in 1 .. p : o[k] = d[k]
      /\ \A k \in 1 .. Len(all) : o[p + k] = all[k]
  BY <1>2, OverwrittenIs DEF IsLap
<1>6. Len(l \o msg) = p + Len(all) /\ p + Len(all) <= Len(o) /\ Len(all) \in Nat
  BY <1>2, <1>4, <1>5 DEF IsLap, Longer
<1>7. ASSUME NEW k \in 1 .. p + Len(all) PROVE (l \o msg)[k] = o[k]
  <2>1. CASE k <= p
    BY <1>3, <1>4, <1>5, <1>6, <2>1 DEF IsLap
  <2>2. CASE k > p
    <3>1. k - p \in 1 .. Len(all) /\ p + (k - p) = k
      BY <1>6, <2>2
    <3>2. (l \o msg)[p + (k - p)] = all[k - p]
      BY <1>4, <3>1, Zenon DEF IsLap
    <3>3. o[p + (k - p)] = all[k - p]
      BY <1>5, <3>1, Zenon
    <3> QED BY <3>1, <3>2, <3>3, Zenon
  <2> QED BY <1>6, <2>1, <2>2
<1> HIDE DEF all, o
<1>8. IsLap(l \o msg, o, p + Len(all), <<>>)
  BY <1>6, <1>7, EmptySeq DEF IsLap
<1> QED BY <1>4, <1>8 DEF all, o

LEMMA AppendedStep ==
  ASSUME LogInv, lfile = "open", NEW n \in Lengths, NEW ends \in BOOLEAN,
         lfile_offset + n <= LOGFILE_MAX_SIZE, Appended(n, ends), lineswritten' \in Nat
  PROVE  LogInv'
<1> DEFINE msg == Message(n)
           all == buffered \o msg
<1>1. n \in Nat /\ LOGFILE_MAX_SIZE \in Nat
  BY LogAssumption
<1>2. msg \in Seq(Nat) /\ Len(msg) = n
  BY <1>1, MessageIs DEF LogInv
<1>3. /\ all \in Seq(Nat) /\ lap \o msg \in Seq(Nat) /\ Len(all) = Len(buffered) + n
      /\ Len(lap \o msg) = Len(lap) + n
  BY <1>2, ConcatProperties DEF LogInv, LogTypeOK
<1>4. /\ lap' = lap \o msg /\ lfile' = "open" /\ lfile_offset' = lfile_offset + n
      /\ IF ends THEN disk' = Overwritten(disk, pos, all) /\ pos' = pos + Len(all) /\ buffered' = <<>>
         ELSE disk' = disk /\ pos' = pos /\ buffered' = all
  BY DEF Appended
<1>5. IsLap(lap, disk, pos, buffered) /\ lfile_offset = Len(lap) /\ pos <= Len(disk)
  BY DEF LogInv, LapInv, IsLap
<1>6. IsLap(lap', disk', pos', buffered')
  BY <1>2, <1>4, <1>5, LapGrows DEF LogInv, LogTypeOK
<1>7. lfile_offset' = Len(lap') /\ Len(lap') <= LOGFILE_MAX_SIZE
  BY <1>3, <1>4, <1>5
<1> HIDE DEF msg, all
<1>8. LogTypeOK'
  <2>1. pos + Len(all) \in Nat /\ lfile_offset + n \in Nat /\ disk \in Seq(Nat) /\ pos \in Nat
    BY <1>1, <1>3 DEF LogInv, LogTypeOK
  <2>2. Overwritten(disk, pos, all) \in Seq(Nat)
    BY <1>3, <1>5, <2>1, OverwrittenIs
  <2> QED BY <1>3, <1>4, <2>1, <2>2, EmptySeq DEF LogInv, LogTypeOK
<1>9. SizeInv'
  <2>1. CASE ~ends
    <3>1. CASE disk = <<>>
      <4>1. Len(disk') <= LOGFILE_MAX_SIZE + n
        BY <1>1, <1>4, <2>1, <3>1, EmptySeq
      <4> QED BY <4>1 DEF SizeInv
    <3>2. CASE disk # <<>>
      BY <1>4, <2>1, <3>2 DEF LogInv, SizeInv
    <3> QED BY <3>1, <3>2
  <2>2. CASE ends
    <3>1. Len(disk') = Longer(Len(disk), pos + Len(all))
      <4>1. disk \in Seq(Nat) /\ pos \in Nat
        BY DEF LogInv, LogTypeOK
      <4>2. Len(Overwritten(disk, pos, all)) = Longer(Len(disk), pos + Len(all))
        BY <1>3, <1>5, <4>1, OverwrittenIs
      <4> QED BY <1>4, <2>2, <4>2
    <3>2. pos + Len(all) = Len(lap') /\ Len(lap') <= LOGFILE_MAX_SIZE + n
      BY <1>1, <1>3, <1>4, <1>5, <1>7 DEF IsLap, LogInv, LogTypeOK
    <3>3. disk = <<>> => Len(disk) = 0
      OBVIOUS
    <3> QED BY <1>1, <3>1, <3>2, <3>3 DEF LogInv, SizeInv, Longer, LogTypeOK
  <2> QED BY <2>1, <2>2
<1> QED BY <1>4, <1>6, <1>7, <1>8, <1>9 DEF LogInv, LapInv

LEMMA WrappedStep ==
  ASSUME LogInv, lfile = "open", NEW n \in Lengths, NEW ends \in BOOLEAN,
         lfile_offset + n > LOGFILE_MAX_SIZE, Wrapped(n, ends), lineswritten' \in Nat
  PROVE  LogInv'
<1> DEFINE all == buffered \o Message(n)
           flushed == IF ends THEN Overwritten(disk, pos, all) ELSE disk
           cut == Truncated(flushed, LOGFILE_MAX_SIZE)
<1>1. n \in Nat /\ LOGFILE_MAX_SIZE \in Nat
  BY LogAssumption
<1>2. all \in Seq(Nat) /\ Len(all) = Len(buffered) + n
  BY <1>1, MessageIs, ConcatProperties DEF LogInv, LogTypeOK
<1>3. /\ pos <= Len(disk) /\ pos + Len(buffered) <= LOGFILE_MAX_SIZE
  BY DEF LogInv, LapInv, IsLap
<1>4. disk \in Seq(Nat) /\ pos \in Nat /\ Len(buffered) \in Nat
  BY DEF LogInv, LogTypeOK
<1>5. flushed \in Seq(Nat)
  BY <1>2, <1>3, <1>4, OverwrittenIs
<1>6. cut \in Seq(Nat) /\ Len(cut) = LOGFILE_MAX_SIZE
  BY <1>1, <1>5, TruncatedIs
<1>7. /\ disk' = IF ends THEN cut ELSE Overwritten(cut, pos, all)
      /\ pos' = 0 /\ buffered' = <<>> /\ lap' = <<>> /\ lfile_offset' = 0 /\ lfile' = "open"
  BY DEF Wrapped
<1> HIDE DEF all, flushed, cut
<1>8. pos <= Len(cut) /\ Len(cut) <= LOGFILE_MAX_SIZE + n /\ pos + Len(all) <= LOGFILE_MAX_SIZE + n
  BY <1>1, <1>2, <1>3, <1>4, <1>6
<1>9. disk' \in Seq(Nat) /\ Len(disk') <= LOGFILE_MAX_SIZE + n
  BY <1>2, <1>4, <1>6, <1>7, <1>8, OverwrittenIs DEF Longer
<1>10. LogTypeOK' /\ SizeInv'
  BY <1>7, <1>9 DEF LogTypeOK, SizeInv
<1>11. LapInv'
  BY <1>1, <1>7, <1>9 DEF LapInv, IsLap
<1> QED BY <1>7, <1>10, <1>11 DEF LogInv

LEMMA FreeLogStep ==
  ASSUME LogInv, free_logctx
  PROVE  LogInv'
<1> DEFINE last == <<lineswritten + 1>>
           all == buffered \o last
           o == Overwritten(disk, pos, all)
<1>1. /\ LOGFILE_MAX_SIZE \in Nat /\ LogTypeOK /\ lfile = "open"
      /\ IsLap(lap, disk, pos, buffered) /\ lfile_offset = Len(lap)
      /\ Len(lap) <= LOGFILE_MAX_SIZE /\ Len(lap) \in Nat
  BY LogAssumption DEF LogInv, LapInv, free_logctx, LogTypeOK
<1>2. last \in Seq(Nat) /\ Len(last) = 1
  BY <1>1 DEF LogTypeOK
<1>3. /\ all \in Seq(Nat) /\ Len(all) = Len(buffered) + 1
      /\ \A k \in 1 .. Len(buffered) : all[k] = buffered[k]
  BY <1>1, <1>2, ConcatProperties DEF LogTypeOK
<1>4. /\ o \in Seq(Nat) /\ Len(o) = Longer(Len(disk), pos + Len(all))
      /\ \A k \in 1 .. pos : o[k] = disk[k]
      /\ \A k \in 1 .. Len(all) : o[pos + k] = all[k]
  <2>1. disk \in Seq(Nat) /\ pos \in Nat /\ pos <= Len(disk)
    BY <1>1 DEF LogTypeOK, IsLap
  <2> HIDE DEF all
  <2> QED BY <1>3, <2>1, OverwrittenIs
<1>5. /\ disk' = Truncated(o, Len(lap)) /\ buffered' = <<>> /\ pos' = pos + Len(buffered)
      /\ lap' = lap /\ lfile' = "freed" /\ lfile_offset' = lfile_offset
      /\ lineswritten' = lineswritten
  BY <1>1 DEF free_logctx
<1> HIDE DEF last, all, o
<1>6. /\ disk' \in Seq(Nat) /\ Len(disk') = Len(lap)
      /\ \A k \in 1 .. Len(lap) : k <= Len(o) => disk'[k] = o[k]
  BY <1>1, <1>4, <1>5, TruncatedIs
<1>7. Len(lap) <= Len(o)
  BY <1>1, <1>3, <1>4 DEF IsLap, Longer, LogTypeOK
<1>8. ASSUME NEW k \in 1 .. Len(lap) PROVE disk'[k] = lap[k]
  <2>1. disk'[k] = o[k]
    BY <1>1, <1>4, <1>6, <1>7, SMTT(30)
  <2>2. CASE k <= pos
    BY <1>1, <1>4, <2>1, <2>2, SMTT(30) DEF IsLap, LogTypeOK
  <2>3. CASE k > pos
    <3>1. k - pos \in 1 .. Len(buffered) /\ k - pos \in 1 .. Len(all) /\ pos + (k - pos) = k
      BY <1>1, <1>3, <2>3, SMTT(30) DEF IsLap, LogTypeOK
    <3> QED BY <1>1, <1>3, <1>4, <2>1, <3>1, SMTT(30) DEF IsLap
  <2> QED BY <1>1, <2>2, <2>3 DEF LogTypeOK
<1>9. disk' = lap'
  BY <1>1, <1>5, <1>6, <1>8, SeqEqual DEF LogTypeOK
<1>10. LogTypeOK'
  BY <1>1, <1>5, <1>6 DEF LogTypeOK
<1>11. SizeInv'
  <2>1. CASE lap = <<>>
    <3>1. Len(lap) = 0
      BY <2>1
    <3>2. disk' = <<>>
      BY <1>6, <3>1, EmptySeq
    <3> QED BY <1>5, <2>1, <3>2 DEF SizeInv
  <2>2. CASE lap # <<>>
    <3>1. PICK m \in Lengths : TRUE
      BY <2>2 DEF LogInv, SizeInv
    <3>2. m \in Nat
      BY <3>1, LogAssumption
    <3>3. Len(disk') <= LOGFILE_MAX_SIZE + m
      BY <1>1, <1>6, <3>2
    <3> QED BY <3>3 DEF SizeInv
  <2> QED BY <2>1, <2>2
<1> QED BY <1>5, <1>9, <1>10, <1>11 DEF LogInv, LapInv

LEMMA LogInitInv == LogInit => LogInv
<1> SUFFICES ASSUME LogInit PROVE LogInv
  OBVIOUS
<1>1. <<>> \in Seq(Nat) /\ Len(<<>>) = 0 /\ LOGFILE_MAX_SIZE \in Nat
  BY EmptySeq, LogAssumption
<1>2. LapInv
  BY <1>1 DEF LogInit, LapInv, IsLap
<1> QED BY <1>1, <1>2 DEF LogInit, LogInv, LogTypeOK, SizeInv

LEMMA LogSpecInv == LogSpec => []LogInv
<1>1. ASSUME LogInv, [LogNext]_logvars PROVE LogInv'
  <2>1. CASE free_logctx
    BY <1>1, <2>1, FreeLogStep
  <2>2. ASSUME NEW n \in Lengths, NEW ends \in BOOLEAN, inner_vflog(n, ends)
        PROVE  LogInv'
    <3>1. lfile = "open" /\ lineswritten' \in Nat
      BY <1>1, <2>2 DEF inner_vflog, LogInv, LogTypeOK
    <3>2. CASE Loses
      BY <1>1, <3>1, <3>2 DEF Loses, LogInv, LogTypeOK, LapInv, SizeInv
    <3>3. CASE lfile_offset + n <= LOGFILE_MAX_SIZE /\ Appended(n, ends)
      BY <1>1, <3>1, <3>3, AppendedStep
    <3>4. CASE lfile_offset + n > LOGFILE_MAX_SIZE /\ Wrapped(n, ends)
      BY <1>1, <3>1, <3>4, WrappedStep
    <3> QED BY <2>2, <3>2, <3>3, <3>4 DEF inner_vflog
  <2>3. CASE UNCHANGED logvars
    BY <1>1, <2>3 DEF logvars, LogInv, LogTypeOK, LapInv, SizeInv
  <2> QED BY <1>1, <2>1, <2>2, <2>3 DEF LogNext
<1>2. LogInv /\ [LogNext]_logvars => LogInv'
  BY <1>1
<1> QED BY LogInitInv, <1>2, PTL DEF LogSpec

\* A log file of any size holds the messages since it last began at its start, in order
\* and complete, outgrows its size by a message at most, and has nothing else once the
\* thread has ended.
THEOREM LogCorrect == LogSpec => []LogKeepsLatest
<1>1. ASSUME LogInv PROVE LogKeepsLatest
  <2>1. /\ disk \in Seq(Nat) /\ buffered \in Seq(Nat) /\ lap \in Seq(Nat) /\ pos \in Nat
        /\ Len(disk) \in Nat /\ Len(lap) \in Nat /\ LOGFILE_MAX_SIZE \in Nat
    BY <1>1, LogAssumption DEF LogInv, LogTypeOK
  <2>2. ASSUME NEW n \in DOMAIN disk PROVE \E m \in Lengths : n <= LOGFILE_MAX_SIZE + m
    <3>1. n \in 1 .. Len(disk)
      BY <2>1
    <3>2. disk # <<>>
      BY <2>1, <3>1, EmptySeq
    <3>3. PICK m \in Lengths : Len(disk) <= LOGFILE_MAX_SIZE + m
      BY <1>1, <3>2 DEF LogInv, SizeInv
    <3>4. m \in Nat
      BY LogAssumption
    <3>5. n <= LOGFILE_MAX_SIZE + m
      BY <2>1, <3>1, <3>3, <3>4
    <3> QED BY <3>5
  <2>3. ASSUME lfile = "open"
        PROVE  lfile_offset = Len(lap) /\ SubSeq(disk, 1, pos) \o buffered = lap
    <3> DEFINE begin == SubSeq(disk, 1, pos)
    <3>1. IsLap(lap, disk, pos, buffered) /\ lfile_offset = Len(lap)
      BY <1>1, <2>3 DEF LogInv, LapInv
    <3>2. \A k \in 1 .. pos : k \in 1 .. Len(disk) /\ disk[k] \in Nat
      BY <2>1, <3>1, ElementOfSeq DEF IsLap
    <3>3. /\ begin \in Seq(Nat) /\ Len(begin) = pos
          /\ \A k \in 1 .. pos : begin[k] = disk[k]
      <4>1. /\ begin \in Seq(Nat) /\ Len(begin) = IF 1 <= pos THEN pos - 1 + 1 ELSE 0
            /\ \A k \in 1 .. pos - 1 + 1 : begin[k] = disk[1 + k - 1]
        BY <2>1, <3>2, SubSeqProperties
      <4> HIDE DEF begin
      <4>2. pos - 1 + 1 = pos /\ Len(begin) = pos
        BY <2>1, <4>1
      <4>3. \A k \in 1 .. pos : 1 + k - 1 = k
        BY <2>1
      <4> QED BY <4>1, <4>2, <4>3
    <3> HIDE DEF begin
    <3>4. /\ begin \o buffered \in Seq(Nat) /\ Len(begin \o buffered) = Len(lap)
          /\ \A k \in 1 .. Len(lap) :
               (begin \o buffered)[k] = IF k <= pos THEN begin[k] ELSE buffered[k - pos]
      BY <2>1, <3>1, <3>3, ConcatProperties, SMTT(30) DEF IsLap
    <3>5. ASSUME NEW k \in 1 .. Len(lap) PROVE (begin \o buffered)[k] = lap[k]
      <4>0. k \in Nat /\ (k <= pos \/ k > pos)
        BY <2>1
      <4>1. CASE k <= pos
        <5>1. k \in 1 .. pos
          BY <4>0, <4>1
        <5>2. begin[k] = disk[k] /\ lap[k] = disk[k]
          BY <3>1, <3>3, <5>1 DEF IsLap
        <5> QED BY <3>4, <4>1, <5>2
      <4>2. CASE k > pos
        <5>1. k - pos \in 1 .. Len(buffered) /\ pos + (k - pos) = k
          BY <2>1, <3>1, <4>2 DEF IsLap
        <5>2. (begin \o buffered)[k] = buffered[k - pos]
          <6>1. ~(k <= pos)
            BY <2>1, <4>0, <4>2
          <6> QED BY <3>4, <6>1, Zenon
        <5>3. lap[pos + (k - pos)] = buffered[k - pos]
          BY <3>1, <5>1 DEF IsLap
        <5> QED BY <5>1, <5>2, <5>3
      <4> QED BY <4>0, <4>1, <4>2
    <3>6. begin \o buffered = lap
      BY <2>1, <3>4, <3>5, SeqEqual
    <3> QED BY <3>1, <3>6 DEF begin
  <2> QED BY <1>1, <2>2, <2>3 DEF LogInv, LogKeepsLatest
<1>2. LogInv => LogKeepsLatest
  BY <1>1
<1> QED BY LogSpecInv, <1>2, PTL

-------------------------------------------------------------------------------
(* The accounts of memory: MemLimit.                                        *)

MemTypeOK ==
  /\ allocs_used \in Int /\ poisoned_idx \in Int /\ poison \in Int /\ served \in Int
  /\ pallocs \in Int
  /\ heap \subseteq Objects /\ maps \subseteq Objects
  /\ remapping \in [Threads -> {"no", "map", "failed", "undo"}]

\* An object is released by the function that belongs to it
ObjectsInv == heap \cap maps = {} /\ IsFiniteSet(heap \cup maps)

BalanceInv == IsFiniteSet(Uncounted) /\ AccountsBalance

\* A poison is counted down to 0 and stays there
PoisonInv == poison >= 0 => poisoned_idx >= 0 /\ served + poisoned_idx <= poison + pallocs

MemInv == MemTypeOK /\ ObjectsInv /\ BalanceInv /\ PoisonInv

-----------------------------------------------------------------------------
(* Counting.                                                               *)

LEMMA SizeIsNumber ==
  ASSUME NEW S, IsFiniteSet(S)
  PROVE  Cardinality(S) \in Int
<1>1. Cardinality(S) \in Nat
  BY FS_CardinalityType
<1> QED BY <1>1

LEMMA OneMore ==
  ASSUME NEW S, IsFiniteSet(S), NEW x, x \notin S
  PROVE  IsFiniteSet(S \cup {x}) /\ Cardinality(S \cup {x}) = Cardinality(S) + 1
BY FS_AddElement

LEMMA OneLess ==
  ASSUME NEW S, IsFiniteSet(S), NEW x \in S
  PROVE  IsFiniteSet(S \ {x}) /\ Cardinality(S \ {x}) = Cardinality(S) - 1
BY FS_RemoveElement

\* There is room for another object
LEMMA FreshObject ==
  ASSUME MemTypeOK, Room
  PROVE  Fresh \in Objects /\ Fresh \notin heap \cup maps
<1>1. \E o \in Objects : o \notin heap \cup maps
  BY DEF MemTypeOK, Room
<1> QED BY <1>1 DEF Fresh

-----------------------------------------------------------------------------
(* What the accounts are when an object comes, goes or does neither.       *)

\* The poison allows for what is served
LEMMA PoisonKeeps ==
  ASSUME MemTypeOK, PoisonInv, NEW n \in {0, 1}, poison' = poison,
         \/ Granted /\ served' = served + n /\ pallocs' = pallocs
         \/ poisoned_idx' = poisoned_idx /\ served' = served + n /\ pallocs' = pallocs + n
  PROVE  /\ PoisonInv' /\ poisoned_idx' \in Int /\ served' \in Int /\ poison' \in Int
         /\ pallocs' \in Int
<1> USE DEF MemTypeOK
<1>n. n \in Int /\ n <= 1
  OBVIOUS
<1>1. CASE Granted /\ served' = served + n /\ pallocs' = pallocs
  <2>1. poisoned_idx' = IF poisoned_idx > 0 THEN poisoned_idx - 1 ELSE poisoned_idx
    BY <1>1 DEF Granted, check_alloc_req
  <2>2. poisoned_idx # 0
    BY <1>1 DEF Granted
  <2> QED BY <1>1, <1>n, <2>1, <2>2 DEF PoisonInv
<1>2. CASE poisoned_idx' = poisoned_idx /\ served' = served + n /\ pallocs' = pallocs + n
  BY <1>n, <1>2 DEF PoisonInv
<1> QED BY <1>1, <1>2

\* The same, when no request has its memory
LEMMA PoisonStays ==
  ASSUME MemTypeOK, PoisonInv, UNCHANGED <<poison, served, pallocs>>,
         Granted \/ poisoned_idx' = poisoned_idx
  PROVE  /\ PoisonInv' /\ poisoned_idx' \in Int /\ served' \in Int /\ poison' \in Int
         /\ pallocs' \in Int
<1>1. served' = served + 0 /\ pallocs' = pallocs + 0 /\ pallocs' = pallocs
  BY DEF MemTypeOK
<1> QED BY <1>1, PoisonKeeps

LEMMA ObjectComes ==
  ASSUME MemInv, Room,
         \/ heap' = heap \cup {Fresh} /\ maps' = maps
         \/ maps' = maps \cup {Fresh} /\ heap' = heap,
         allocs_used' \in Int, poisoned_idx' \in Int, poison' \in Int, served' \in Int,
         pallocs' \in Int,
         remapping' \in [Threads -> {"no", "map", "failed", "undo"}],
         IsFiniteSet(Uncounted'), PoisonInv',
         allocs_used' = allocs_used + 1 + (Cardinality(Uncounted') - Cardinality(Uncounted))
  PROVE  MemInv'
<1> USE DEF MemInv, MemTypeOK
<1>1. Fresh \in Objects /\ Fresh \notin heap \cup maps
  BY FreshObject
<1>2. heap' \cup maps' = (heap \cup maps) \cup {Fresh}
  OBVIOUS
<1>3. /\ IsFiniteSet(heap' \cup maps')
      /\ Cardinality(heap' \cup maps') = Cardinality(heap \cup maps) + 1
  BY <1>1, <1>2, OneMore DEF ObjectsInv
<1>4. MemTypeOK'
  BY <1>1
<1>5. ObjectsInv'
  BY <1>1, <1>3 DEF ObjectsInv
<1>6. /\ Cardinality(heap \cup maps) \in Int /\ Cardinality(heap' \cup maps') \in Int
      /\ Cardinality(Uncounted) \in Int /\ Cardinality(Uncounted') \in Int
  BY <1>3, SizeIsNumber DEF ObjectsInv, BalanceInv
<1>7. BalanceInv'
  <2>1. allocs_used = Cardinality(heap \cup maps) + Cardinality(Uncounted)
    BY DEF BalanceInv, AccountsBalance
  <2> DEFINE held == Cardinality(heap \cup maps)
  <2>2. /\ held \in Int /\ Cardinality(heap' \cup maps') = held + 1
        /\ allocs_used = held + Cardinality(Uncounted)
    BY <1>3, <1>6, <2>1
  <2> HIDE DEF held
  <2>3. allocs_used' = Cardinality(heap' \cup maps') + Cardinality(Uncounted')
    BY <1>6, <2>2
  <2> QED BY <2>3 DEF BalanceInv, AccountsBalance
<1> QED BY <1>4, <1>5, <1>7

LEMMA ObjectGoes ==
  ASSUME MemInv, NEW o \in heap \cup maps,
         heap' = heap \ {o}, maps' = maps \ {o}, allocs_used' = allocs_used - 1,
         UNCHANGED <<poisoned_idx, poison, served, pallocs, remapping>>
  PROVE  MemInv'
<1> USE DEF MemInv, MemTypeOK
<1>1. heap' \cup maps' = (heap \cup maps) \ {o}
  OBVIOUS
<1>2. /\ IsFiniteSet(heap' \cup maps')
      /\ Cardinality(heap' \cup maps') = Cardinality(heap \cup maps) - 1
  BY <1>1, OneLess DEF ObjectsInv
<1>3. Uncounted' = Uncounted
  BY DEF Uncounted
<1>4. /\ Cardinality(heap \cup maps) \in Int /\ Cardinality(heap' \cup maps') \in Int
      /\ Cardinality(Uncounted) \in Int
  BY <1>2, SizeIsNumber DEF ObjectsInv, BalanceInv
<1>5. BalanceInv'
  BY <1>2, <1>3, <1>4 DEF BalanceInv, AccountsBalance
<1>6. ObjectsInv' /\ PoisonInv'
  BY <1>2 DEF ObjectsInv, PoisonInv
<1> QED BY <1>5, <1>6

LEMMA ObjectsStay ==
  ASSUME MemInv, UNCHANGED <<heap, maps>>,
         allocs_used' \in Int, poisoned_idx' \in Int, poison' \in Int, served' \in Int,
         pallocs' \in Int,
         remapping' \in [Threads -> {"no", "map", "failed", "undo"}],
         IsFiniteSet(Uncounted'), PoisonInv',
         allocs_used' = allocs_used + (Cardinality(Uncounted') - Cardinality(Uncounted))
  PROVE  MemInv'
<1> USE DEF MemInv, MemTypeOK
<1>1. /\ Cardinality(heap \cup maps) \in Int
      /\ Cardinality(Uncounted) \in Int /\ Cardinality(Uncounted') \in Int
  BY SizeIsNumber DEF ObjectsInv, BalanceInv
<1>2. BalanceInv'
  BY <1>1 DEF BalanceInv, AccountsBalance
<1> QED BY <1>2 DEF ObjectsInv

\* Who is remapping and who is not
LEMMA UncountedKeeps ==
  ASSUME MemInv, UNCHANGED remapping
  PROVE  /\ IsFiniteSet(Uncounted') /\ Cardinality(Uncounted') = Cardinality(Uncounted)
         /\ Cardinality(Uncounted) \in Int
<1>1. Uncounted' = Uncounted
  BY DEF Uncounted
<1> QED BY <1>1, SizeIsNumber DEF MemInv, BalanceInv

LEMMA UncountedMoves ==
  ASSUME MemInv, NEW t \in Threads, NEW l \in {"no", "map", "failed", "undo"},
         remapping' = [remapping EXCEPT ![t] = l]
  PROVE  /\ IsFiniteSet(Uncounted') /\ Cardinality(Uncounted) \in Int
         /\ remapping' \in [Threads -> {"no", "map", "failed", "undo"}]
         /\ Cardinality(Uncounted') =
              CASE remapping[t] = "no" /\ l # "no" -> Cardinality(Uncounted) + 1
                [] remapping[t] # "no" /\ l = "no" -> Cardinality(Uncounted) - 1
                [] OTHER -> Cardinality(Uncounted)
<1> USE DEF MemInv, MemTypeOK
<1>1. IsFiniteSet(Uncounted) /\ Cardinality(Uncounted) \in Int
  BY SizeIsNumber DEF BalanceInv
<1>2. CASE remapping[t] = "no" /\ l # "no"
  <2>1. Uncounted' = Uncounted \cup {t} /\ t \notin Uncounted
    BY <1>2 DEF Uncounted
  <2> QED BY <1>1, <1>2, <2>1, OneMore
<1>3. CASE remapping[t] # "no" /\ l = "no"
  <2>1. Uncounted' = Uncounted \ {t} /\ t \in Uncounted
    BY <1>3 DEF Uncounted
  <2> QED BY <1>1, <1>3, <2>1, OneLess
<1>4. CASE ~(remapping[t] = "no" /\ l # "no") /\ ~(remapping[t] # "no" /\ l = "no")
  <2>1. Uncounted' = Uncounted
    BY <1>4 DEF Uncounted
  <2> QED BY <1>1, <1>4, <2>1
<1> QED BY <1>2, <1>3, <1>4

-----------------------------------------------------------------------------
(* The steps.                                                              *)

LEMMA MallocStep == ASSUME MemInv, NEW t \in Threads, Malloc(t) PROVE MemInv'
<1> USE UncountedKeeps DEF Malloc, Calls, Served, Outstanding, Failed, MemInv
<1>1. CASE Granted /\ Room /\ heap' = heap \cup {Fresh} /\ Served(1)
  BY <1>1, PoisonKeeps, ObjectComes DEF MemTypeOK
<1>2. CASE UNCHANGED heap /\ ((Granted /\ Failed(1)) \/ (Poisoned /\ Failed(0)))
  BY <1>2, PoisonStays, ObjectsStay DEF MemTypeOK, Poisoned
<1> QED BY <1>1, <1>2

LEMMA ReallocStep == ASSUME MemInv, NEW t \in Threads, NEW o \in heap, Realloc(t, o) PROVE MemInv'
BY UncountedKeeps, PoisonKeeps, PoisonStays, ObjectsStay
   DEF Realloc, Calls, Served, Outstanding, Failed, MemInv, MemTypeOK, Poisoned

LEMMA PallocStep == ASSUME MemInv, NEW t \in Threads, Palloc(t) PROVE MemInv'
<1> USE UncountedKeeps DEF Calls, Outstanding, Failed, MemInv
<1>1. UNCHANGED <<remapping, poison, poisoned_idx, maps>>
  BY DEF Palloc
<1>2. CASE /\ Room /\ heap' = heap \cup {Fresh}
           /\ Outstanding(1) /\ served' = served + 1 /\ pallocs' = pallocs + 1
  BY <1>1, <1>2, PoisonKeeps, ObjectComes DEF MemTypeOK
<1>3. CASE UNCHANGED heap /\ Failed(1)
  BY <1>1, <1>3, PoisonStays, ObjectsStay DEF MemTypeOK
<1> QED BY <1>2, <1>3 DEF Palloc

LEMMA MmallocStep == ASSUME MemInv, NEW t \in Threads, Mmalloc(t) PROVE MemInv'
<1> USE UncountedKeeps DEF Mmalloc, Calls, Served, Outstanding, Failed, MemInv
<1>1. CASE Granted /\ Room /\ maps' = maps \cup {Fresh} /\ Served(1)
  BY <1>1, PoisonKeeps, ObjectComes DEF MemTypeOK
<1>2. CASE UNCHANGED maps /\ Failed(1) /\ (Granted \/ UNCHANGED poisoned_idx)
  BY <1>2, PoisonStays, ObjectsStay DEF MemTypeOK
<1> QED BY <1>1, <1>2 DEF Poisoned

LEMMA FreeStep ==
  ASSUME MemInv, NEW o,
         \/ o \in heap /\ Deepfree(o)
         \/ o \in maps /\ Mfree(o)
  PROVE  MemInv'
<1>1. CASE o \in heap /\ Deepfree(o)
  <2>1. maps' = maps \ {o}
    BY <1>1 DEF Deepfree, MemInv, ObjectsInv
  <2> QED BY <1>1, <2>1, ObjectGoes DEF Deepfree
<1>2. CASE o \in maps /\ Mfree(o)
  <2>1. heap' = heap \ {o}
    BY <1>2 DEF Mfree, MemInv, ObjectsInv
  <2> QED BY <1>2, <2>1, ObjectGoes DEF Mfree
<1> QED BY <1>1, <1>2

LEMMA TrackStep == ASSUME MemInv, NEW t \in Threads, track_allocation(t) PROVE MemInv'
<1> USE DEF track_allocation, Served, Outstanding, Failed, MemInv, MemIdle
<1>1. CASE Granted /\ Served(1) /\ remapping' = [remapping EXCEPT ![t] = "map"]
  <2>1. /\ IsFiniteSet(Uncounted') /\ Cardinality(Uncounted) \in Int
        /\ remapping' \in [Threads -> {"no", "map", "failed", "undo"}]
        /\ Cardinality(Uncounted') = Cardinality(Uncounted) + 1
    BY <1>1, UncountedMoves
  <2> QED BY <1>1, <2>1, PoisonKeeps, ObjectsStay DEF MemTypeOK
<1>2. CASE Poisoned /\ Failed(1) /\ UNCHANGED remapping
  BY <1>2, UncountedKeeps, PoisonStays, ObjectsStay DEF MemTypeOK, Poisoned
<1> QED BY <1>1, <1>2

LEMMA RemapStep == ASSUME MemInv, NEW t \in Threads, mremap_and_truncate(t) PROVE MemInv'
<1> USE DEF mremap_and_truncate, counts, MemInv
<1>1. CASE Room /\ maps' = maps \cup {Fresh} /\ remapping' = [remapping EXCEPT ![t] = "no"]
  <2>1. /\ IsFiniteSet(Uncounted') /\ Cardinality(Uncounted) \in Int
        /\ remapping' \in [Threads -> {"no", "map", "failed", "undo"}]
        /\ Cardinality(Uncounted') = Cardinality(Uncounted) - 1
    BY <1>1, UncountedMoves
  <2> QED BY <1>1, <2>1, PoisonStays, ObjectComes DEF MemTypeOK
<1>2. CASE UNCHANGED maps /\ remapping' = [remapping EXCEPT ![t] = "failed"]
  <2>1. /\ IsFiniteSet(Uncounted') /\ Cardinality(Uncounted) \in Int
        /\ remapping' \in [Threads -> {"no", "map", "failed", "undo"}]
        /\ Cardinality(Uncounted') = Cardinality(Uncounted)
    BY <1>2, UncountedMoves
  <2> QED BY <1>2, <2>1, PoisonStays, ObjectsStay DEF MemTypeOK
<1> QED BY <1>1, <1>2

LEMMA UndoStep ==
  ASSUME MemInv, NEW t \in Threads, track_failloc(t) \/ track_deallocation(t)
  PROVE  MemInv'
<1> USE DEF MemInv
<1>1. CASE track_failloc(t)
  <2>1. /\ IsFiniteSet(Uncounted') /\ Cardinality(Uncounted) \in Int
        /\ remapping' \in [Threads -> {"no", "map", "failed", "undo"}]
        /\ Cardinality(Uncounted') = Cardinality(Uncounted)
    BY <1>1, UncountedMoves DEF track_failloc
  <2> QED BY <1>1, <2>1, PoisonStays, ObjectsStay DEF MemTypeOK, track_failloc
<1>2. CASE track_deallocation(t)
  <2>1. /\ IsFiniteSet(Uncounted') /\ Cardinality(Uncounted) \in Int
        /\ remapping' \in [Threads -> {"no", "map", "failed", "undo"}]
        /\ Cardinality(Uncounted') = Cardinality(Uncounted) - 1
    BY <1>2, UncountedMoves DEF track_deallocation
  <2> QED BY <1>2, <2>1, PoisonStays, ObjectsStay DEF MemTypeOK, track_deallocation
<1> QED BY <1>1, <1>2

LEMMA SetterStep ==
  ASSUME MemInv, (\E n \in -1 .. 2 : failloc_on_n(n)) \/ limit_memory \/ UNCHANGED memvars
  PROVE  MemInv'
<1> USE UncountedKeeps DEF MemInv
<1>1. CASE \E n \in -1 .. 2 : failloc_on_n(n)
  BY <1>1, ObjectsStay DEF failloc_on_n, MemTypeOK, PoisonInv
<1>2. CASE limit_memory \/ UNCHANGED memvars
  BY <1>2, PoisonStays, ObjectsStay DEF limit_memory, counts, memvars, MemTypeOK
<1> QED BY <1>1, <1>2

-----------------------------------------------------------------------------

LEMMA MemInitInv == MemInit => MemInv
<1> SUFFICES ASSUME MemInit PROVE MemInv
  OBVIOUS
<1>1. Uncounted = {} /\ heap \cup maps = {}
  BY DEF MemInit, Uncounted
<1>2. IsFiniteSet({}) /\ Cardinality({}) = 0
  BY FS_EmptySet
<1>3. ObjectsInv /\ BalanceInv
  BY <1>1, <1>2 DEF MemInit, ObjectsInv, BalanceInv, AccountsBalance
<1>4. MemTypeOK /\ PoisonInv
  BY DEF MemInit, MemTypeOK, PoisonInv
<1> QED BY <1>3, <1>4 DEF MemInv

LEMMA MemSpecInv == MemSpec => []MemInv
<1>1. ASSUME MemInv, [MemNext]_memvars PROVE MemInv'
  <2>1. CASE \E t \in Threads : Malloc(t) \/ Palloc(t) \/ Mmalloc(t)
    BY <1>1, <2>1, MallocStep, PallocStep, MmallocStep
  <2>2. CASE \E t \in Threads : track_allocation(t) \/ mremap_and_truncate(t)
    BY <1>1, <2>2, TrackStep, RemapStep
  <2>3. CASE \E t \in Threads : track_failloc(t) \/ track_deallocation(t)
    BY <1>1, <2>3, UndoStep
  <2>4. CASE \E t \in Threads : \E o \in heap : Realloc(t, o)
    BY <1>1, <2>4, ReallocStep
  <2>5. CASE (\E o \in heap : Deepfree(o)) \/ (\E o \in maps : Mfree(o))
    BY <1>1, <2>5, FreeStep
  <2>6. CASE (\E n \in -1 .. 2 : failloc_on_n(n)) \/ limit_memory \/ UNCHANGED memvars
    BY <1>1, <2>6, SetterStep
  <2> QED BY <1>1, <2>1, <2>2, <2>3, <2>4, <2>5, <2>6 DEF MemNext
<1>2. MemInv /\ [MemNext]_memvars => MemInv'
  BY <1>1
<1> QED BY MemInitInv, <1>2, PTL DEF MemSpec

\* outstanding_allocs() is what was served and not released, whatever failed in
\* between, and failloc_on_n(n) lets n requests through at most, those of Palloc(),
\* which does not heed it, left out of account.
THEOREM AccountsCorrect == MemSpec => []AccountsAreRight
<1>1. MemInv => AccountsAreRight
  BY DEF MemInv, MemTypeOK, BalanceInv, PoisonInv, AccountsAreRight, PoisonWorks
<1> QED BY MemSpecInv, <1>1, PTL

-------------------------------------------------------------------------------
(* The trie: LruPat.                                                        *)

Chars == DOMAIN tolower
Strs == Seq(Chars)

TrieNode(x) == x = Hollow \/ \E s \in Strs, o \in LpObjs : x = [pat |-> {s}, obj |-> o]

\* A node above another has no suffix, so that no two tails have one key.
TrieOK(n) ==
  /\ DOMAIN n \subseteq Strs
  /\ n = [p \in DOMAIN n |-> n[p]] /\ \A p \in DOMAIN n : TrieNode(n[p])
  /\ \A q \in DOMAIN n : \A p \in Strs : IsPrefix(p, q) => p \in DOMAIN n
  /\ \A p, q \in DOMAIN n : IsPrefix(p, q) /\ p # q => n[p].pat \subseteq {<<>>}
  /\ \A p, q \in Tails(n) : n[p].obj = n[q].obj => p = q
  /\ \A p \in Tails(n) : Case(Key(n, p)) = Key(n, p)

\* What a trie holds, whatever its shape.
Entries(n) == {<<Key(n, p), n[p].obj>> : p \in Tails(n)}
KeysOf(n) == {Key(n, p) : p \in Tails(n)}
DictOf(n) == [s \in KeysOf(n) |-> n[CHOOSE p \in Tails(n) : Key(n, p) = s].obj]

LEMMA PrefixIs ==
  ASSUME NEW p \in Strs, NEW s \in Strs
  PROVE  /\ IsPrefix(p, s) <=> Len(p) <= Len(s) /\ \A k \in 1 .. Len(p) : p[k] = s[k]
         /\ IsPrefix(p, s) /\ Len(p) = Len(s) => p = s
<1>1. Len(p) \in Nat /\ Len(s) \in Nat
  BY DEF Strs
<1>2. ASSUME Len(p) <= Len(s)
      PROVE  SubSeq(p, 1, Len(p)) = SubSeq(s, 1, Len(p)) <=> \A k \in 1 .. Len(p) : p[k] = s[k]
  <2>1. /\ SubSeq(p, 1, Len(p)) = [k \in 1 .. Len(p) |-> p[k]]
        /\ SubSeq(s, 1, Len(p)) = [k \in 1 .. Len(p) |-> s[k]]
    BY <1>1, <1>2, SMTT(20) DEF Strs
  <2> QED
    BY <2>1, Zenon
<1>3. ASSUME Len(p) = Len(s), \A k \in 1 .. Len(p) : p[k] = s[k]
      PROVE  p = s
  BY <1>3, <1>1, SeqEqual DEF Strs
<1> QED
  BY <1>1, <1>2, <1>3 DEF IsPrefix

LEMMA PrefixTrans ==
  ASSUME NEW p \in Strs, NEW q \in Strs, NEW s \in Strs, IsPrefix(p, q), IsPrefix(q, s)
  PROVE  IsPrefix(p, s)
<1>1. Len(p) \in Nat /\ Len(q) \in Nat /\ Len(s) \in Nat
  BY DEF Strs
<1>2. Len(p) <= Len(q) /\ \A k \in 1 .. Len(p) : p[k] = q[k]
  BY PrefixIs
<1>3. Len(q) <= Len(s) /\ \A k \in 1 .. Len(q) : q[k] = s[k]
  BY PrefixIs
<1>4. Len(p) <= Len(s) /\ \A k \in 1 .. Len(p) : p[k] = s[k]
  BY <1>1, <1>2, <1>3
<1> QED
  BY <1>4, PrefixIs

\* Two prefixes of one string are prefixes one of the other.
LEMMA PrefixesAgree ==
  ASSUME NEW p \in Strs, NEW q \in Strs, NEW s \in Strs, IsPrefix(p, s), IsPrefix(q, s),
         Len(p) <= Len(q)
  PROVE  IsPrefix(p, q) /\ (Len(p) = Len(q) => p = q)
<1>1. Len(p) \in Nat /\ Len(q) \in Nat
  BY DEF Strs
<1>2. \A k \in 1 .. Len(p) : p[k] = s[k]
  BY PrefixIs
<1>3. \A k \in 1 .. Len(q) : q[k] = s[k]
  BY PrefixIs
<1>4. \A k \in 1 .. Len(p) : p[k] = q[k]
  BY <1>1, <1>2, <1>3
<1> QED
  BY <1>4, PrefixIs

LEMMA UpToIs ==
  ASSUME NEW s \in Strs, NEW k \in 0 .. Len(s)
  PROVE  /\ SubSeq(s, 1, k) \in Strs /\ Len(SubSeq(s, 1, k)) = k
         /\ IsPrefix(SubSeq(s, 1, k), s)
         /\ \A j \in 1 .. k : SubSeq(s, 1, k)[j] = s[j]
<1>1. /\ SubSeq(s, 1, k) \in Strs /\ Len(SubSeq(s, 1, k)) = k
      /\ \A j \in 1 .. k : SubSeq(s, 1, k)[j] = s[j]
  <2>1. Len(s) \in Nat
    BY DEF Strs
  <2>2. \A i \in 1 .. k : s[i] \in Chars
    BY <2>1 DEF Strs
  <2> QED
    BY <2>1, <2>2, SubSeqProperties DEF Strs
<1>2. k <= Len(s)
  BY DEF Strs
<1>3. IsPrefix(SubSeq(s, 1, k), s)
  BY <1>1, <1>2, PrefixIs, Zenon
<1> QED
  BY <1>1, <1>3

LEMMA AppendedIs ==
  ASSUME NEW p \in Strs, NEW s \in Strs
  PROVE  /\ p \o s \in Strs /\ Len(p \o s) = Len(p) + Len(s)
         /\ IsPrefix(p, p \o s)
         /\ \A k \in 1 .. Len(s) : (p \o s)[Len(p) + k] = s[k]
         /\ s = <<>> <=> p \o s = p
         /\ s = <<>> <=> Len(s) = 0
<1>1. Len(p) \in Nat /\ Len(s) \in Nat
  BY DEF Strs
<1>2. p \o s \in Strs /\ Len(p \o s) = Len(p) + Len(s)
  BY DEF Strs
<1>3. \A k \in 1 .. Len(p) : p[k] = (p \o s)[k]
  BY <1>1 DEF Strs
<1>4. s = <<>> <=> Len(s) = 0
  BY EmptySeq DEF Strs
<1>5. s = <<>> => p \o s = p
  BY ConcatEmptySeq DEF Strs
<1>6. Len(p) <= Len(p \o s)
  BY <1>1, <1>2
<1>7. IsPrefix(p, p \o s)
  BY <1>2, <1>3, <1>6, PrefixIs
<1>8. \A k \in 1 .. Len(s) : (p \o s)[Len(p) + k] = s[k]
  BY <1>1 DEF Strs
<1>9. p \o s = p => Len(s) = 0
  BY <1>1, <1>2
<1> QED
  BY <1>2, <1>4, <1>5, <1>7, <1>8, <1>9

LEMMA TailIs ==
  ASSUME NEW n, TrieOK(n), NEW p \in Tails(n)
  PROVE  \E s \in Strs : /\ n[p].pat = {s} /\ n[p].obj \in LpObjs
                         /\ p \in DOMAIN n /\ p \in Strs
                         /\ Key(n, p) = p \o s /\ Key(n, p) \in Strs
                         /\ IsPrefix(p, Key(n, p)) /\ Len(p) <= Len(Key(n, p))
                         /\ Case(Key(n, p)) = Key(n, p)
<1>1. p \in DOMAIN n /\ n[p].pat # {} /\ p \in Strs /\ TrieNode(n[p])
  BY DEF Tails, TrieOK
<1>2. PICK s \in Strs, o \in LpObjs : n[p] = [pat |-> {s}, obj |-> o]
  BY <1>1 DEF TrieNode, Hollow
<1>3. n[p].pat = {s} /\ n[p].obj = o
  BY <1>2
<1>4. (CHOOSE t \in {s} : TRUE) = s
  OBVIOUS
<1>5. Key(n, p) = p \o s
  BY <1>3, <1>4 DEF Key
<1>6. Key(n, p) \in Strs /\ IsPrefix(p, Key(n, p))
  BY <1>1, <1>5, AppendedIs
<1>7. Len(p) <= Len(Key(n, p))
  BY <1>1, <1>6, PrefixIs
<1> QED
  BY <1>1, <1>3, <1>5, <1>6, <1>7 DEF TrieOK

LEMMA HollowIs ==
  ASSUME NEW n, TrieOK(n), NEW p \in DOMAIN n, p \notin Tails(n)
  PROVE  n[p] = Hollow
<1>1. n[p].pat = {} /\ TrieNode(n[p])
  BY DEF Tails, TrieOK
<1>2. CASE n[p] = Hollow
  BY <1>2
<1>3. ASSUME NEW s \in Strs, NEW o \in LpObjs, n[p] = [pat |-> {s}, obj |-> o]
      PROVE  FALSE
  <2>1. n[p].pat = {s}
    BY <1>3
  <2> QED
    BY <2>1, <1>1
<1> QED
  BY <1>1, <1>2, <1>3 DEF TrieNode

\* A tail above another is the key itself.
LEMMA TailAbove ==
  ASSUME NEW n, TrieOK(n), NEW p \in Tails(n), NEW q \in DOMAIN n, IsPrefix(p, q), p # q
  PROVE  n[p].pat = {<<>>} /\ Key(n, p) = p
<1>1. PICK s \in Strs : /\ n[p].pat = {s} /\ p \in DOMAIN n /\ p \in Strs
                        /\ Key(n, p) = p \o s
  BY TailIs
<1>2. n[p].pat \subseteq {<<>>}
  BY <1>1 DEF TrieOK
<1>3. s = <<>>
  BY <1>1, <1>2
<1> QED
  BY <1>1, <1>3, AppendedIs

LEMMA OneTailForAKey ==
  ASSUME NEW n, TrieOK(n), NEW p \in Tails(n), NEW q \in Tails(n), Key(n, p) = Key(n, q)
  PROVE  p = q
<1>1. \A x, y \in Tails(n) : Key(n, x) = Key(n, y) /\ Len(x) <= Len(y) => x = y
  <2> SUFFICES ASSUME NEW x \in Tails(n), NEW y \in Tails(n), Key(n, x) = Key(n, y),
                      Len(x) <= Len(y), x # y
               PROVE  FALSE
    OBVIOUS
  <2>1. /\ x \in Strs /\ Key(n, x) \in Strs /\ IsPrefix(x, Key(n, x))
    BY TailIs
  <2>2. /\ y \in Strs /\ IsPrefix(y, Key(n, y)) /\ y \in DOMAIN n
        /\ Len(y) <= Len(Key(n, y))
    BY TailIs
  <2>3. IsPrefix(x, y) /\ Len(x) # Len(y)
    BY <2>1, <2>2, PrefixesAgree
  <2>4. Key(n, x) = x
    BY <2>2, <2>3, TailAbove
  <2>5. Len(x) \in Nat /\ Len(y) \in Nat
    BY <2>1, <2>2 DEF Strs
  <2> QED
    BY <2>2, <2>3, <2>4, <2>5
<1>2. Len(p) \in Nat /\ Len(q) \in Nat
  <2>1. p \in Strs /\ q \in Strs
    BY TailIs
  <2> QED
    BY <2>1 DEF Strs
<1> QED
  BY <1>1, <1>2

LEMMA DictIs ==
  ASSUME NEW n, TrieOK(n)
  PROVE  /\ DOMAIN DictOf(n) = KeysOf(n)
         /\ \A p \in Tails(n) : Key(n, p) \in KeysOf(n) /\ DictOf(n)[Key(n, p)] = n[p].obj
<1>1. ASSUME NEW p \in Tails(n)
      PROVE  DictOf(n)[Key(n, p)] = n[p].obj
  <2>1. PICK q \in Tails(n) : /\ Key(n, q) = Key(n, p)
                              /\ q = CHOOSE r \in Tails(n) : Key(n, r) = Key(n, p)
    BY Zenon
  <2>2. q = p
    BY <2>1, OneTailForAKey
  <2>3. Key(n, p) \in KeysOf(n)
    BY DEF KeysOf
  <2> QED
    BY <2>1, <2>2, <2>3 DEF DictOf
<1> QED
  BY <1>1 DEF DictOf, KeysOf

\* A trie's map depends on what it holds alone.
LEMMA DictFromEntries ==
  ASSUME NEW n, TrieOK(n), NEW d, d = [s \in DOMAIN d |-> d[s]],
         Entries(n) = {<<s, d[s]>> : s \in DOMAIN d}
  PROVE  DictOf(n) = d
<1>1. \A p \in Tails(n) : Key(n, p) \in DOMAIN d /\ d[Key(n, p)] = n[p].obj
  <2> TAKE p \in Tails(n)
  <2>1. <<Key(n, p), n[p].obj>> \in {<<s, d[s]>> : s \in DOMAIN d}
    BY DEF Entries
  <2> QED
    BY <2>1
<1>2. \A s \in DOMAIN d : \E p \in Tails(n) : Key(n, p) = s
  <2> TAKE s \in DOMAIN d
  <2>1. <<s, d[s]>> \in Entries(n)
    OBVIOUS
  <2> QED
    BY <2>1 DEF Entries
<1>3. KeysOf(n) = DOMAIN d
  BY <1>1, <1>2 DEF KeysOf
<1>4. \A s \in DOMAIN d : DictOf(n)[s] = d[s]
  BY <1>1, <1>2, DictIs
<1>5. DictOf(n) = [s \in KeysOf(n) |-> DictOf(n)[s]]
  BY DEF DictOf
<1> QED
  BY <1>3, <1>4, <1>5

LEMMA RootIsThere ==
  ASSUME NEW n, TrieOK(n)
  PROVE  /\ n # NoNodes => <<>> \in DOMAIN n
         /\ n = NoNodes <=> DOMAIN n = {}
<1>1. DOMAIN n = {} => n = NoNodes
  BY DEF TrieOK, NoNodes
<1>2. DOMAIN NoNodes = {}
  BY DEF NoNodes
<1>3. ASSUME NEW q \in DOMAIN n
      PROVE  <<>> \in DOMAIN n
  <2>1. q \in Strs /\ <<>> \in Strs /\ Len(q) \in Nat
    BY DEF TrieOK, Strs
  <2>2. IsPrefix(<<>>, q)
    BY <2>1, PrefixIs
  <2> QED
    BY <2>1, <2>2 DEF TrieOK
<1> QED
  BY <1>1, <1>2, <1>3

LEMMA DeepestIs ==
  ASSUME NEW n, TrieOK(n), n # NoNodes, NEW key \in Strs
  PROVE  /\ Deepest(n, key) \in DOMAIN n /\ Deepest(n, key) \in Strs
         /\ IsPrefix(Deepest(n, key), key)
         /\ \A q \in DOMAIN n : IsPrefix(q, key) => Len(q) <= Len(Deepest(n, key))
         /\ Len(Deepest(n, key)) \in 0 .. Len(key)
<1>1. DOMAIN n \subseteq Strs
  BY DEF TrieOK
<1> DEFINE way == {p \in DOMAIN n : IsPrefix(p, key)}
           left == {Len(key) - Len(p) : p \in way}
<1>2. \A p \in way : p \in Strs /\ Len(p) \in Nat /\ Len(p) <= Len(key) /\ Len(key) \in Nat
  <2> TAKE p \in way
  <2>1. p \in Strs
    BY <1>1
  <2>2. Len(p) <= Len(key)
    BY <2>1, PrefixIs
  <2> QED
    BY <2>1, <2>2 DEF Strs
<1>3. left \subseteq Nat
  BY <1>2
<1>4. <<>> \in way
  <2>1. <<>> \in Strs /\ <<>> \in DOMAIN n /\ Len(key) \in Nat
    BY RootIsThere DEF Strs
  <2>2. IsPrefix(<<>>, key)
    BY <2>1, PrefixIs
  <2> QED
    BY <2>1, <2>2
<1>5. left # {}
  BY <1>4
<1>6. PICK m \in left : \A y \in left : ~ (<<y, m>> \in OpToRel(<, Nat))
  BY <1>3, <1>5, WFMin, NatLessThanWellFounded
<1>7. \A y \in left : m <= y
  <2> HIDE DEF left
  <2>1. \A y \in left : ~ (y < m)
    BY <1>3, <1>6 DEF OpToRel
  <2> QED
    BY <1>3, <2>1
<1>8. PICK p \in way : m = Len(key) - Len(p)
  OBVIOUS
<1>9. \A q \in way : Len(q) <= Len(p)
  <2> TAKE q \in way
  <2>1. Len(key) - Len(p) <= Len(key) - Len(q)
    BY <1>7, <1>8
  <2> QED
    BY <1>2, <2>1
<1>10. /\ p \in DOMAIN n /\ IsPrefix(p, key)
       /\ \A q \in DOMAIN n : IsPrefix(q, key) => Len(q) <= Len(p)
  BY <1>9
<1>11. /\ Deepest(n, key) \in DOMAIN n
       /\ IsPrefix(Deepest(n, key), key)
       /\ \A q \in DOMAIN n : IsPrefix(q, key) => Len(q) <= Len(Deepest(n, key))
  BY <1>10, Zenon DEF Deepest
<1> QED
  BY <1>1, <1>2, <1>11

\* Opening a trie for a key leaves what it holds, and no suffix on the way down.
Open(n, key) == n # NoNodes => n[Deepest(n, key)].pat \subseteq {<<>>}

LEMMA DecayedIs ==
  ASSUME NEW n, TrieOK(n), NEW p \in Tails(n), n[p].pat # {<<>>}
  PROVE  LET m == decay_lrupat_tail(n, p)
         IN /\ TrieOK(m) /\ Entries(m) = Entries(n) /\ m # NoNodes
            /\ p \in DOMAIN m
            /\ \A q \in DOMAIN m : q \notin DOMAIN n \/ q = p => m[q].pat \subseteq {<<>>}
<1> DEFINE m == decay_lrupat_tail(n, p)
<1>1. PICK s \in Strs : /\ n[p].pat = {s} /\ n[p].obj \in LpObjs
                        /\ p \in DOMAIN n /\ p \in Strs
                        /\ Key(n, p) = p \o s /\ Key(n, p) \in Strs
                        /\ Case(Key(n, p)) = Key(n, p)
  BY TailIs
<1> DEFINE chain == {p \o SubSeq(s, 1, k) : k \in 0 .. Len(s)}
           end == p \o s
           last == [pat |-> {<<>>}, obj |-> n[p].obj]
<1>2. (CHOOSE t \in {s} : TRUE) = s
  OBVIOUS
<1>3. m = [q \in DOMAIN n \cup chain |->
             IF q = end THEN last ELSE IF q \in chain THEN Hollow ELSE n[q]]
  BY <1>1, <1>2, Zenon DEF decay_lrupat_tail
<1>4. Len(s) \in Nat /\ Len(p) \in Nat /\ s # <<>> /\ Len(s) # 0 /\ Len(end) = Len(p) + Len(s)
      /\ end \in Strs /\ IsPrefix(p, end) /\ end # p
  BY <1>1, AppendedIs DEF Strs
\* the chain are the prefixes of the key from the tail on
<1>5. \A q \in chain : q \in Strs /\ IsPrefix(p, q) /\ IsPrefix(q, end)
  <2> SUFFICES ASSUME NEW k \in 0 .. Len(s)
               PROVE  LET q == p \o SubSeq(s, 1, k)
                      IN q \in Strs /\ IsPrefix(p, q) /\ IsPrefix(q, end)
    OBVIOUS
  <2> DEFINE c == SubSeq(s, 1, k)
             q == p \o c
  <2>1. c \in Strs /\ Len(c) = k /\ \A j \in 1 .. k : c[j] = s[j]
    BY UpToIs
  <2>2. q \in Strs /\ Len(q) = Len(p) + k /\ IsPrefix(p, q)
    BY <1>1, <2>1, AppendedIs
  <2>3. Len(q) <= Len(end)
    BY <1>4, <2>2
  <2>4. \A j \in 1 .. Len(q) : q[j] = end[j]
    <3> HIDE DEF c
    <3> TAKE j \in 1 .. Len(q)
    <3>1. /\ q[j] = IF j <= Len(p) THEN p[j] ELSE c[j - Len(p)]
          /\ end[j] = IF j <= Len(p) THEN p[j] ELSE s[j - Len(p)]
      BY <1>1, <1>4, <2>1, <2>2, SMTT(20) DEF Strs
    <3> QED
      BY <1>4, <2>1, <2>2, <3>1
  <2>5. IsPrefix(q, end)
    BY <1>4, <2>2, <2>3, <2>4, PrefixIs, Zenon
  <2> QED
    BY <2>2, <2>5
<1>6. ASSUME NEW q \in Strs, IsPrefix(q, end), Len(p) <= Len(q)
      PROVE  q \in chain
  <2>1. Len(q) \in Nat /\ Len(q) <= Len(end)
    <3>1. Len(q) <= Len(end)
      BY <1>4, <1>6, PrefixIs, Zenon
    <3> QED
      BY <3>1 DEF Strs
  <2> DEFINE k == Len(q) - Len(p)
             c == SubSeq(s, 1, k)
  <2>2. k \in 0 .. Len(s)
    BY <1>4, <1>6, <2>1
  <2>3. p \o c \in chain
    BY <2>2
  <2>4. p \o c \in Strs /\ IsPrefix(p \o c, end)
    BY <1>5, <2>3
  <2>5. c \in Strs /\ Len(c) = k
    BY <2>2, UpToIs
  <2>6. Len(p \o c) = Len(q)
    BY <1>1, <1>4, <2>1, <2>5, AppendedIs
  <2>7. p \o c = q
    <3>1. Len(p \o c) <= Len(q)
      BY <2>1, <2>6
    <3> QED
      BY <1>4, <1>6, <2>4, <2>6, <3>1, PrefixesAgree, Zenon
  <2> QED
    BY <2>3, <2>7
<1>7. p \in chain /\ end \in chain
  <2>1. end \in Strs /\ p \in Strs /\ Len(p) <= Len(end) /\ Len(p) <= Len(p) /\ Len(end) <= Len(end)
    BY <1>1, <1>4
  <2> HIDE DEF end
  <2>2. IsPrefix(end, end)
    BY <2>1, PrefixIs
  <2> HIDE DEF chain
  <2> QED
    BY <1>4, <1>6, <2>1, <2>2
<1>8. \A q \in chain : q \in DOMAIN n => q = p
  <2> SUFFICES ASSUME NEW q \in chain, q \in DOMAIN n, q # p
               PROVE  FALSE
    OBVIOUS
  <2>1. IsPrefix(p, q)
    BY <1>5
  <2> QED
    BY <2>1, TailAbove
<1>9. DOMAIN m = DOMAIN n \cup chain
  BY <1>3
<1>10. /\ m[end] = last
       /\ \A q \in chain \ {end} : m[q] = Hollow
       /\ \A q \in DOMAIN n \ {p} : m[q] = n[q]
  <2>1. m[end] = last
    BY <1>3, <1>7
  <2>2. \A q \in chain \ {end} : m[q] = Hollow
    BY <1>3
  <2>3. \A q \in DOMAIN n \ {p} : m[q] = n[q]
    BY <1>3, <1>7, <1>8
  <2> QED
    BY <2>1, <2>2, <2>3
<1> HIDE DEF m, chain, end
<1>11. Hollow.pat = {} /\ last.pat = {<<>>} /\ last.obj = n[p].obj
  BY DEF Hollow
<1>12. Tails(m) = (Tails(n) \ {p}) \cup {end}
  BY <1>7, <1>8, <1>9, <1>10, <1>11, Zenon DEF Tails
<1>13. Key(m, end) = end
  <2>1. (CHOOSE t \in {<<>>} : TRUE) = <<>>
    OBVIOUS
  <2>2. Key(m, end) = end \o <<>>
    BY <1>10, <1>11, <2>1 DEF Key
  <2> QED
    BY <1>4, <2>2, ConcatEmptySeq DEF Strs
<1>14. \A q \in Tails(n) \ {p} : Key(m, q) = Key(n, q) /\ m[q].obj = n[q].obj /\ q # end
  BY <1>7, <1>8, <1>10 DEF Key, Tails
<1>15. \A q \in chain : m[q].pat \subseteq {<<>>}
  BY <1>10, <1>11
<1>16. TrieOK(m)
  <2>1. DOMAIN m \subseteq Strs
    BY <1>5, <1>9 DEF TrieOK
  <2>2. m = [q \in DOMAIN m |-> m[q]] /\ \A q \in DOMAIN m : TrieNode(m[q])
    <3>1. m = [q \in DOMAIN m |-> m[q]]
      BY DEF m, decay_lrupat_tail
    <3>2. \A q \in DOMAIN m : TrieNode(m[q])
      <4>1. <<>> \in Strs
        BY DEF Strs
      <4>2. TrieNode(last) /\ TrieNode(Hollow)
        BY <1>1, <4>1 DEF TrieNode
      <4>3. \A q \in DOMAIN n : TrieNode(n[q])
        BY DEF TrieOK
      <4> HIDE DEF last
      <4>4. TAKE q \in DOMAIN m
      <4>5. CASE q = end
        BY <1>10, <4>2, <4>5
      <4>6. CASE q \in chain /\ q # end
        BY <1>10, <4>2, <4>6
      <4>7. CASE q \in DOMAIN n /\ q \notin chain
        BY <1>7, <1>10, <4>3, <4>7
      <4> QED
        BY <1>9, <4>5, <4>6, <4>7
    <3> QED
      BY <3>1, <3>2
  <2>3. ASSUME NEW q \in DOMAIN m, NEW r \in Strs, IsPrefix(r, q)
        PROVE  r \in DOMAIN m
    <3>1. CASE q \in DOMAIN n
      BY <1>9, <2>3, <3>1 DEF TrieOK
    <3>2. CASE q \in chain
      <4>1. q \in Strs /\ IsPrefix(q, end) /\ IsPrefix(p, q)
        BY <1>5, <3>2
      <4>2. IsPrefix(r, end) /\ IsPrefix(p, end)
        BY <1>4, <2>3, <4>1, PrefixTrans
      <4>3. CASE Len(p) <= Len(r)
        BY <1>6, <1>9, <4>2, <4>3
      <4>4. CASE Len(r) <= Len(p)
        <5>1. IsPrefix(r, p)
          BY <1>1, <1>4, <4>2, <4>4, PrefixesAgree
        <5> QED
          BY <1>1, <1>9, <5>1 DEF TrieOK
      <4>5. Len(r) \in Nat
        BY DEF Strs
      <4> QED
        BY <1>4, <4>3, <4>4, <4>5
    <3> QED
      BY <1>9, <3>1, <3>2
  <2>4. ASSUME NEW r \in DOMAIN m, NEW q \in DOMAIN m, IsPrefix(r, q), r # q
        PROVE  m[r].pat \subseteq {<<>>}
    <3>1. CASE r \in chain
      BY <1>15, <3>1
    <3>2. CASE r \notin chain /\ q \in DOMAIN n
      BY <1>7, <1>9, <1>10, <2>4, <3>2 DEF TrieOK
    <3>3. CASE r \notin chain /\ q \in chain
      <4>1. r \in DOMAIN n /\ r # p /\ r \in Strs /\ q \in Strs
        BY <1>7, <1>9, <3>3, <2>1
      <4>2. IsPrefix(q, end)
        BY <1>5, <3>3
      <4>3. IsPrefix(r, end)
        BY <1>4, <2>4, <4>1, <4>2, PrefixTrans
      <4>4. Len(r) <= Len(p)
        <5>1. Len(r) \in Nat
          BY <4>1 DEF Strs
        <5> QED
          BY <1>4, <1>6, <3>3, <4>1, <4>3, <5>1
      <4>5. IsPrefix(r, p)
        BY <1>1, <1>4, <4>1, <4>3, <4>4, PrefixesAgree
      <4>6. n[r].pat \subseteq {<<>>}
        BY <1>1, <4>1, <4>5 DEF TrieOK
      <4> QED
        BY <1>10, <4>1, <4>6
    <3> QED
      BY <1>9, <3>1, <3>2, <3>3
  <2>5. ASSUME NEW r \in Tails(m), NEW q \in Tails(m), m[r].obj = m[q].obj
        PROVE  r = q
    <3>1. \A x, y \in Tails(n) : n[x].obj = n[y].obj => x = y
      BY DEF TrieOK
    <3>2. m[end].obj = n[p].obj
      BY <1>10, <1>11
    <3> QED
      BY <1>12, <1>14, <2>5, <3>1, <3>2
  <2>6. ASSUME NEW q \in Tails(m)
        PROVE  Case(Key(m, q)) = Key(m, q)
    <3>1. Case(end) = end
      BY <1>1 DEF end
    <3> QED
      BY <1>12, <1>13, <1>14, <3>1 DEF TrieOK
  <2> QED
    BY <2>1, <2>2, <2>3, <2>4, <2>5, <2>6 DEF TrieOK
<1>17. Entries(m) = Entries(n)
  <2>1. Key(m, end) = Key(n, p) /\ m[end].obj = n[p].obj
    BY <1>1, <1>10, <1>11, <1>13 DEF end
  <2> QED
    BY <1>12, <1>14, <2>1, Zenon DEF Entries
<1>18. m # NoNodes /\ p \in DOMAIN m
  BY <1>1, <1>9, <1>16, RootIsThere
<1>19. \A q \in DOMAIN m : q \notin DOMAIN n \/ q = p => m[q].pat \subseteq {<<>>}
  BY <1>7, <1>9, <1>15
<1> QED
  BY <1>16, <1>17, <1>18, <1>19 DEF m

LEMMA OpenedIs ==
  ASSUME NEW n, TrieOK(n), NEW key \in Strs
  PROVE  LET m == Opened(n, key)
         IN /\ TrieOK(m) /\ Entries(m) = Entries(n) /\ Open(m, key)
            /\ m = NoNodes <=> n = NoNodes
<1> DEFINE p == Deepest(n, key)
<1>1. CASE n = NoNodes
  BY <1>1 DEF Opened, Open
<1>2. CASE n # NoNodes /\ n[p].pat \subseteq {<<>>}
  BY <1>2 DEF Opened, Open
<1>3. CASE n # NoNodes /\ ~(n[p].pat \subseteq {<<>>})
  <2> DEFINE m == decay_lrupat_tail(n, p)
             d == Deepest(m, key)
  <2>1. Opened(n, key) = m
    BY <1>3 DEF Opened
  <2>2. /\ p \in DOMAIN n /\ p \in Strs /\ IsPrefix(p, key)
        /\ \A q \in DOMAIN n : IsPrefix(q, key) => Len(q) <= Len(p)
    BY <1>3, DeepestIs
  <2>3. p \in Tails(n) /\ n[p].pat # {<<>>}
    BY <1>3, <2>2 DEF Tails
  <2>4. /\ TrieOK(m) /\ Entries(m) = Entries(n) /\ m # NoNodes
        /\ p \in DOMAIN m
        /\ \A q \in DOMAIN m : q \notin DOMAIN n \/ q = p => m[q].pat \subseteq {<<>>}
    BY <2>3, DecayedIs
  <2> HIDE DEF m, p
  <2>5. /\ d \in DOMAIN m /\ d \in Strs /\ IsPrefix(d, key)
        /\ \A q \in DOMAIN m : IsPrefix(q, key) => Len(q) <= Len(d)
    BY <2>4, DeepestIs
  <2> HIDE DEF d
  <2>6. Len(p) \in Nat /\ Len(d) \in Nat
    BY <2>2, <2>5 DEF Strs
  <2>7. d \in DOMAIN n => d = p
    <3>1. ASSUME d \in DOMAIN n
          PROVE  Len(d) = Len(p)
      BY <2>2, <2>4, <2>5, <2>6, <3>1
    <3> QED
      BY <2>2, <2>5, <2>6, <3>1, PrefixesAgree
  <2>8. Open(m, key)
    BY <2>4, <2>5, <2>7 DEF Open, d
  <2> QED
    BY <1>3, <2>1, <2>4, <2>8
<1> QED
  BY <1>1, <1>2, <1>3

\* A key that is there already ends at a node.
LEMMA HeldThere ==
  ASSUME NEW n, TrieOK(n), NEW key \in Strs, Open(n, key), NEW p \in Tails(n), Key(n, p) = key
  PROVE  p = key /\ n[p].pat = {<<>>}
<1> DEFINE D == Deepest(n, key)
<1>1. n # NoNodes
  BY RootIsThere DEF Tails
<1>2. /\ D \in DOMAIN n /\ D \in Strs /\ IsPrefix(D, key)
      /\ \A q \in DOMAIN n : IsPrefix(q, key) => Len(q) <= Len(D)
      /\ n[D].pat \subseteq {<<>>}
  BY <1>1, DeepestIs DEF Open
<1> HIDE DEF D
<1>3. PICK s \in Strs : /\ n[p].pat = {s} /\ p \in Strs /\ p \in DOMAIN n /\ key = p \o s
                        /\ IsPrefix(p, key)
  BY TailIs
<1>4. CASE p = D
  <2>1. s = <<>>
    BY <1>2, <1>3, <1>4
  <2> QED
    BY <1>3, <2>1, AppendedIs
<1>5. CASE p # D
  <2>1. Len(p) <= Len(D)
    BY <1>2, <1>3
  <2>2. IsPrefix(p, D)
    BY <1>2, <1>3, <2>1, PrefixesAgree
  <2> QED
    BY <1>2, <1>5, <2>2, TailAbove
<1> QED
  BY <1>4, <1>5

\* Where a new key goes, and what it meets there.
LEMMA AddedAt ==
  ASSUME NEW n, TrieOK(n), NEW key \in Strs, Open(n, key), NEW o
  PROVE  \E new \in Strs, rest \in Strs :
           /\ Added(n, key, o) = With(n, new, [pat |-> {rest}, obj |-> o])
           /\ new \o rest = key
           /\ \A p \in Strs : IsPrefix(p, new) /\ p # new =>
                p \in DOMAIN n /\ n[p].pat \subseteq {<<>>}
           /\ \A q \in DOMAIN n : IsPrefix(new, q) /\ q # new => rest = <<>>
           /\ \A p \in Tails(n) : Key(n, p) = key => p = new /\ n[p].pat = {<<>>}
           /\ new \in Tails(n) => Key(n, new) = key
<1> DEFINE D == Deepest(n, key)
           d == Len(D)
<1>1. Len(key) \in Nat /\ <<>> \in Strs
  BY DEF Strs
<1>2. ASSUME NEW p \in Tails(n), Key(n, p) = key
      PROVE  p = key /\ n[p].pat = {<<>>}
  BY <1>2, HeldThere
<1>3. CASE n = NoNodes
  <2> DEFINE rest == SubSeq(key, 1, Len(key))
  <2>1. rest = key
    BY <1>1, SubSeqFull DEF Strs
  <2>2. Added(n, key, o) = With(n, <<>>, [pat |-> {key}, obj |-> o])
    BY <1>3, <2>1 DEF Added, lpatchain_new
  <2>3. <<>> \o key = key
    BY ConcatEmptySeq DEF Strs
  <2>4. \A p \in Strs : IsPrefix(p, <<>>) => p = <<>>
    <3> TAKE p \in Strs
    <3> HAVE IsPrefix(p, <<>>)
    <3>1. Len(p) <= 0 /\ Len(p) \in Nat
      <4>1. Len(p) <= Len(<<>>)
        BY <1>1, PrefixIs, Zenon
      <4> QED
        BY <4>1 DEF Strs
    <3> QED
      BY <3>1, EmptySeq DEF Strs
  <2>5. DOMAIN n = {} /\ Tails(n) = {}
    BY <1>3, RootIsThere DEF Tails
  <2> QED
    BY <1>1, <2>2, <2>3, <2>4, <2>5
<1>4. ASSUME n # NoNodes
      PROVE  /\ D \in DOMAIN n /\ D \in Strs /\ IsPrefix(D, key)
             /\ \A q \in DOMAIN n : IsPrefix(q, key) => Len(q) <= d
             /\ d \in 0 .. Len(key) /\ d \in Nat
             /\ n[D].pat \subseteq {<<>>}
  BY <1>4, DeepestIs DEF Open, Strs
<1>5. CASE n # NoNodes /\ d = Len(key)
  <2>1. D = key
    BY <1>4, <1>5, PrefixIs
  <2>2. Added(n, key, o) = With(n, key, [pat |-> {<<>>}, obj |-> o])
    BY <1>5 DEF Added
  <2>3. key \o <<>> = key
    BY ConcatEmptySeq DEF Strs
  <2>4. \A p \in Strs : IsPrefix(p, key) /\ p # key => p \in DOMAIN n /\ n[p].pat \subseteq {<<>>}
    BY <1>4, <1>5, <2>1 DEF TrieOK
  <2>5. key \in Tails(n) => Key(n, key) = key
    <3>1. ASSUME key \in Tails(n)
          PROVE  Key(n, key) = key
      <4>1. PICK s \in Strs : n[key].pat = {s} /\ Key(n, key) = key \o s
        BY <3>1, TailIs
      <4>2. s = <<>>
        BY <1>4, <1>5, <2>1, <4>1
      <4> QED
        BY <4>1, <4>2, <2>3
    <3> QED
      BY <3>1
  <2> QED
    BY <1>1, <1>2, <1>5, <2>2, <2>3, <2>4, <2>5
<1>6. CASE n # NoNodes /\ d # Len(key)
  <2> DEFINE new == SubSeq(key, 1, d + 1)
             rest == SubSeq(key, d + 2, Len(key))
  <2>1. d + 1 \in 0 .. Len(key) /\ d + 1 > d
    BY <1>1, <1>4, <1>6
  <2>2. Added(n, key, o) = With(n, new, [pat |-> {rest}, obj |-> o])
    BY <1>6 DEF Added, lpatchain_new
  <2>3. rest \in Strs /\ new \o rest = key
    <3>1. new \o rest = SubSeq(key, 1, Len(key))
      <4>1. \A m \in 1 .. Len(key) + 1 : \A k \in m - 1 .. Len(key) : \A j \in k .. Len(key) :
              SubSeq(key, m, k) \o SubSeq(key, k + 1, j) = SubSeq(key, m, j)
        BY ConcatAdjacentSubSeq DEF Strs
      <4> DEFINE k == d + 1
      <4>2. k \in 1 - 1 .. Len(key) /\ Len(key) \in k .. Len(key) /\ 1 \in 1 .. Len(key) + 1
            /\ d + 2 = k + 1
        BY <1>1, <1>4, <1>6, <2>1
      <4>3. SubSeq(key, 1, k) \o SubSeq(key, k + 1, Len(key)) = SubSeq(key, 1, Len(key))
        BY <4>1, <4>2
      <4> QED
        BY <4>2, <4>3
    <3>2. SubSeq(key, 1, Len(key)) = key
      BY SubSeqFull DEF Strs
    <3>3. \A i \in d + 2 .. Len(key) : key[i] \in Chars
      BY <1>1, <1>4 DEF Strs
    <3>4. rest \in Strs
      BY <1>1, <1>4, <3>3, SubSeqProperties, SMTT(20) DEF Strs
    <3> QED
      BY <3>1, <3>2, <3>4
  <2>4. new \in Strs /\ Len(new) = d + 1 /\ IsPrefix(new, key)
    BY <2>1, UpToIs
  <2> HIDE DEF new, rest
  <2>5. new \notin DOMAIN n
    BY <1>4, <1>6, <2>1, <2>4
  <2>6. ASSUME NEW p \in Strs, IsPrefix(p, new), p # new
        PROVE  p \in DOMAIN n /\ n[p].pat \subseteq {<<>>}
    <3>1. Len(p) <= Len(new) /\ Len(p) # Len(new) /\ Len(p) \in Nat
      BY <2>4, <2>6, PrefixIs DEF Strs
    <3>2. Len(p) <= d
      BY <1>4, <1>6, <2>4, <3>1
    <3>3. IsPrefix(p, key)
      BY <2>4, <2>6, PrefixTrans
    <3>4. IsPrefix(p, D)
      BY <1>4, <1>6, <3>2, <3>3, PrefixesAgree
    <3> QED
      BY <1>4, <1>6, <3>4 DEF TrieOK
  <2>7. ASSUME NEW q \in DOMAIN n, IsPrefix(new, q)
        PROVE  FALSE
    BY <2>4, <2>5, <2>7 DEF TrieOK
  <2>8. ASSUME NEW p \in Tails(n), Key(n, p) = key
        PROVE  FALSE
    <3>1. p = key /\ p \in DOMAIN n
      BY <1>2, <1>6, <2>8 DEF Tails
    <3>2. IsPrefix(key, key)
      BY PrefixIs, <1>1
    <3> QED
      BY <1>1, <1>4, <1>6, <3>1, <3>2
  <2>9. new \notin Tails(n)
    BY <2>5 DEF Tails
  <2> QED
    BY <2>2, <2>3, <2>4, <2>6, <2>7, <2>8, <2>9
<1> QED
  BY <1>3, <1>5, <1>6

LEMMA AddedIs ==
  ASSUME NEW n, TrieOK(n), NEW key \in Strs, Open(n, key), Case(key) = key,
         NEW o \in LpObjs, \A p \in Tails(n) : n[p].obj # o
  PROVE  LET m == Added(n, key, o)
         IN TrieOK(m) /\ Entries(m) = {e \in Entries(n) : e[1] # key} \cup {<<key, o>>}
<1> DEFINE m == Added(n, key, o)
<1>1. PICK new \in Strs, rest \in Strs :
        /\ m = With(n, new, [pat |-> {rest}, obj |-> o])
        /\ new \o rest = key
        /\ \A p \in Strs : IsPrefix(p, new) /\ p # new =>
             p \in DOMAIN n /\ n[p].pat \subseteq {<<>>}
        /\ \A q \in DOMAIN n : IsPrefix(new, q) /\ q # new => rest = <<>>
        /\ \A p \in Tails(n) : Key(n, p) = key => p = new /\ n[p].pat = {<<>>}
        /\ new \in Tails(n) => Key(n, new) = key
  BY AddedAt
<1> DEFINE node == [pat |-> {rest}, obj |-> o]
<1>2. /\ DOMAIN m = DOMAIN n \cup {new} /\ m = [q \in DOMAIN m |-> m[q]]
      /\ m[new] = node /\ \A q \in DOMAIN n \ {new} : m[q] = n[q]
  BY <1>1 DEF With
<1>3. node.pat = {rest} /\ node.obj = o
  OBVIOUS
<1> HIDE DEF m, node
<1>4. Tails(m) = (Tails(n) \ {new}) \cup {new}
  BY <1>2, <1>3 DEF Tails
<1>5. Key(m, new) = key /\ m[new].obj = o
  <2>1. (CHOOSE t \in {rest} : TRUE) = rest
    OBVIOUS
  <2> QED
    BY <1>1, <1>2, <1>3, <2>1 DEF Key
<1>6. \A p \in Tails(n) \ {new} : Key(m, p) = Key(n, p) /\ m[p].obj = n[p].obj
  BY <1>2 DEF Key, Tails
<1>7. TrieOK(m)
  <2>1. DOMAIN m \subseteq Strs
    BY <1>2 DEF TrieOK
  <2>2. \A q \in DOMAIN m : TrieNode(m[q])
    <3>1. TrieNode(node)
      BY DEF TrieNode, node
    <3> QED
      BY <1>2, <3>1 DEF TrieOK
  <2>3. ASSUME NEW q \in DOMAIN m, NEW r \in Strs, IsPrefix(r, q)
        PROVE  r \in DOMAIN m
    BY <1>1, <1>2, <2>3 DEF TrieOK
  <2>4. ASSUME NEW r \in DOMAIN m, NEW q \in DOMAIN m, IsPrefix(r, q), r # q
        PROVE  m[r].pat \subseteq {<<>>}
    <3>1. CASE r = new
      BY <1>1, <1>2, <1>3, <2>4, <3>1
    <3>2. CASE q = new
      BY <1>1, <1>2, <2>1, <2>4, <3>2
    <3>3. CASE r # new /\ q # new
      BY <1>2, <2>4, <3>3 DEF TrieOK
    <3> QED
      BY <3>1, <3>2, <3>3
  <2>5. ASSUME NEW r \in Tails(m), NEW q \in Tails(m), m[r].obj = m[q].obj
        PROVE  r = q
    <3>1. \A x, y \in Tails(n) : n[x].obj = n[y].obj => x = y
      BY DEF TrieOK
    <3> QED
      BY <1>4, <1>5, <1>6, <2>5, <3>1
  <2>6. ASSUME NEW q \in Tails(m)
        PROVE  Case(Key(m, q)) = Key(m, q)
    BY <1>4, <1>5, <1>6 DEF TrieOK
  <2> QED
    BY <1>2, <2>1, <2>2, <2>3, <2>4, <2>5, <2>6 DEF TrieOK
<1>8. Entries(m) = {e \in Entries(n) : e[1] # key} \cup {<<key, o>>}
  <2>1. \A p \in Tails(n) : p = new <=> Key(n, p) = key
    BY <1>1
  <2>2. ASSUME NEW p \in Tails(m)
        PROVE  <<Key(m, p), m[p].obj>> \in {e \in Entries(n) : e[1] # key} \cup {<<key, o>>}
    <3>1. CASE p = new
      BY <1>5, <3>1
    <3>2. CASE p # new
      BY <1>4, <1>6, <2>1, <3>2 DEF Entries
    <3> QED
      BY <3>1, <3>2
  <2>3. <<key, o>> \in Entries(m)
    BY <1>4, <1>5, Zenon DEF Entries
  <2>4. ASSUME NEW p \in Tails(n), Key(n, p) # key
        PROVE  <<Key(n, p), n[p].obj>> \in Entries(m)
    <3>1. p \in Tails(m) /\ Key(m, p) = Key(n, p) /\ m[p].obj = n[p].obj
      BY <1>1, <1>4, <1>6, <2>4
    <3> QED
      BY <3>1, Zenon DEF Entries
  <2> QED
    BY <2>2, <2>3, <2>4 DEF Entries
<1> QED
  BY <1>7, <1>8 DEF m

LEMMA ThereAlready ==
  ASSUME NEW n, TrieOK(n), NEW key \in Strs, Open(n, key)
  PROVE  {n[p].obj : p \in {q \in Tails(n) : q = key /\ n[q].pat = {<<>>}}}
           = {n[p].obj : p \in {q \in Tails(n) : Key(n, q) = key}}
<1>1. ASSUME NEW p \in Tails(n), Key(n, p) = key
      PROVE  p = key /\ n[p].pat = {<<>>}
  BY <1>1, HeldThere
<1>2. ASSUME NEW p \in Tails(n), p = key, n[p].pat = {<<>>}
      PROVE  Key(n, p) = key
  <2>1. PICK s \in Strs : n[p].pat = {s} /\ Key(n, p) = p \o s /\ p \in Strs
    BY TailIs
  <2>2. s = <<>>
    BY <1>2, <2>1
  <2> QED
    BY <1>2, <2>1, <2>2, AppendedIs
<1> QED
  BY <1>1, <1>2

LEMMA EntriesAreDict ==
  ASSUME NEW n, TrieOK(n)
  PROVE  /\ Entries(n) = {<<s, DictOf(n)[s]>> : s \in KeysOf(n)}
         /\ \A key : {n[p].obj : p \in {q \in Tails(n) : Key(n, q) = key}}
                       = IF key \in KeysOf(n) THEN {DictOf(n)[key]} ELSE {}
         /\ {n[p].obj : p \in Tails(n)} = {DictOf(n)[s] : s \in KeysOf(n)}
<1>1. \A p \in Tails(n) : Key(n, p) \in KeysOf(n) /\ DictOf(n)[Key(n, p)] = n[p].obj
  BY DictIs
<1>2. \A s \in KeysOf(n) : \E p \in Tails(n) : Key(n, p) = s /\ DictOf(n)[s] = n[p].obj
  BY <1>1 DEF KeysOf
<1>3. Entries(n) = {<<s, DictOf(n)[s]>> : s \in KeysOf(n)}
  <2>1. ASSUME NEW p \in Tails(n)
        PROVE  <<Key(n, p), n[p].obj>> \in {<<s, DictOf(n)[s]>> : s \in KeysOf(n)}
    BY <1>1
  <2>2. ASSUME NEW s \in KeysOf(n)
        PROVE  <<s, DictOf(n)[s]>> \in Entries(n)
    BY <1>2 DEF Entries
  <2> QED
    BY <2>1, <2>2 DEF Entries
<1>4. ASSUME NEW key
      PROVE  {n[p].obj : p \in {q \in Tails(n) : Key(n, q) = key}}
               = IF key \in KeysOf(n) THEN {DictOf(n)[key]} ELSE {}
  BY <1>1, <1>2
<1>5. {n[p].obj : p \in Tails(n)} = {DictOf(n)[s] : s \in KeysOf(n)}
  <2>1. \A p \in Tails(n) : n[p].obj \in {DictOf(n)[s] : s \in KeysOf(n)}
    BY <1>1
  <2>2. \A s \in KeysOf(n) : DictOf(n)[s] \in {n[p].obj : p \in Tails(n)}
    BY <1>2
  <2> QED
    BY <2>1, <2>2
<1> QED
  BY <1>3, <1>4, <1>5

\* Two tries that hold the same are the same map.
LEMMA SameEntries ==
  ASSUME NEW n, NEW m, TrieOK(n), TrieOK(m), Entries(m) = Entries(n)
  PROVE  DictOf(m) = DictOf(n)
<1>1. Entries(n) = {<<s, DictOf(n)[s]>> : s \in DOMAIN DictOf(n)}
  BY EntriesAreDict, DictIs
<1>2. DictOf(n) = [s \in DOMAIN DictOf(n) |-> DictOf(n)[s]]
  BY DEF DictOf
<1> QED
  BY <1>1, <1>2, DictFromEntries

LEMMA CaseIs ==
  ASSUME LpAssumption, NEW s \in Strs
  PROVE  /\ Case(s) \in Strs /\ Len(Case(s)) = Len(s) /\ Case(Case(s)) = Case(s)
         /\ \A k \in 0 .. Len(s) : Case(SubSeq(s, 1, k)) = SubSeq(Case(s), 1, k)
<1>1. Len(s) \in Nat /\ DOMAIN s = 1 .. Len(s) /\ \A k \in 1 .. Len(s) : s[k] \in Chars
  BY DEF Strs
<1> DEFINE l == [k \in 1 .. Len(s) |-> tolower[s[k]]]
<1>2. Lower(s) = l
  BY <1>1 DEF Lower
<1>3. l \in Strs /\ Len(l) = Len(s)
  <2>1. \A k \in 1 .. Len(s) : tolower[s[k]] \in Chars
    BY <1>1 DEF LpAssumption, Chars
  <2>2. l \in [1 .. Len(s) -> Chars]
    BY <2>1
  <2> QED
    BY <1>1, <2>2 DEF Strs
<1>4. Lower(l) = l
  <2>1. DOMAIN l = 1 .. Len(s)
    OBVIOUS
  <2>2. \A k \in 1 .. Len(s) : tolower[l[k]] = l[k]
    BY <1>1 DEF LpAssumption, Chars
  <2>3. Lower(l) = [k \in 1 .. Len(s) |-> tolower[l[k]]]
    BY <2>1, Zenon DEF Lower
  <2>4. Lower(l) = [k \in 1 .. Len(s) |-> l[k]]
    BY <2>2, <2>3
  <2> QED
    BY <2>4
<1>5. ASSUME NEW k \in 0 .. Len(s)
      PROVE  Lower(SubSeq(s, 1, k)) = SubSeq(l, 1, k)
  <2>1. /\ SubSeq(s, 1, k) \in Strs /\ Len(SubSeq(s, 1, k)) = k
        /\ \A j \in 1 .. k : SubSeq(s, 1, k)[j] = s[j]
    BY UpToIs
  <2>2. /\ SubSeq(l, 1, k) \in Strs /\ Len(SubSeq(l, 1, k)) = k
        /\ \A j \in 1 .. k : SubSeq(l, 1, k)[j] = l[j]
    BY <1>3, UpToIs
  <2> DEFINE c == SubSeq(s, 1, k)
             d == SubSeq(l, 1, k)
  <2>3. DOMAIN c = 1 .. k /\ d = [j \in 1 .. k |-> d[j]]
    BY <2>1, <2>2 DEF Strs
  <2>4. \A j \in 1 .. k : tolower[c[j]] = d[j]
    BY <1>1, <2>1, <2>2
  <2>5. Lower(c) = [j \in 1 .. k |-> tolower[c[j]]]
    BY <2>3, Zenon DEF Lower
  <2>6. Lower(c) = [j \in 1 .. k |-> d[j]]
    BY <2>4, <2>5
  <2> QED
    BY <2>3, <2>6
<1> HIDE DEF l
<1>6. CASE NoCase
  BY <1>2, <1>3, <1>4, <1>5, <1>6 DEF Case
<1>7. CASE ~NoCase
  BY <1>7 DEF Case
<1> QED
  BY <1>6, <1>7

\* The nearest tail of a set on one way down, the one a lookup meets first.
LEMMA NearestIs ==
  ASSUME NEW n, TrieOK(n), NEW way \in SUBSET Tails(n), way # {}
  PROVE  LET p == CHOOSE x \in way : \A q \in way : Len(x) <= Len(q)
         IN p \in way /\ \A q \in way : Len(p) <= Len(q)
<1> DEFINE lens == {Len(p) : p \in way}
<1>1. \A p \in way : p \in Strs /\ Len(p) \in Nat
  BY TailIs DEF Strs
<1>2. lens \subseteq Nat /\ lens # {}
  BY <1>1
<1>3. PICK m \in lens : \A y \in lens : ~ (<<y, m>> \in OpToRel(<, Nat))
  <2> HIDE DEF lens
  <2> QED
    BY <1>2, WFMin, NatLessThanWellFounded
<1>4. \A y \in lens : m <= y
  <2> HIDE DEF lens
  <2>1. \A y \in lens : ~ (y < m)
    BY <1>2, <1>3 DEF OpToRel
  <2> QED
    BY <1>2, <2>1
<1>5. PICK p \in way : m = Len(p)
  OBVIOUS
<1>6. \A q \in way : Len(p) <= Len(q)
  BY <1>4, <1>5
<1> QED
  BY <1>6, Zenon

LEMMA LookupFinds ==
  ASSUME LpAssumption, TrieOK(nodes), NEW s \in Strs
  PROVE  /\ lookup_lrupat(nodes, s) = Find(s)
         /\ lookup_lrupat_blob(nodes, s) \subseteq Find(s)
<1>1. /\ Case(s) \in Strs /\ Len(Case(s)) = Len(s) /\ Case(Case(s)) = Case(s) /\ Len(s) \in Nat
      /\ \A k \in 1 .. Len(s) : s[k] # NUL
  BY CaseIs DEF Strs, Chars, LpAssumption
<1>2. \A p \in Tails(nodes) :
        /\ p \in Strs /\ Key(nodes, p) \in Strs /\ Len(p) <= Len(Key(nodes, p))
        /\ Case(Key(nodes, p)) = Key(nodes, p) /\ IsPrefix(p, Key(nodes, p))
  BY TailIs
<1> DEFINE at == {q \in Tails(nodes) : Key(nodes, q) = Case(s)}
           way == {p \in Tails(nodes) : /\ IsPrefix(Key(nodes, p), Case(s))
                                        /\ Ends(s, Len(Key(nodes, p)), NUL)
                                        /\ \A k \in DOMAIN p : s[k] # NUL}
<1>3. way = at
  <2>1. ASSUME NEW p \in Tails(nodes), IsPrefix(Key(nodes, p), Case(s)), Ends(s, Len(Key(nodes, p)), NUL)
        PROVE  Key(nodes, p) = Case(s)
    <3>1. Len(Key(nodes, p)) \in Nat /\ Len(Key(nodes, p)) <= Len(s)
      BY <1>1, <1>2, <2>1, PrefixIs DEF Strs
    <3>2. ~(Len(Key(nodes, p)) < Len(s))
      BY <1>1, <2>1, <3>1 DEF Ends
    <3> QED
      BY <1>1, <1>2, <2>1, <3>1, <3>2, PrefixIs
  <2>2. ASSUME NEW p \in Tails(nodes), Key(nodes, p) = Case(s)
        PROVE  p \in way
    <3>1. IsPrefix(Key(nodes, p), Case(s))
      BY <1>1, <2>2, PrefixIs
    <3>2. Ends(s, Len(Key(nodes, p)), NUL)
      BY <1>1, <2>2 DEF Ends
    <3>3. DOMAIN p = 1 .. Len(p) /\ Len(p) \in Nat /\ Len(p) <= Len(s)
      BY <1>1, <1>2, <2>2 DEF Strs
    <3> QED
      BY <1>1, <3>1, <3>2, <3>3
  <2> QED
    BY <2>1, <2>2
<1>4. \A p, q \in at : p = q
  BY OneTailForAKey
<1>5. lookup_lrupat(nodes, s) = Find(s)
  <2>1. lookup_lrupat(nodes, s)
          = IF way = {} THEN {}
            ELSE {nodes[CHOOSE p \in way : \A q \in way : Len(p) <= Len(q)].obj}
    BY Zenon DEF lookup_lrupat, Answer
  <2>2. Find(s) = {nodes[p].obj : p \in at}
    BY DEF Find
  <2> DEFINE first == CHOOSE p \in way : \A q \in way : Len(p) <= Len(q)
  <2>3. way \in SUBSET Tails(nodes)
    OBVIOUS
  <2> HIDE DEF way, at
  <2>4. way # {} => first \in way
    BY <2>3, NearestIs
  <2> QED
    BY <1>3, <1>4, <2>1, <2>2, <2>4
<1>6. lookup_lrupat_blob(nodes, s) \subseteq Find(s)
  <2> DEFINE road == {p \in Tails(nodes) : IsPrefix(p, s)}
             first == CHOOSE p \in road : \A q \in road : Len(p) <= Len(q)
  <2>1. lookup_lrupat_blob(nodes, s)
          = IF road # {} /\ Key(nodes, first) = s THEN {nodes[first].obj} ELSE {}
    BY Zenon DEF lookup_lrupat_blob
  <2>2. ASSUME road # {}, Key(nodes, first) = s
        PROVE  nodes[first].obj \in Find(s)
    <3>1. first \in road
      <4>1. road \in SUBSET Tails(nodes)
        OBVIOUS
      <4> HIDE DEF road
      <4> QED
        BY <2>2, <4>1, NearestIs
    <3>2. first \in Tails(nodes)
      BY <3>1
    <3> HIDE DEF first
    <3>3. Case(s) = s
      BY <1>2, <2>2, <3>2
    <3> QED
      BY <2>2, <3>2, <3>3 DEF Find
  <2> QED
    BY <2>1, <2>2
<1> QED
  BY <1>5, <1>6

LEMMA LookupUpTo ==
  ASSUME LpAssumption, TrieOK(nodes), NEW s \in Strs, NEW cut \in StopsIn(s),
         \A k \in StopsIn(s) : cut <= k
  PROVE  \/ lookup_lrupat_term(nodes, s) = Find(UpTo(s, cut))
         \/ /\ Find(UpTo(s, cut)) = {}
            /\ \E k \in StopsIn(s) : lookup_lrupat_term(nodes, s) = Find(UpTo(s, k))
<1>1. /\ Case(s) \in Strs /\ Len(Case(s)) = Len(s) /\ Len(s) \in Nat
      /\ \A k \in 0 .. Len(s) : Case(UpTo(s, k)) = SubSeq(Case(s), 1, k)
  BY CaseIs DEF Strs, UpTo
<1>2. cut \in 0 .. Len(s) - 1 /\ cut \in Nat /\ s[cut + 1] = Stop /\ Stop # NUL
  BY <1>1 DEF StopsIn, Strs, Chars, LpAssumption
<1>3. \A p \in Tails(nodes) :
        /\ p \in Strs /\ Key(nodes, p) \in Strs /\ Len(p) \in Nat /\ Len(Key(nodes, p)) \in Nat
        /\ Len(p) <= Len(Key(nodes, p)) /\ IsPrefix(p, Key(nodes, p)) /\ p \in DOMAIN nodes
  BY TailIs DEF Strs
<1> DEFINE way == {p \in Tails(nodes) : /\ IsPrefix(Key(nodes, p), Case(s))
                                        /\ Ends(s, Len(Key(nodes, p)), Stop)
                                        /\ \A k \in DOMAIN p : s[k] # Stop}
           first == CHOOSE p \in way : \A q \in way : Len(p) <= Len(q)
<1>4. lookup_lrupat_term(nodes, s) = IF way = {} THEN {} ELSE {nodes[first].obj}
  BY Zenon DEF lookup_lrupat_term, Answer
\* what a tail of the way has is the string up to one of its terminators
<1>5. ASSUME NEW p \in way
      PROVE  LET k == Len(Key(nodes, p))
             IN k \in StopsIn(s) /\ Find(UpTo(s, k)) = {nodes[p].obj}
  <2> DEFINE k == Len(Key(nodes, p))
  <2>1. k \in 0 .. Len(s)
    BY <1>1, <1>3, PrefixIs
  <2>2. k < Len(s) /\ s[k + 1] = Stop
    BY <1>1, <1>2, <2>1 DEF Ends
  <2>3. k \in StopsIn(s)
    BY <1>1, <2>1, <2>2 DEF StopsIn
  <2>4. Key(nodes, p) = SubSeq(Case(s), 1, k)
    <3>1. /\ SubSeq(Case(s), 1, k) \in Strs /\ Len(SubSeq(Case(s), 1, k)) = k
          /\ IsPrefix(SubSeq(Case(s), 1, k), Case(s))
      BY <1>1, <2>1, UpToIs
    <3>2. Key(nodes, p) \in Strs /\ IsPrefix(Key(nodes, p), Case(s))
      BY <1>3
    <3>3. k <= k
      BY <2>1
    <3> QED
      BY <1>1, <3>1, <3>2, <3>3, PrefixesAgree
  <2>5. Key(nodes, p) = Case(UpTo(s, k))
    BY <1>1, <2>1, <2>4
  <2>6. p \in Tails(nodes) /\ \A q \in Tails(nodes) : Key(nodes, q) = Key(nodes, p) => q = p
    BY OneTailForAKey
  <2> QED
    BY <2>3, <2>5, <2>6 DEF Find
<1>6. ASSUME NEW q \in Tails(nodes), Key(nodes, q) = Case(UpTo(s, cut))
      PROVE  q \in way /\ Len(Key(nodes, q)) = cut
  <2>1. Key(nodes, q) = SubSeq(Case(s), 1, cut) /\ cut \in 0 .. Len(Case(s))
    BY <1>1, <1>2, <1>6
  <2>2. IsPrefix(Key(nodes, q), Case(s)) /\ Len(Key(nodes, q)) = cut
    BY <1>1, <2>1, UpToIs
  <2>3. Ends(s, Len(Key(nodes, q)), Stop)
    BY <1>1, <1>2, <2>2 DEF Ends
  <2>4. DOMAIN q = 1 .. Len(q) /\ Len(q) <= cut /\ Len(q) \in Nat
    BY <1>3, <2>2 DEF Strs
  <2>5. ASSUME NEW k \in 1 .. Len(q), s[k] = Stop
        PROVE  FALSE
    <3>1. k - 1 \in StopsIn(s)
      BY <1>1, <1>2, <2>4, <2>5 DEF StopsIn
    <3> QED
      BY <1>2, <2>4, <3>1
  <2> QED
    BY <2>2, <2>3, <2>4, <2>5
<1>7. way \in SUBSET Tails(nodes)
  OBVIOUS
<1>8. CASE way = {}
  <2>1. Find(UpTo(s, cut)) = {}
    BY <1>6, <1>8 DEF Find
  <2> QED
    BY <1>4, <1>8, <2>1
<1>9. CASE way # {}
  <2>1. first \in way /\ \A q \in way : Len(first) <= Len(q)
    <3> HIDE DEF way
    <3> QED
      BY <1>7, <1>9, NearestIs
  <2>2. lookup_lrupat_term(nodes, s) = {nodes[first].obj}
    BY <1>4, <1>9
  <2> DEFINE k == Len(Key(nodes, first))
  <2>3. k \in StopsIn(s) /\ Find(UpTo(s, k)) = {nodes[first].obj}
    BY <1>5, <2>1
  <2>4. CASE Find(UpTo(s, cut)) = {}
    BY <2>2, <2>3, <2>4
  <2>5. CASE Find(UpTo(s, cut)) # {}
    <3>1. PICK q \in Tails(nodes) : Key(nodes, q) = Case(UpTo(s, cut))
      BY <2>5 DEF Find
    <3>2. q \in way /\ Len(Key(nodes, q)) = cut
      BY <1>6, <3>1
    <3>3. first \in Tails(nodes) /\ Len(first) <= Len(q) /\ IsPrefix(Key(nodes, first), Case(s))
      BY <2>1, <3>2
    <3> HIDE DEF first
    <3>4. /\ first \in Strs /\ q \in Strs /\ Key(nodes, first) \in Strs /\ Key(nodes, q) \in Strs
          /\ IsPrefix(first, Case(s)) /\ IsPrefix(q, Case(s))
      <4>1. IsPrefix(Key(nodes, q), Case(s))
        BY <3>2
      <4>2. /\ IsPrefix(first, Key(nodes, first)) /\ IsPrefix(q, Key(nodes, q))
            /\ first \in Strs /\ q \in Strs /\ Key(nodes, first) \in Strs /\ Key(nodes, q) \in Strs
        BY <1>3, <3>3
      <4> QED
        BY <1>1, <3>3, <4>1, <4>2, PrefixTrans
    <3>5. first = q
      <4> SUFFICES ASSUME first # q PROVE FALSE
        OBVIOUS
      <4>1. IsPrefix(first, q) /\ Len(first) # Len(q)
        BY <1>1, <3>3, <3>4, PrefixesAgree
      <4>2. Key(nodes, first) = first
        BY <1>3, <3>3, <4>1, TailAbove
      <4>3. Len(q) <= cut
        BY <1>3, <3>2
      <4> QED
        BY <1>2, <1>3, <2>3, <3>3, <4>1, <4>2, <4>3
    <3>6. k = cut
      BY <3>2, <3>5
    <3> QED
      BY <2>2, <2>3, <3>6
  <2> QED
    BY <2>4, <2>5
<1> QED
  BY <1>8, <1>9

TrieInv == TrieOK(nodes) /\ watched \in [LpObjs -> Nat]

LEMMA TrieDictIs == TrieDict = DictOf(nodes) /\ TrieKeys = KeysOf(nodes)
BY DEF TrieDict, TrieKeys, DictOf, KeysOf

LEMMA TrieBackIs ==
  ASSUME NEW S
  PROVE  Handed(S) = TrieAbs!Back(S)
BY DEF Handed, TrieAbs!Back

LEMMA NothingHeld ==
  TrieOK(NoNodes) /\ DictOf(NoNodes) = [k \in {} |-> k] /\ KeysOf(NoNodes) = {}
<1>1. DOMAIN NoNodes = {} /\ NoNodes = [p \in DOMAIN NoNodes |-> NoNodes[p]]
  BY DEF NoNodes
<1>2. Tails(NoNodes) = {}
  BY <1>1 DEF Tails
<1>3. TrieOK(NoNodes)
  BY <1>1, <1>2 DEF TrieOK
<1>4. KeysOf(NoNodes) = {}
  BY <1>2 DEF KeysOf
<1>5. DictOf(NoNodes) = [k \in {} |-> k]
  BY <1>4 DEF DictOf
<1> QED
  BY <1>3, <1>4, <1>5

\* Adding a key replaces what the map has for it and hands that back.
LEMMA AddPuts ==
  ASSUME LpAssumption, TrieInv, NEW s \in Strings, NEW o \in LpObjs \ Held, add_lrupat_helper(s, o)
  PROVE  TrieInv' /\ TrieAbs!Put(Case(s), o)
<1> DEFINE key == Case(s)
           open == Opened(nodes, key)
           d == DictOf(nodes)
           e == [q \in KeysOf(nodes) \cup {key} |-> IF q = key THEN o ELSE d[q]]
<1>1. key \in Strs /\ Case(key) = key
  BY CaseIs DEF LpAssumption, Strs, Chars
<1>2. TrieOK(nodes)
  BY DEF TrieInv
<1>3. TrieOK(open) /\ Entries(open) = Entries(nodes) /\ Open(open, key)
  BY <1>1, <1>2, OpenedIs
<1>4. /\ nodes' = Added(open, key, o)
      /\ watched' = Handed({open[p].obj : p \in {q \in Tails(open) : q = key /\ open[q].pat = {<<>>}}})
  BY DEF add_lrupat_helper
<1>5. DictOf(open) = d /\ KeysOf(open) = KeysOf(nodes)
  BY <1>2, <1>3, SameEntries, DictIs
<1> HIDE DEF open, key
<1>6. \A p \in Tails(open) : open[p].obj # o
  <2>1. {open[p].obj : p \in Tails(open)} = {nodes[p].obj : p \in Tails(nodes)}
    <3>1. {open[p].obj : p \in Tails(open)} = {DictOf(open)[t] : t \in KeysOf(open)}
      BY <1>3, EntriesAreDict
    <3>2. {nodes[p].obj : p \in Tails(nodes)} = {DictOf(nodes)[t] : t \in KeysOf(nodes)}
      BY <1>2, EntriesAreDict
    <3> QED
      BY <1>5, <3>1, <3>2
  <2> QED
    BY <2>1 DEF Held
<1>7. TrieOK(nodes') /\ Entries(nodes') = {x \in Entries(open) : x[1] # key} \cup {<<key, o>>}
  BY <1>1, <1>3, <1>4, <1>6, AddedIs
<1>8. Entries(nodes') = {<<q, e[q]>> : q \in DOMAIN e}
  <2>1. Entries(open) = {<<q, d[q]>> : q \in KeysOf(nodes)}
    BY <1>2, <1>3, EntriesAreDict
  <2>2. DOMAIN e = KeysOf(nodes) \cup {key} /\ e[key] = o /\ \A q \in KeysOf(nodes) \ {key} : e[q] = d[q]
    OBVIOUS
  <2> HIDE DEF d, e
  <2>3. ASSUME NEW x \in Entries(open), x[1] # key
        PROVE  x \in {<<q, e[q]>> : q \in DOMAIN e}
    <3>1. PICK q \in KeysOf(nodes) : x = <<q, d[q]>>
      BY <2>1
    <3>2. q # key
      BY <2>3, <3>1
    <3> QED
      BY <2>2, <3>1, <3>2
  <2>4. <<key, o>> \in {<<q, e[q]>> : q \in DOMAIN e}
    BY <2>2
  <2>5. ASSUME NEW q \in DOMAIN e, q # key
        PROVE  <<q, e[q]>> \in Entries(open) /\ <<q, e[q]>>[1] # key
    BY <2>1, <2>2, <2>5
  <2>6. <<key, e[key]>> = <<key, o>>
    BY <2>2
  <2> QED
    BY <1>7, <2>3, <2>4, <2>5, <2>6
<1>9. DictOf(nodes') = e
  <2>1. e = [q \in DOMAIN e |-> e[q]]
    OBVIOUS
  <2> HIDE DEF e
  <2> QED
    BY <1>7, <1>8, <2>1, DictFromEntries
<1>10. watched' = TrieAbs!Back(IF key \in KeysOf(nodes) THEN {d[key]} ELSE {})
  <2>1. {open[p].obj : p \in {q \in Tails(open) : q = key /\ open[q].pat = {<<>>}}}
          = {open[p].obj : p \in {q \in Tails(open) : Key(open, q) = key}}
    BY <1>1, <1>3, ThereAlready
  <2>2. {open[p].obj : p \in {q \in Tails(open) : Key(open, q) = key}}
          = IF key \in KeysOf(nodes) THEN {d[key]} ELSE {}
    BY <1>3, <1>5, EntriesAreDict
  <2> QED
    BY <1>4, <2>1, <2>2, TrieBackIs
<1>11. TrieDict = d /\ TrieDict' = e /\ TrieAbs!Present = KeysOf(nodes)
  <2>1. TrieDict' = DictOf(nodes')
    BY DEF TrieDict, TrieKeys, DictOf, KeysOf
  <2> QED
    BY <1>2, <1>9, <2>1, TrieDictIs, DictIs DEF TrieAbs!Present
<1>12. TrieAbs!Put(key, o)
  <2> HIDE DEF d
  <2> QED
    BY <1>10, <1>11 DEF TrieAbs!Put, NoClash
<1>13. watched' \in [LpObjs -> Nat]
  BY <1>4 DEF Handed
<1> QED
  BY <1>7, <1>12, <1>13 DEF TrieInv, key

\* A call that fails leaves the map as it is.
LEMMA FailRefuses ==
  ASSUME LpAssumption, TrieInv, NEW s \in Strings, AddFails(s)
  PROVE  TrieInv' /\ TrieAbs!Refuse
<1>1. Case(s) \in Strs
  BY CaseIs DEF LpAssumption, Strs, Chars
<1>2. TrieOK(nodes)
  BY DEF TrieInv
<1>3. TrieOK(Opened(nodes, Case(s))) /\ Entries(Opened(nodes, Case(s))) = Entries(nodes)
  BY <1>1, <1>2, OpenedIs
<1>4. TrieOK(nodes') /\ Entries(nodes') = Entries(nodes) /\ watched' = Handed({})
  BY <1>2, <1>3 DEF AddFails
<1>5. DictOf(nodes') = DictOf(nodes)
  BY <1>2, <1>4, SameEntries
<1>6. TrieDict' = TrieDict
  <2>1. TrieDict' = DictOf(nodes')
    BY DEF TrieDict, TrieKeys, DictOf, KeysOf
  <2> QED
    BY <1>5, <2>1, TrieDictIs
<1>7. watched' = TrieAbs!Back({}) /\ watched' \in [LpObjs -> Nat]
  BY <1>4, TrieBackIs DEF Handed
<1> QED
  BY <1>4, <1>6, <1>7 DEF TrieInv, TrieAbs!Refuse

\* Destroying the trie hands every object back, once.
LEMMA DestroyClears ==
  ASSUME LpAssumption, TrieInv, destroy_lrupat
  PROVE  TrieInv' /\ TrieAbs!Clear
<1> DEFINE at(o) == {p \in DOMAIN nodes : nodes[p].obj = o}
           objs == {DictOf(nodes)[k] : k \in KeysOf(nodes)}
<1>1. TrieOK(nodes)
  BY DEF TrieInv
<1>2. /\ nodes' = NoNodes
      /\ watched' = [o \in LpObjs |-> Cardinality(at(o))]
  BY DEF destroy_lrupat
<1>3. objs = {nodes[p].obj : p \in Tails(nodes)}
  BY <1>1, EntriesAreDict
<1>4. ASSUME NEW o \in LpObjs
      PROVE  Cardinality(at(o)) = IF o \in objs THEN 1 ELSE 0
  <2>1. \A p \in DOMAIN nodes : nodes[p].obj = o => p \in Tails(nodes)
    BY <1>1, HollowIs DEF Hollow, LpAssumption
  <2>2. CASE o \in objs
    <3>1. PICK p \in Tails(nodes) : nodes[p].obj = o
      BY <1>3, <2>2
    <3>2. at(o) = {p}
      BY <1>1, <2>1, <3>1 DEF TrieOK, Tails
    <3> QED
      BY <2>2, <3>2, FS_Singleton
  <2>3. CASE o \notin objs
    <3>1. at(o) = {}
      BY <1>3, <2>1, <2>3
    <3> QED
      BY <2>3, <3>1, FS_EmptySet
  <2> QED
    BY <2>2, <2>3
<1>5. watched' = TrieAbs!Back(objs) /\ watched' \in [LpObjs -> Nat]
  <2>1. TrieAbs!Back(objs) = [o \in LpObjs |-> IF o \in objs THEN 1 ELSE 0]
    BY DEF TrieAbs!Back
  <2> HIDE DEF at, objs
  <2>2. watched' = [o \in LpObjs |-> IF o \in objs THEN 1 ELSE 0]
    BY <1>2, <1>4
  <2> QED
    BY <2>1, <2>2
<1>6. TrieDict = DictOf(nodes) /\ TrieAbs!Present = KeysOf(nodes)
  BY <1>1, TrieDictIs, DictIs DEF TrieAbs!Present
<1>7. TrieDict' = [k \in {} |-> k]
  <2>1. TrieDict' = DictOf(nodes')
    BY DEF TrieDict, TrieKeys, DictOf, KeysOf
  <2> QED
    BY <1>2, <2>1, NothingHeld
<1>8. TrieAbs!Clear
  BY <1>5, <1>6, <1>7 DEF TrieAbs!Clear
<1> QED
  BY <1>2, <1>5, <1>8, NothingHeld DEF TrieInv

LEMMA TrieInitOK ==
  ASSUME LpInit
  PROVE  TrieInv /\ TrieAbs!Init
<1>1. TrieDict = [k \in {} |-> k]
  BY NothingHeld, TrieDictIs DEF LpInit
<1>2. watched = TrieAbs!Back({}) /\ watched \in [LpObjs -> Nat]
  BY TrieBackIs DEF LpInit, Handed
<1> QED
  BY <1>1, <1>2, NothingHeld DEF LpInit, TrieInv, TrieAbs!Init

LEMMA TrieNext ==
  ASSUME LpAssumption, TrieInv, [LpNext]_lpvars
  PROVE  TrieInv' /\ [TrieAbs!Next]_<<TrieDict, watched>>
<1>1. ASSUME NEW s \in Strings, AddFails(s)
      PROVE  TrieInv' /\ TrieAbs!Next
  BY <1>1, FailRefuses DEF TrieAbs!Next
<1>2. ASSUME NEW s \in Strings, NEW o \in LpObjs \ Held, add_lrupat_helper(s, o)
      PROVE  TrieInv' /\ TrieAbs!Next
  <2>1. TrieInv' /\ TrieAbs!Put(Case(s), o) /\ Case(s) \in {Case(t) : t \in Strings}
    BY <1>2, AddPuts
  <2> QED
    BY <2>1 DEF TrieAbs!Next
<1>3. CASE destroy_lrupat
  BY <1>3, DestroyClears DEF TrieAbs!Next
<1>4. CASE UNCHANGED lpvars
  BY <1>4 DEF lpvars, TrieInv, TrieDict, TrieKeys
<1> QED
  BY <1>1, <1>2, <1>3, <1>4 DEF LpNext

LEMMA TrieAnswers ==
  ASSUME LpAssumption, TrieInv
  PROVE  TrieSearches
<1>1. \A s \in Strings : s \in Strs
  BY DEF LpAssumption, Strs, Chars
<1> QED
  BY <1>1, LookupFinds, LookupUpTo DEF TrieSearches, TrieInv

\* The lookups of the trie answer from the map of what was added, whatever the strings, and
\* adding, failing and destroying change it and hand objects back as a map does (lrupat.c).
THEOREM TrieCorrect == LpSpec => TrieIsMap
<1>1. LpInit => TrieInv /\ TrieAbs!Init
  BY TrieInitOK
<1>2. TrieInv /\ [LpNext]_lpvars => TrieInv' /\ [TrieAbs!Next]_<<TrieDict, watched>>
  BY LpAssumption, TrieNext
<1>3. TrieInv => TrieSearches
  BY LpAssumption, TrieAnswers
<1> QED
  BY <1>1, <1>2, <1>3, PTL DEF LpSpec, TrieIsMap, TrieAbs!Spec

-------------------------------------------------------------------------------
(* Counting, choosing and folding.                                          *)

LEMMA CountUp ==
  ASSUME NEW n \in Nat, NEW T, 0 \in T, \A k \in 0 .. n - 1 : k \in T => k + 1 \in T
  PROVE  0 .. n \subseteq T
<1> DEFINE B == {k \in 0 .. n : k \notin T}
<1>1. CASE B = {}
  BY <1>1
<1>2. CASE B # {}
  <2>1. PICK m \in B : \A y \in B : ~(<<y, m>> \in OpToRel(<, Nat))
    <3>1. B \subseteq Nat
      OBVIOUS
    <3> HIDE DEF B
    <3> QED
      BY <1>2, <3>1, WFMin, NatLessThanWellFounded
  <2>2. m \in 0 .. n /\ m \notin T /\ m # 0
    OBVIOUS
  <2>3. m - 1 \notin B
    <3>1. m - 1 \in Nat /\ m \in Nat /\ m - 1 < m
      BY <2>2
    <3> QED
      BY <2>1, <3>1 DEF OpToRel
  <2>4. m - 1 \in T /\ m - 1 \in 0 .. n - 1
    BY <2>2, <2>3
  <2>5. (m - 1) + 1 \in T
    BY <2>4
  <2> QED
    BY <2>2, <2>5
<1> QED
  BY <1>1, <1>2

LEMMA LeastIs ==
  ASSUME NEW S \in SUBSET Nat, S # {}
  PROVE  Least(S) \in S /\ \A y \in S : Least(S) <= y
<1>1. PICK m \in S : \A y \in S : ~(<<y, m>> \in OpToRel(<, Nat))
  BY WFMin, NatLessThanWellFounded
<1>2. \A y \in S : ~(y < m)
  BY <1>1 DEF OpToRel
<1>3. \A y \in S : m <= y
  BY <1>2
<1> QED
  BY <1>3 DEF Least

LEMMA MostIs ==
  ASSUME NEW n \in Nat, NEW S \in SUBSET (0 .. n), S # {}
  PROVE  Most(S) \in S /\ \A y \in S : y <= Most(S)
<1> DEFINE R == {n - x : x \in S}
<1>1. R \in SUBSET Nat /\ R # {}
  <2>1. \A x \in S : n - x \in Nat
    OBVIOUS
  <2> QED
    BY <2>1
<1>2. Least(R) \in R /\ \A y \in R : Least(R) <= y
  <2> HIDE DEF R
  <2> QED
    BY <1>1, LeastIs
<1>3. PICK m \in S : Least(R) = n - m
  BY <1>2
<1>4. \A y \in S : n - m <= n - y
  BY <1>2, <1>3
<1>5. \A y \in S : y <= m
  BY <1>4
<1> QED
  BY <1>5 DEF Most

\* The function behind a fold of a sequence, for a step given as a function.
Runs(h, g, base, q, n) ==
  \A w \in SUBSET (1 .. n) : h[w] = IF w = {} THEN base ELSE g[<<h[w \ {Max(w)}], q[Max(w)]>>]

Steps(g, D, X) == g \in [D \X X -> D]
Items(q, X, n) == \A k \in 1 .. n : q[k] \in X

LEMMA FoldRun ==
  ASSUME NEW D, NEW X, NEW g, Steps(g, D, X), NEW base \in D, NEW n \in Nat, NEW q, Items(q, X, n)
  PROVE  \E h \in [SUBSET (1 .. n) -> D] : Runs(h, g, base, q, n)
<1>0. g \in [D \X X -> D] /\ \A k \in 1 .. n : q[k] \in X
  BY DEF Steps, Items
<1> DEFINE Good(h, m) == \A s \in SUBSET (1 .. m) :
             h[s] = IF s = {} THEN base ELSE g[<<h[s \ {Max(s)}], q[Max(s)]>>]
           T == {m \in Nat : \E h \in [SUBSET (1 .. m) -> D] : Good(h, m)}
<1>1. 0 \in T
  <2> DEFINE h == [s \in SUBSET (1 .. 0) |-> base]
  <2>1. h \in [SUBSET (1 .. 0) -> D]
    OBVIOUS
  <2>2. \A s \in SUBSET (1 .. 0) : s = {}
    OBVIOUS
  <2>3. Good(h, 0)
    BY <2>2
  <2> QED
    BY <2>1, <2>3
<1>2. ASSUME NEW m \in 0 .. n - 1, m \in T
      PROVE  m + 1 \in T
  <2>1. PICK h \in [SUBSET (1 .. m) -> D] : Good(h, m)
    BY <1>2
  <2> DEFINE i == [s \in SUBSET (1 .. m + 1) |->
                     IF m + 1 \in s THEN g[<<h[s \ {m + 1}], q[m + 1]>>] ELSE h[s]]
  <2>2. \A s \in SUBSET (1 .. m + 1) : m + 1 \notin s => s \in SUBSET (1 .. m)
    OBVIOUS
  <2>3. \A s \in SUBSET (1 .. m + 1) : s \ {m + 1} \in SUBSET (1 .. m)
    OBVIOUS
  <2>4. q[m + 1] \in X /\ m + 1 \in Nat
    BY <1>0
  <2>5. i \in [SUBSET (1 .. m + 1) -> D]
    <3> SUFFICES ASSUME NEW s \in SUBSET (1 .. m + 1)
                 PROVE  i[s] \in D
      OBVIOUS
    <3>1. CASE m + 1 \in s
      <4>1. h[s \ {m + 1}] \in D
        BY <2>3
      <4>2. <<h[s \ {m + 1}], q[m + 1]>> \in D \X X
        BY <2>4, <4>1
      <4>3. i[s] = g[<<h[s \ {m + 1}], q[m + 1]>>]
        BY <3>1
      <4> HIDE DEF i
      <4> QED
        BY <1>0, <4>2, <4>3
    <3>2. CASE m + 1 \notin s
      BY <2>2, <3>2
    <3> QED
      BY <3>1, <3>2
  <2>6. Good(i, m + 1)
    <3> SUFFICES ASSUME NEW s \in SUBSET (1 .. m + 1)
                 PROVE  i[s] = IF s = {} THEN base ELSE g[<<i[s \ {Max(s)}], q[Max(s)]>>]
      OBVIOUS
    <3>1. CASE m + 1 \in s
      <4>1. \A y \in s : m + 1 >= y
        OBVIOUS
      <4>2. \A x \in s : (\A y \in s : x >= y) => x = m + 1
        BY <3>1
      <4>3. Max(s) = m + 1
        BY <3>1, <4>1, <4>2 DEF Max
      <4>4. i[s \ {m + 1}] = h[s \ {m + 1}]
        BY <2>3
      <4>5. i[s] = g[<<h[s \ {m + 1}], q[m + 1]>>]
        BY <3>1
      <4> HIDE DEF i
      <4> QED
        BY <3>1, <4>3, <4>4, <4>5
    <3>2. CASE m + 1 \notin s
      <4>1. s \in SUBSET (1 .. m) /\ i[s] = h[s]
        BY <2>2, <3>2
      <4>2. h[s] = IF s = {} THEN base ELSE g[<<h[s \ {Max(s)}], q[Max(s)]>>]
        BY <2>1, <4>1
      <4>3. i[s \ {Max(s)}] = h[s \ {Max(s)}]
        BY <3>2, <4>1
      <4> HIDE DEF i
      <4> QED
        BY <4>1, <4>2, <4>3
    <3> QED
      BY <3>1, <3>2
  <2> QED
    BY <2>4, <2>5, <2>6
<1> HIDE DEF T
<1>3. 0 .. n \subseteq T
  BY <1>1, <1>2, CountUp
<1>4. n \in T
  BY <1>3
<1>5. \E h \in [SUBSET (1 .. n) -> D] : Good(h, n)
  BY <1>4 DEF T
<1> QED
  BY <1>5, Zenon DEF Runs

LEMMA MaxUpTo ==
  ASSUME NEW k \in Nat, k > 0
  PROVE  1 .. k # {} /\ Max(1 .. k) = k /\ (1 .. k) \ {k} = 1 .. k - 1
<1>1. \A y \in 1 .. k : k >= y
  OBVIOUS
<1>2. \A x \in 1 .. k : (\A y \in 1 .. k : x >= y) => x = k
  OBVIOUS
<1>3. Max(1 .. k) = k
  BY <1>1, <1>2 DEF Max
<1> QED
  BY <1>3

-------------------------------------------------------------------------------
(* Arrays of ranges: Ranges.                                                *)

RangesTo(M) == {r \in [lower : 0 .. M, upper : 0 .. M] : r.lower <= r.upper}
Arrays(M) == {r \in Seq(RangesTo(M)) : Canonical(r)}

LEMMA RangeIs ==
  ASSUME NEW M \in Nat, NEW r \in RangesTo(M)
  PROVE  /\ r.lower \in Nat /\ r.upper \in Nat /\ r.lower <= r.upper /\ r.upper <= M
         /\ r = [lower |-> r.lower, upper |-> r.upper]
         /\ \A x : x \in Span(r) <=> x \in Nat /\ r.lower <= x /\ x <= r.upper
BY DEF RangesTo, Span

LEMMA ARange ==
  ASSUME NEW M \in Nat, NEW l \in Nat, NEW u \in Nat, l <= u, u <= M
  PROVE  [lower |-> l, upper |-> u] \in RangesTo(M)
BY DEF RangesTo

LEMMA ArrayIs ==
  ASSUME NEW M \in Nat, NEW r \in Arrays(M)
  PROVE  /\ r \in Seq(RangesTo(M)) /\ Len(r) \in Nat /\ DOMAIN r = 1 .. Len(r)
         /\ \A k \in 1 .. Len(r) : /\ r[k] \in RangesTo(M)
                                   /\ r[k].lower \in Nat /\ r[k].upper \in Nat
                                   /\ r[k].lower <= r[k].upper /\ r[k].upper <= M
         /\ \A j, k \in 1 .. Len(r) : j < k => r[j].upper + 1 < r[k].lower
<1>1. r \in Seq(RangesTo(M)) /\ Len(r) \in Nat /\ DOMAIN r = 1 .. Len(r)
  BY DEF Arrays
<1>2. \A k \in 1 .. Len(r) : /\ r[k] \in RangesTo(M)
                             /\ r[k].lower \in Nat /\ r[k].upper \in Nat
                             /\ r[k].lower <= r[k].upper /\ r[k].upper <= M
  BY <1>1, RangeIs
<1>3. \A k \in 1 .. Len(r) - 1 : r[k].upper + 1 < r[k + 1].lower
  BY DEF Arrays, Canonical
<1>4. ASSUME NEW j \in 1 .. Len(r), NEW k \in 1 .. Len(r), j < k
      PROVE  r[j].upper + 1 < r[k].lower
  <2> DEFINE n == Len(r) - j - 1
             T == {d \in 0 .. n : r[j].upper + 1 < r[j + 1 + d].lower}
  <2>1. n \in Nat /\ 0 \in T
    BY <1>1, <1>3, <1>4
  <2>2. ASSUME NEW d \in 0 .. n - 1, d \in T
        PROVE  d + 1 \in T
    <3>1. j + 1 + d \in 1 .. Len(r) - 1 /\ d + 1 \in 0 .. n /\ j + 1 + (d + 1) = (j + 1 + d) + 1
      BY <1>1, <1>4, <2>1
    <3>2. r[j + 1 + d].upper + 1 < r[j + 1 + (d + 1)].lower
      BY <1>3, <3>1
    <3>3. /\ r[j + 1 + d].lower <= r[j + 1 + d].upper /\ r[j + 1 + d].lower \in Nat
          /\ r[j + 1 + d].upper \in Nat /\ r[j + 1 + (d + 1)].lower \in Nat /\ r[j].upper \in Nat
      BY <1>1, <1>2, <3>1
    <3>4. r[j].upper + 1 < r[j + 1 + d].lower
      BY <2>2
    <3>5. r[j].upper + 1 < r[j + 1 + (d + 1)].lower
      <4>1. \A p, q, t, v \in Nat : p + 1 < q /\ q <= t /\ t + 1 < v => p + 1 < v
        OBVIOUS
      <4>2. r[j + 1 + d].upper + 1 < r[j + 1 + (d + 1)].lower
        BY <3>2
      <4> QED
        BY <3>3, <3>4, <4>1, <4>2
    <3> QED
      BY <3>1, <3>5
  <2>3. k - j - 1 \in 0 .. n
    BY <1>1, <1>4
  <2>4. k - j - 1 \in T
    <3> HIDE DEF T
    <3>1. 0 .. n \subseteq T
      BY <2>1, <2>2, CountUp
    <3> QED
      BY <2>3, <3>1
  <2>5. j + 1 + (k - j - 1) = k
    BY <1>4
  <2> QED
    BY <2>4, <2>5
<1> QED
  BY <1>1, <1>2, <1>4

LEMMA AnArray ==
  ASSUME NEW M \in Nat, NEW r \in Seq(RangesTo(M)),
         \A k \in 1 .. Len(r) - 1 : r[k].upper + 1 < r[k + 1].lower
  PROVE  r \in Arrays(M)
<1>1. \A k \in DOMAIN r : r[k].lower <= r[k].upper
  BY RangeIs
<1> QED
  BY <1>1 DEF Arrays, Canonical

LEMMA ElementsAre ==
  ASSUME NEW M \in Nat, NEW r \in Seq(RangesTo(M))
  PROVE  /\ Elements(r) \in SUBSET (0 .. M)
         /\ \A x : x \in Elements(r) <=>
                     x \in Nat /\ \E k \in 1 .. Len(r) : r[k].lower <= x /\ x <= r[k].upper
<1>1. DOMAIN r = 1 .. Len(r) /\ \A k \in 1 .. Len(r) : r[k] \in RangesTo(M)
  OBVIOUS
<1>2. \A k \in 1 .. Len(r) : \A x : x \in Span(r[k]) <=> x \in Nat /\ r[k].lower <= x /\ x <= r[k].upper
  BY <1>1, RangeIs
<1>3. \A x : x \in Elements(r) <=> \E k \in 1 .. Len(r) : x \in Span(r[k])
  BY <1>1 DEF Elements
<1>4. \A x : x \in Elements(r) => x \in 0 .. M
  BY <1>1, <1>2, <1>3, RangeIs
<1> QED
  BY <1>2, <1>3, <1>4

LEMMA EmptyArray ==
  ASSUME NEW M \in Nat
  PROVE  <<>> \in Arrays(M) /\ Elements(<<>>) = {}
BY DEF Arrays, Canonical, Elements

LEMMA OneRange ==
  ASSUME NEW M \in Nat, NEW r \in RangesTo(M)
  PROVE  <<r>> \in Arrays(M) /\ Elements(<<r>>) = Span(r)
<1>1. <<r>> \in Seq(RangesTo(M)) /\ Len(<<r>>) = 1 /\ <<r>>[1] = r /\ DOMAIN <<r>> = {1}
  OBVIOUS
<1>2. <<r>> \in Arrays(M)
  <2>1. 1 .. Len(<<r>>) - 1 = {}
    BY <1>1
  <2> QED
    BY <1>1, <2>1, AnArray, Zenon
<1> QED
  BY <1>1, <1>2 DEF Elements

\* The array a ends below the first range of b.
Below(a, b) == Len(a) > 0 /\ Len(b) > 0 => a[Len(a)].upper + 1 < b[1].lower

LEMMA Joined ==
  ASSUME NEW M \in Nat, NEW a \in Arrays(M), NEW b \in Arrays(M), Below(a, b)
  PROVE  /\ a \o b \in Arrays(M) /\ Len(a \o b) = Len(a) + Len(b)
         /\ Elements(a \o b) = Elements(a) \cup Elements(b)
         /\ \A k \in 1 .. Len(a) : (a \o b)[k] = a[k]
         /\ \A k \in 1 .. Len(b) : (a \o b)[Len(a) + k] = b[k]
<1> DEFINE c == a \o b
<1>1. /\ a \in Seq(RangesTo(M)) /\ b \in Seq(RangesTo(M)) /\ Len(a) \in Nat /\ Len(b) \in Nat
      /\ DOMAIN a = 1 .. Len(a) /\ DOMAIN b = 1 .. Len(b)
  BY ArrayIs
<1>2. /\ c \in Seq(RangesTo(M)) /\ Len(c) = Len(a) + Len(b)
      /\ \A k \in 1 .. Len(c) : c[k] = IF k <= Len(a) THEN a[k] ELSE b[k - Len(a)]
  BY <1>1
<1> HIDE DEF c
<1>3. \A k \in 1 .. Len(a) : c[k] = a[k]
  BY <1>1, <1>2
<1>4. \A k \in 1 .. Len(b) : c[Len(a) + k] = b[k]
  BY <1>1, <1>2
<1>5. ASSUME NEW k \in 1 .. Len(c) - 1
      PROVE  c[k].upper + 1 < c[k + 1].lower
  <2>1. CASE k < Len(a)
    <3>1. c[k] = a[k] /\ c[k + 1] = a[k + 1] /\ k \in 1 .. Len(a) /\ k + 1 \in 1 .. Len(a)
      BY <1>1, <1>2, <2>1
    <3> QED
      BY <3>1, ArrayIs
  <2>2. CASE k = Len(a)
    <3>1. c[k] = a[k] /\ c[k + 1] = b[1] /\ Len(a) > 0 /\ Len(b) > 0
      BY <1>1, <1>2, <2>2
    <3> QED
      BY <2>2, <3>1 DEF Below
  <2>3. CASE k > Len(a)
    <3> DEFINE j == k - Len(a)
    <3>1. c[k] = b[j] /\ c[k + 1] = b[j + 1] /\ j \in 1 .. Len(b) /\ j + 1 \in 1 .. Len(b) /\ j < j + 1
      BY <1>1, <1>2, <2>3
    <3> HIDE DEF j
    <3> QED
      BY <3>1, ArrayIs
  <2>4. k \in Int
    OBVIOUS
  <2>5. k < Len(a) \/ k = Len(a) \/ k > Len(a)
    <3>1. \A y, z \in Int : y < z \/ y = z \/ y > z
      OBVIOUS
    <3>2. Len(a) \in Int
      BY <1>1
    <3> QED
      BY <2>4, <3>1, <3>2, Zenon
  <2> QED
    BY <2>1, <2>2, <2>3, <2>5
<1>6. c \in Arrays(M)
  BY <1>2, <1>5, AnArray
<1>7. Elements(c) = Elements(a) \cup Elements(b)
  <2>1. \A x : x \in Elements(c) => x \in Elements(a) \/ x \in Elements(b)
    <3> TAKE x
    <3> HAVE x \in Elements(c)
    <3>1. x \in Nat /\ \E k \in 1 .. Len(c) : c[k].lower <= x /\ x <= c[k].upper
      BY <1>2, ElementsAre
    <3>2. PICK k \in 1 .. Len(c) : c[k].lower <= x /\ x <= c[k].upper
      BY <3>1
    <3>3. CASE k <= Len(a)
      <4>1. k \in 1 .. Len(a) /\ c[k] = a[k]
        BY <1>1, <1>2, <3>3
      <4> QED
        BY <1>1, <3>1, <3>2, <4>1, ElementsAre
    <3>4. CASE k > Len(a)
      <4>1. k - Len(a) \in 1 .. Len(b) /\ c[k] = b[k - Len(a)]
        BY <1>1, <1>2, <3>4
      <4> QED
        BY <1>1, <3>1, <3>2, <4>1, ElementsAre
    <3> QED
      BY <1>1, <1>2, <3>3, <3>4
  <2>2. \A x : x \in Elements(a) => x \in Elements(c)
    <3> TAKE x
    <3> HAVE x \in Elements(a)
    <3>1. PICK k \in 1 .. Len(a) : a[k].lower <= x /\ x <= a[k].upper /\ x \in Nat
      BY <1>1, ElementsAre
    <3>2. k \in 1 .. Len(c) /\ c[k] = a[k]
      BY <1>1, <1>2
    <3> QED
      BY <1>2, <3>1, <3>2, ElementsAre
  <2>3. \A x : x \in Elements(b) => x \in Elements(c)
    <3> TAKE x
    <3> HAVE x \in Elements(b)
    <3>1. PICK k \in 1 .. Len(b) : b[k].lower <= x /\ x <= b[k].upper /\ x \in Nat
      BY <1>1, ElementsAre
    <3>2. Len(a) + k \in 1 .. Len(c) /\ c[Len(a) + k] = b[k]
      BY <1>1, <1>2, <1>4
    <3> QED
      BY <1>2, <3>1, <3>2, ElementsAre
  <2> QED
    BY <2>1, <2>2, <2>3
<1> QED
  BY <1>2, <1>3, <1>4, <1>6, <1>7 DEF c

LEMMA Part ==
  ASSUME NEW M \in Nat, NEW r \in Arrays(M), NEW i \in Nat \ {0}, NEW j \in Nat,
         i <= j + 1, j <= Len(r)
  PROVE  LET p == SubSeq(r, i, j)
         IN /\ p \in Arrays(M) /\ Len(p) = j - i + 1
            /\ \A k \in 1 .. j - i + 1 : p[k] = r[i + k - 1]
            /\ \A x : x \in Elements(p) <=>
                        x \in Nat /\ \E k \in i .. j : r[k].lower <= x /\ x <= r[k].upper
<1> DEFINE p == SubSeq(r, i, j)
<1>1. r \in Seq(RangesTo(M)) /\ Len(r) \in Nat /\ \A k \in i .. j : r[k] \in RangesTo(M)
  BY ArrayIs
<1>2. /\ p \in Seq(RangesTo(M)) /\ Len(p) = j - i + 1
      /\ \A k \in 1 .. j - i + 1 : p[k] = r[i + k - 1]
  <2>1. /\ p \in Seq(RangesTo(M)) /\ Len(p) = IF i <= j THEN j - i + 1 ELSE 0
        /\ \A k \in 1 .. j - i + 1 : p[k] = r[i + k - 1]
    BY <1>1, SubSeqProperties
  <2> QED
    BY <2>1
<1> HIDE DEF p
<1>3. ASSUME NEW k \in 1 .. Len(p) - 1
      PROVE  p[k].upper + 1 < p[k + 1].lower
  <2>1. /\ p[k] = r[i + k - 1] /\ p[k + 1] = r[i + (k + 1) - 1]
        /\ i + k - 1 \in 1 .. Len(r) /\ i + (k + 1) - 1 \in 1 .. Len(r)
        /\ i + k - 1 < i + (k + 1) - 1
    BY <1>1, <1>2
  <2> QED
    BY <2>1, ArrayIs
<1>4. p \in Arrays(M)
  BY <1>2, <1>3, AnArray
<1>5. ASSUME NEW x
      PROVE  x \in Elements(p) <=>
               x \in Nat /\ \E k \in i .. j : r[k].lower <= x /\ x <= r[k].upper
  <2>1. x \in Elements(p) <=>
          x \in Nat /\ \E k \in 1 .. Len(p) : p[k].lower <= x /\ x <= p[k].upper
    BY <1>2, ElementsAre
  <2>2. \A k \in 1 .. Len(p) : i + k - 1 \in i .. j /\ p[k] = r[i + k - 1]
    <3> TAKE k \in 1 .. Len(p)
    <3>1. k \in 1 .. j - i + 1
      BY <1>2
    <3> QED
      BY <1>2, <3>1
  <2>3. \A k \in i .. j : k - i + 1 \in 1 .. Len(p) /\ p[k - i + 1] = r[k]
    BY <1>2
  <2> QED
    BY <2>1, <2>2, <2>3
<1> QED
  BY <1>2, <1>4, <1>5 DEF p

\* Ranges put in the place of others, which leave the rest of the array alone.
Fits(r, i, mid, j) ==
  Len(mid) > 0 => /\ i > 0 => r[i].upper + 1 < mid[1].lower
                  /\ j <= Len(r) => mid[Len(mid)].upper + 1 < r[j].lower

LEMMA Patched ==
  ASSUME NEW M \in Nat, NEW r \in Arrays(M), NEW mid \in Arrays(M), NEW i \in Nat, NEW j \in Nat \ {0},
         i < j, j <= Len(r) + 1,
         Fits(r, i, mid, j)
  PROVE  LET p == SubSeq(r, 1, i) \o mid \o SubSeq(r, j, Len(r))
         IN /\ p \in Arrays(M)
            /\ \A x : x \in Elements(p) <=>
                 x \in Elements(mid) \/ (x \in Nat /\ \E k \in 1 .. Len(r) :
                                          (k <= i \/ k >= j) /\ r[k].lower <= x /\ x <= r[k].upper)
<1> DEFINE a == SubSeq(r, 1, i)
           b == SubSeq(r, j, Len(r))
<1>1. Len(r) \in Nat /\ Len(mid) \in Nat /\ i <= Len(r)
  BY ArrayIs
<1>2. /\ a \in Arrays(M) /\ Len(a) = i /\ \A k \in 1 .. i : a[k] = r[k]
      /\ \A x : x \in Elements(a) <=> x \in Nat /\ \E k \in 1 .. i : r[k].lower <= x /\ x <= r[k].upper
  <2>1. /\ a \in Arrays(M) /\ Len(a) = i - 1 + 1 /\ \A k \in 1 .. i - 1 + 1 : a[k] = r[1 + k - 1]
        /\ \A x : x \in Elements(a) <=> x \in Nat /\ \E k \in 1 .. i : r[k].lower <= x /\ x <= r[k].upper
    BY <1>1, Part
  <2> QED
    BY <2>1
<1>3. /\ b \in Arrays(M) /\ Len(b) = Len(r) - j + 1 /\ \A k \in 1 .. Len(r) - j + 1 : b[k] = r[j + k - 1]
      /\ \A x : x \in Elements(b) <=> x \in Nat /\ \E k \in j .. Len(r) : r[k].lower <= x /\ x <= r[k].upper
  <2>1. j <= Len(r) + 1 /\ Len(r) <= Len(r)
    BY <1>1
  <2> QED
    BY <1>1, <2>1, Part
<1> HIDE DEF a, b
<1> DEFINE c == a \o mid
<1>4. /\ c \in Arrays(M) /\ Len(c) = i + Len(mid) /\ Elements(c) = Elements(a) \cup Elements(mid)
      /\ \A k \in 1 .. i : c[k] = a[k]
      /\ \A k \in 1 .. Len(mid) : c[i + k] = mid[k]
  <2>1. Below(a, mid)
    <3>1. ASSUME Len(a) > 0, Len(mid) > 0
          PROVE  a[Len(a)].upper + 1 < mid[1].lower
      <4>1. a[Len(a)] = r[i] /\ i > 0
        BY <1>1, <1>2, <3>1
      <4> QED
        BY <3>1, <4>1 DEF Fits
    <3> QED
      BY <3>1 DEF Below
  <2>2. /\ c \in Arrays(M) /\ Len(c) = Len(a) + Len(mid) /\ Elements(c) = Elements(a) \cup Elements(mid)
        /\ \A k \in 1 .. Len(a) : c[k] = a[k]
        /\ \A k \in 1 .. Len(mid) : c[Len(a) + k] = mid[k]
    BY <1>2, <2>1, Joined
  <2> HIDE DEF c
  <2> QED
    BY <1>2, <2>2
<1>5. Below(c, b)
  <2> SUFFICES ASSUME Len(c) > 0, Len(b) > 0
               PROVE  c[Len(c)].upper + 1 < b[1].lower
    BY DEF Below
  <2>1. b[1] = r[j] /\ j <= Len(r)
    BY <1>1, <1>3
  <2>2. CASE Len(mid) > 0
    <3>1. c[Len(c)] = mid[Len(mid)]
      BY <1>1, <1>4, <2>2
    <3> QED
      BY <2>1, <2>2, <3>1 DEF Fits
  <2>3. CASE Len(mid) = 0
    <3>1. Len(c) = i /\ i \in 1 .. Len(r) /\ j \in 1 .. Len(r) /\ c[Len(c)] = r[i]
      BY <1>1, <1>2, <1>4, <2>1, <2>3
    <3> QED
      BY <2>1, <3>1, ArrayIs
  <2> QED
    BY <1>1, <2>2, <2>3
<1> HIDE DEF c
<1>6. c \o b \in Arrays(M) /\ Elements(c \o b) = Elements(c) \cup Elements(b)
  BY <1>3, <1>4, <1>5, Joined
<1>7. ASSUME NEW x
      PROVE  x \in Elements(c \o b) <=>
               x \in Elements(mid) \/ (x \in Nat /\ \E k \in 1 .. Len(r) :
                                        (k <= i \/ k >= j) /\ r[k].lower <= x /\ x <= r[k].upper)
  <2>1. \A k : k \in 1 .. Len(r) /\ (k <= i \/ k >= j) <=> k \in 1 .. i \/ k \in j .. Len(r)
    BY <1>1
  <2> QED
    BY <1>2, <1>3, <1>4, <1>6, <2>1
<1> QED
  BY <1>6, <1>7 DEF a, b, c

\* Replacing one member and dropping those behind it.
Put(r, z, v) == [r EXCEPT ![z] = v]
Spliced(r, z, v, j) == SubSeq(r, 1, z - 1) \o <<v>> \o SubSeq(r, j, Len(r))

LEMMA SetAt ==
  ASSUME NEW S, NEW r \in Seq(S), NEW z \in 1 .. Len(r), NEW v \in S, NEW j \in z + 1 .. Len(r) + 1
  PROVE  /\ j = z + 1 => Put(r, z, v) = Spliced(r, z, v, j)
         /\ Without(Put(r, z, v), z + 1, j - z - 1) = Spliced(r, z, v, j)
<1> DEFINE w == Put(r, z, v)
           b == SubSeq(r, j, Len(r))
<1>1. Len(r) \in Nat /\ z \in Nat /\ z >= 1 /\ z <= Len(r) /\ DOMAIN r = 1 .. Len(r)
      /\ \A k \in 1 .. Len(r) : r[k] \in S
  OBVIOUS
<1>2. /\ w \in Seq(S) /\ Len(w) = Len(r)
      /\ \A k \in 1 .. Len(r) : w[k] = IF k = z THEN v ELSE r[k]
  <2>1. w \in [1 .. Len(r) -> S] /\ \A k \in 1 .. Len(r) : w[k] = IF k = z THEN v ELSE r[k]
    BY <1>1 DEF Put
  <2> QED
    BY <1>1, <2>1, IsASeq
<1> HIDE DEF w
<1>3. /\ SubSeq(w, 1, z) \in Seq(S) /\ Len(SubSeq(w, 1, z)) = z
      /\ \A k \in 1 .. z : SubSeq(w, 1, z)[k] = w[k]
  <2>1. \A k \in 1 .. z : w[k] \in S
    BY <1>1, <1>2
  <2>2. /\ SubSeq(w, 1, z) \in Seq(S) /\ Len(SubSeq(w, 1, z)) = IF 1 <= z THEN z - 1 + 1 ELSE 0
        /\ \A k \in 1 .. z - 1 + 1 : SubSeq(w, 1, z)[k] = w[1 + k - 1]
    BY <1>1, <2>1, SubSeqProperties
  <2> QED
    BY <1>1, <2>2
<1>4. /\ SubSeq(r, 1, z - 1) \in Seq(S) /\ Len(SubSeq(r, 1, z - 1)) = z - 1
      /\ \A k \in 1 .. z - 1 : SubSeq(r, 1, z - 1)[k] = r[k]
  <2>1. \A k \in 1 .. z - 1 : r[k] \in S
    BY <1>1
  <2>2. /\ SubSeq(r, 1, z - 1) \in Seq(S)
        /\ Len(SubSeq(r, 1, z - 1)) = IF 1 <= z - 1 THEN z - 1 - 1 + 1 ELSE 0
        /\ \A k \in 1 .. z - 1 - 1 + 1 : SubSeq(r, 1, z - 1)[k] = r[1 + k - 1]
    BY <1>1, <2>1, SubSeqProperties
  <2> QED
    BY <1>1, <2>2
<1> DEFINE a == SubSeq(r, 1, z - 1)
           h == SubSeq(w, 1, z)
<1>5. h = a \o <<v>>
  <2> HIDE DEF a, h
  <2>1. /\ a \in Seq(S) /\ Len(a) = z - 1 /\ \A k \in 1 .. z - 1 : a[k] = r[k]
    BY <1>4 DEF a
  <2>2. /\ h \in Seq(S) /\ Len(h) = z /\ \A k \in 1 .. z : h[k] = w[k]
    BY <1>3 DEF h
  <2>3. /\ a \o <<v>> \in Seq(S) /\ Len(a \o <<v>>) = z
        /\ \A k \in 1 .. z : (a \o <<v>>)[k] = IF k = z THEN v ELSE r[k]
    BY <1>1, <2>1
  <2>4. \A k \in 1 .. z : h[k] = (a \o <<v>>)[k]
    BY <1>1, <1>2, <2>2, <2>3
  <2> QED
    BY <2>2, <2>3, <2>4, SeqEqual
<1>6. SubSeq(w, j, Len(r)) = b
  <2>1. \A k \in j .. Len(r) : w[k] \in S /\ r[k] \in S /\ w[k] = r[k]
    BY <1>1, <1>2
  <2> DEFINE c == SubSeq(w, j, Len(r))
             n == IF j <= Len(r) THEN Len(r) - j + 1 ELSE 0
  <2>2. /\ c \in Seq(S) /\ Len(c) = n
        /\ \A k \in 1 .. Len(r) - j + 1 : c[k] = w[j + k - 1]
    BY <1>1, <2>1, SubSeqProperties
  <2>3. /\ b \in Seq(S) /\ Len(b) = n
        /\ \A k \in 1 .. Len(r) - j + 1 : b[k] = r[j + k - 1]
    BY <1>1, <2>1, SubSeqProperties
  <2> HIDE DEF b, c
  <2>4. \A k \in 1 .. n : k \in 1 .. Len(r) - j + 1 /\ j + k - 1 \in j .. Len(r)
    BY <1>1
  <2>5. \A k \in 1 .. n : c[k] = b[k]
    BY <2>1, <2>2, <2>3, <2>4
  <2>6. c = b
    BY <2>2, <2>3, <2>5, SeqEqual
  <2> QED
    BY <2>6 DEF c
<1>7. j = z + 1 => w = SubSeq(w, 1, z) \o SubSeq(w, j, Len(r))
  <2>1. \A m \in 1 .. Len(w) + 1 : \A k \in m - 1 .. Len(w) : \A n \in k .. Len(w) :
          SubSeq(w, m, k) \o SubSeq(w, k + 1, n) = SubSeq(w, m, n)
    BY <1>2, ConcatAdjacentSubSeq
  <2>2. 1 \in 1 .. Len(w) + 1 /\ z \in 1 - 1 .. Len(w) /\ Len(r) \in z .. Len(w)
    BY <1>1, <1>2
  <2>3. SubSeq(w, 1, z) \o SubSeq(w, z + 1, Len(r)) = SubSeq(w, 1, Len(r))
    BY <2>1, <2>2
  <2>4. SubSeq(w, 1, Len(r)) = w
    BY <1>2, SubSeqFull
  <2> QED
    BY <2>3, <2>4
<1> QED
  <2>1. w = Put(r, z, v)
    BY DEF w
  <2>2. (z + 1) - 1 = z /\ z + 1 + (j - z - 1) = j
    BY <1>1
  <2>3. Without(w, z + 1, j - z - 1) = SubSeq(w, 1, z) \o SubSeq(w, j, Len(r))
    BY <1>2, <2>2 DEF Without
  <2> QED
    BY <1>5, <1>6, <1>7, <2>1, <2>3 DEF Spliced

LEMMA GrowIs ==
  ASSUME NEW M \in Nat, NEW r \in Arrays(M), NEW z \in 1 .. Len(r), NEW m \in RangesTo(M),
         \A k \in 1 .. z - 1 : r[k].upper + 1 < m.lower,
         m.lower <= r[z].upper + 1, r[z].lower <= m.upper + 1
  PROVE  Grow(r, z, m) \in Arrays(M) /\ Elements(Grow(r, z, m)) = Elements(r) \cup Span(m)
<1> DEFINE low == IF m.lower <= r[z].lower - 1 /\ r[z].lower # 0 THEN m.lower ELSE r[z].lower
<1>1. /\ r \in Seq(RangesTo(M)) /\ Len(r) \in Nat /\ DOMAIN r = 1 .. Len(r)
      /\ \A k \in 1 .. Len(r) : /\ r[k] \in RangesTo(M)
                                /\ r[k].lower \in Nat /\ r[k].upper \in Nat
                                /\ r[k].lower <= r[k].upper /\ r[k].upper <= M
      /\ \A j, k \in 1 .. Len(r) : j < k => r[j].upper + 1 < r[k].lower
  BY ArrayIs
<1>2. /\ m.lower \in Nat /\ m.upper \in Nat /\ m.lower <= m.upper /\ m.upper <= M
      /\ \A x : x \in Span(m) <=> x \in Nat /\ m.lower <= x /\ x <= m.upper
  BY RangeIs
<1>3. z \in Nat /\ z >= 1 /\ z <= Len(r) /\ r[z] = [lower |-> r[z].lower, upper |-> r[z].upper]
  BY <1>1, RangeIs
<1>4. low \in Nat /\ low <= m.lower /\ low <= r[z].lower /\ (low = m.lower \/ low = r[z].lower)
  BY <1>1, <1>2
<1>5. \A x : x \in Elements(r) <=> x \in Nat /\ \E k \in 1 .. Len(r) : r[k].lower <= x /\ x <= r[k].upper
  BY <1>1, ElementsAre
<1> HIDE DEF low
\* a range in the place of z and of those up to stop
<1>6. ASSUME NEW up \in Nat, NEW stop \in z + 1 .. Len(r) + 1, up <= M, up >= m.upper, up >= r[z].upper,
             \A k \in z + 1 .. stop - 1 : r[k].lower <= m.upper + 1 /\ r[k].upper <= up,
             stop <= Len(r) => up + 1 < r[stop].lower,
             up = m.upper \/ \E k \in z .. stop - 1 : up = r[k].upper
      PROVE  LET p == SubSeq(r, 1, z - 1) \o <<[lower |-> low, upper |-> up]>> \o SubSeq(r, stop, Len(r))
             IN p \in Arrays(M) /\ Elements(p) = Elements(r) \cup Span(m)
  <2> DEFINE new == [lower |-> low, upper |-> up]
             mid == <<new>>
             p == SubSeq(r, 1, z - 1) \o mid \o SubSeq(r, stop, Len(r))
  <2>1. new \in RangesTo(M) /\ new.lower = low /\ new.upper = up
    BY <1>1, <1>2, <1>4, <1>6 DEF RangesTo
  <2>2. /\ mid \in Arrays(M) /\ Elements(mid) = Span(new) /\ Len(mid) = 1 /\ mid[1] = new
        /\ \A x : x \in Span(new) <=> x \in Nat /\ low <= x /\ x <= up
    BY <2>1, OneRange, RangeIs
  <2> HIDE DEF mid, new
  <2>3. Fits(r, z - 1, mid, stop)
    <3>1. z - 1 > 0 => r[z - 1].upper + 1 < low
      <4>1. ASSUME z - 1 > 0
            PROVE  r[z - 1].upper + 1 < m.lower /\ r[z - 1].upper + 1 < r[z].lower
        BY <1>1, <1>3, <4>1
      <4> QED
        BY <1>4, <4>1
    <3> QED
      BY <1>6, <2>1, <2>2, <3>1 DEF Fits
  <2>4. z - 1 \in Nat /\ stop \in Nat \ {0} /\ z - 1 < stop /\ stop <= Len(r) + 1
    BY <1>1, <1>3
  <2>5. /\ p \in Arrays(M)
        /\ \A x : x \in Elements(p) <=>
             x \in Elements(mid) \/ (x \in Nat /\ \E k \in 1 .. Len(r) :
                                      (k <= z - 1 \/ k >= stop) /\ r[k].lower <= x /\ x <= r[k].upper)
    BY <2>2, <2>3, <2>4, Patched
  <2> HIDE DEF p
  <2>6. ASSUME NEW x \in Nat, low <= x, x <= up
        PROVE  x \in Elements(r) \/ x \in Span(m)
    <3>1. CASE m.lower <= x /\ x <= m.upper
      BY <1>2, <3>1
    <3>2. CASE x < m.lower
      <4>1. r[z].lower <= x /\ x <= r[z].upper
        BY <1>1, <1>2, <1>3, <1>4, <2>6, <3>2
      <4> QED
        BY <1>5, <4>1
    <3>3. CASE x > m.upper
      <4>0. up # m.upper
        BY <1>2, <2>6, <3>3
      <4>1. PICK k \in z .. stop - 1 : up = r[k].upper
        <5>1. up = m.upper \/ \E k \in z .. stop - 1 : up = r[k].upper
          BY <1>6
        <5> QED
          BY <4>0, <5>1, Zenon
      <4>2. k \in 1 .. Len(r) /\ r[k].lower <= m.upper + 1 /\ r[k].lower \in Nat
        BY <1>1, <1>3, <1>6, <4>1
      <4>3. r[k].lower <= x
        BY <1>2, <3>3, <4>2
      <4> QED
        BY <1>5, <2>6, <4>1, <4>2, <4>3
    <3> QED
      BY <1>2, <3>1, <3>2, <3>3
  <2>7. ASSUME NEW x \in Span(m)
        PROVE  x \in Nat /\ low <= x /\ x <= up
    BY <1>2, <1>4, <1>6, <2>7
  <2>8. ASSUME NEW x \in Nat, NEW k \in 1 .. Len(r), r[k].lower <= x, x <= r[k].upper,
               ~(k <= z - 1 \/ k >= stop)
        PROVE  low <= x /\ x <= up
    <3>1. r[k].upper <= up /\ r[z].lower <= r[k].lower
      <4>1. k = z \/ k \in z + 1 .. stop - 1
        BY <1>3, <2>4, <2>8
      <4>2. CASE k = z
        BY <1>1, <1>6, <4>2
      <4>3. CASE k \in z + 1 .. stop - 1
        <5>1. r[z].upper + 1 < r[k].lower /\ r[z].lower <= r[z].upper
          BY <1>1, <1>3, <4>3
        <5> QED
          BY <1>1, <1>6, <4>3, <5>1
      <4> QED
        BY <4>1, <4>2, <4>3
    <3> QED
      BY <1>1, <1>4, <1>6, <2>8, <3>1
  <2>9. Elements(p) = Elements(r) \cup Span(m)
    <3>1. \A x : x \in Elements(mid) <=> x \in Nat /\ low <= x /\ x <= up
      BY <2>2
    <3>2. \A x : x \in Elements(p) => x \in Elements(r) \cup Span(m)
      BY <1>5, <2>5, <2>6, <3>1
    <3>3. \A x : x \in Elements(r) => x \in Elements(p)
      BY <1>5, <2>5, <2>8, <3>1
    <3>4. \A x : x \in Span(m) => x \in Elements(p)
      BY <2>5, <2>7, <3>1
    <3> QED
      BY <3>2, <3>3, <3>4
  <2> QED
    BY <2>5, <2>9 DEF p, mid, new
<1>7. CASE m.upper <= r[z].upper
  <2> DEFINE new == [lower |-> low, upper |-> r[z].upper]
  <2>1. Grow(r, z, m) = [r EXCEPT ![z].lower = low]
    BY <1>7 DEF Grow, low
  <2> DEFINE w == [r EXCEPT ![z].lower = low]
  <2>2. w = Put(r, z, new)
    <3>1. [r[z] EXCEPT !.lower = low] = new
      BY <1>3
    <3> HIDE DEF new
    <3> QED
      BY <3>1 DEF Put
  <2>3. new \in RangesTo(M) /\ z + 1 \in z + 1 .. Len(r) + 1
    BY <1>1, <1>3, <1>4 DEF RangesTo
  <2>4. w = Spliced(r, z, new, z + 1)
    <3> HIDE DEF new, w
    <3>1. r \in Seq(RangesTo(M))
      BY <1>1
    <3> QED
      BY <2>2, <2>3, <3>1, SetAt
  <2>5. /\ z + 1 <= Len(r) => r[z].upper + 1 < r[z + 1].lower
        /\ r[z].upper \in Nat /\ r[z].upper <= M
        /\ \A k \in z + 1 .. (z + 1) - 1 : FALSE
        /\ z \in z .. (z + 1) - 1
    BY <1>1, <1>3
  <2>6. LET p == SubSeq(r, 1, z - 1) \o <<[lower |-> low, upper |-> r[z].upper]>> \o SubSeq(r, z + 1, Len(r))
        IN p \in Arrays(M) /\ Elements(p) = Elements(r) \cup Span(m)
    <3>1. /\ r[z].upper \in Nat /\ z + 1 \in z + 1 .. Len(r) + 1 /\ r[z].upper <= M
          /\ r[z].upper >= m.upper /\ r[z].upper >= r[z].upper
      BY <1>1, <1>2, <1>3, <1>7, <2>3
    <3>2. \A k \in z + 1 .. (z + 1) - 1 : r[k].lower <= m.upper + 1 /\ r[k].upper <= r[z].upper
      BY <2>5
    <3>3. r[z].upper = m.upper \/ \E k \in z .. (z + 1) - 1 : r[z].upper = r[k].upper
      BY <2>5
    <3> QED
      BY <1>6, <2>5, <3>1, <3>2, <3>3, Zenon
  <2> QED
    BY <2>1, <2>4, <2>6 DEF w, Spliced
<1>8. CASE ~(m.upper <= r[z].upper)
  <2> DEFINE top == m.upper
             hi(k) == Most({top} \cup {r[j].upper : j \in z + 1 .. k})
             apart(k) == hi(k - 1) < r[k].lower - 1 /\ r[k].lower # 0
             ends == {k \in z + 1 .. Len(r) : apart(k)} \cup {Len(r) + 1}
             stop == Least(ends)
             up == hi(stop - 1)
  <2>1. Engulfed(r, z, m.upper) = [count |-> stop - z - 1, upper |-> up]
    BY DEF Engulfed
  <2>2. ASSUME NEW k \in z .. Len(r)
        PROVE  /\ hi(k) \in {top} \cup {r[j].upper : j \in z + 1 .. k}
               /\ \A y \in {top} \cup {r[j].upper : j \in z + 1 .. k} : y <= hi(k)
    <3> DEFINE S == {top} \cup {r[j].upper : j \in z + 1 .. k}
    <3>1. S \in SUBSET (0 .. M) /\ S # {}
      <4>1. \A j \in z + 1 .. k : r[j].upper \in 0 .. M
        BY <1>1, <1>3
      <4>2. top \in 0 .. M
        BY <1>2
      <4> QED
        BY <4>1, <4>2
    <3> HIDE DEF S
    <3>2. Most(S) \in S /\ \A y \in S : y <= Most(S)
      BY <3>1, MostIs
    <3> QED
      BY <3>2 DEF S
  <2>3. stop \in ends /\ \A y \in ends : stop <= y
    <3>1. ends \in SUBSET Nat /\ ends # {}
      BY <1>1, <1>3
    <3> HIDE DEF ends
    <3> QED
      BY <3>1, LeastIs
  <2>4. stop \in z + 1 .. Len(r) + 1 /\ stop - 1 \in z .. Len(r)
    BY <1>1, <1>3, <2>3
  <2>5. stop <= Len(r) => up < r[stop].lower - 1
    BY <1>1, <2>3, <2>4
  <2>6. ASSUME NEW k \in z + 1 .. stop - 1
        PROVE  r[k].lower <= m.upper + 1
    <3>1. k \in z + 1 .. Len(r) /\ k - 1 \in z .. Len(r) /\ k \in 1 .. Len(r) /\ k < stop
          /\ stop \in Nat /\ k \in Nat
      BY <1>1, <1>3, <2>4
    <3>7. ~apart(k)
      <4>1. k \in ends => stop <= k
        BY <2>3
      <4>2. apart(k) => k \in ends
        BY <3>1
      <4>3. ~(stop <= k)
        BY <3>1
      <4> QED
        BY <4>1, <4>2, <4>3, Zenon
    <3>2. r[z].upper + 1 < r[k].lower /\ r[k].lower # 0
      BY <1>1, <1>3, <3>1
    <3>3. ~(hi(k - 1) < r[k].lower - 1)
      BY <3>7, <3>2, Zenon
    <3>4. hi(k - 1) \in {top} \cup {r[j].upper : j \in z + 1 .. k - 1}
      BY <2>2, <3>1
    <3> HIDE DEF hi
    <3>5. CASE hi(k - 1) = top
      BY <1>1, <1>2, <3>1, <3>3, <3>5
    <3>6. ASSUME NEW j \in z + 1 .. k - 1, hi(k - 1) = r[j].upper
          PROVE  FALSE
      <4>1. j \in 1 .. Len(r) /\ j < k /\ k \in 1 .. Len(r)
        BY <1>1, <1>3, <3>1
      <4>2. r[j].upper + 1 < r[k].lower /\ r[j].upper \in Nat /\ r[k].lower \in Nat
        BY <1>1, <4>1
      <4> QED
        BY <3>3, <3>6, <4>2
    <3> QED
      BY <3>4, <3>5, <3>6
  <2>7. /\ up \in {top} \cup {r[j].upper : j \in z + 1 .. stop - 1}
        /\ \A y \in {top} \cup {r[j].upper : j \in z + 1 .. stop - 1} : y <= up
    BY <2>2, <2>4
  <2> DEFINE new == [lower |-> low, upper |-> up]
             w == [r EXCEPT ![z] = new]
  <2>8. Grow(r, z, m) = Without(w, z + 1, stop - z - 1)
    <3> HIDE DEF stop, up
    <3> QED
      BY <1>8, <2>1 DEF Grow, low
  <2> HIDE DEF hi, stop, up, ends
  <2>9. up \in Nat /\ up <= M /\ up >= m.upper /\ up >= r[z].upper
    <3>1. \A j \in z + 1 .. stop - 1 : r[j].upper \in Nat /\ r[j].upper <= M
      BY <1>1, <1>3, <2>4
    <3>2. up >= m.upper /\ up \in Nat /\ up <= M
      BY <1>2, <2>7, <3>1
    <3> QED
      BY <1>1, <1>2, <1>8, <3>2
  <2>10. /\ \A k \in z + 1 .. stop - 1 : r[k].lower <= m.upper + 1 /\ r[k].upper <= up
         /\ up = m.upper \/ \E k \in z .. stop - 1 : up = r[k].upper
    <3>1. \A k \in z + 1 .. stop - 1 : k \in z .. stop - 1
      BY <1>3, <2>4
    <3> QED
      BY <2>6, <2>7, <3>1
  <2>11. stop <= Len(r) => up + 1 < r[stop].lower
    <3>1. stop <= Len(r) => stop \in 1 .. Len(r)
      BY <1>1, <1>3, <2>4
    <3> QED
      BY <1>1, <2>5, <2>9, <3>1
  <2>12. LET p == SubSeq(r, 1, z - 1) \o <<[lower |-> low, upper |-> up]>> \o SubSeq(r, stop, Len(r))
         IN p \in Arrays(M) /\ Elements(p) = Elements(r) \cup Span(m)
    BY <1>6, <2>4, <2>9, <2>10, <2>11
  <2>13. new \in RangesTo(M)
    BY <1>1, <1>4, <2>9 DEF RangesTo
  <2>14. Without(w, z + 1, stop - z - 1) = Spliced(r, z, new, stop)
    <3>1. w = Put(r, z, new)
      BY DEF Put
    <3> HIDE DEF new, w
    <3>2. r \in Seq(RangesTo(M))
      BY <1>1
    <3> QED
      BY <2>4, <2>13, <3>1, <3>2, SetAt
  <2> QED
    BY <2>8, <2>12, <2>14 DEF Spliced
<1> QED
  BY <1>7, <1>8

\* Where a range belongs: behind what ends below it, at the first range it meets.
Place(r, m, z) ==
  /\ \A k \in 1 .. z - 1 : r[k].upper + 1 < m.lower
  /\ z <= Len(r) => m.lower <= r[z].upper + 1

LEMMA Admitted ==
  ASSUME NEW M \in Nat, NEW r \in Arrays(M), NEW m \in RangesTo(M), NEW z \in 1 .. Len(r) + 1,
         Place(r, m, z)
  PROVE  /\ z = Len(r) + 1 =>
              Append(r, m) \in Arrays(M) /\ Elements(Append(r, m)) = Elements(r) \cup Span(m)
         /\ z <= Len(r) /\ m.upper + 1 < r[z].lower =>
              InsertAt(r, z, m) \in Arrays(M) /\ Elements(InsertAt(r, z, m)) = Elements(r) \cup Span(m)
         /\ z <= Len(r) /\ ~(m.upper + 1 < r[z].lower) =>
              Grow(r, z, m) \in Arrays(M) /\ Elements(Grow(r, z, m)) = Elements(r) \cup Span(m)
<1>1. /\ r \in Seq(RangesTo(M)) /\ Len(r) \in Nat /\ z \in Nat /\ z >= 1
      /\ \A k \in 1 .. Len(r) : r[k].lower \in Nat /\ r[k].upper \in Nat
  BY ArrayIs
<1>2. m.lower \in Nat /\ m.upper \in Nat /\ m.lower <= m.upper
  BY RangeIs
<1>3. <<m>> \in Arrays(M) /\ Elements(<<m>>) = Span(m)
  BY OneRange
<1>4. ASSUME z = Len(r) + 1
      PROVE  Append(r, m) \in Arrays(M) /\ Elements(Append(r, m)) = Elements(r) \cup Span(m)
  <2>1. Append(r, m) = r \o <<m>>
    BY <1>1, AppendIsConcat
  <2>2. Below(r, <<m>>)
    BY <1>1, <1>4 DEF Below, Place
  <2> QED
    BY <1>3, <2>1, <2>2, Joined
<1>5. ASSUME z <= Len(r), m.upper + 1 < r[z].lower
      PROVE  InsertAt(r, z, m) \in Arrays(M) /\ Elements(InsertAt(r, z, m)) = Elements(r) \cup Span(m)
  <2> DEFINE p == SubSeq(r, 1, z - 1) \o <<m>> \o SubSeq(r, z, Len(r))
  <2>1. InsertAt(r, z, m) = p
    BY DEF InsertAt
  <2>2. Fits(r, z - 1, <<m>>, z)
    BY <1>1, <1>5 DEF Fits, Place
  <2>3. z - 1 \in Nat /\ z \in Nat \ {0} /\ z - 1 < z /\ z <= Len(r) + 1
    BY <1>1
  <2>4. /\ p \in Arrays(M)
        /\ \A x : x \in Elements(p) <=>
             x \in Elements(<<m>>) \/ (x \in Nat /\ \E k \in 1 .. Len(r) :
                                        (k <= z - 1 \/ k >= z) /\ r[k].lower <= x /\ x <= r[k].upper)
    BY <1>3, <2>2, <2>3, Patched
  <2> HIDE DEF p
  <2>5. \A k \in 1 .. Len(r) : k <= z - 1 \/ k >= z
    BY <1>1
  <2>6. \A x : x \in Elements(r) <=> x \in Nat /\ \E k \in 1 .. Len(r) : r[k].lower <= x /\ x <= r[k].upper
    BY <1>1, ElementsAre
  <2> QED
    BY <1>3, <2>1, <2>4, <2>5, <2>6
<1>6. ASSUME z <= Len(r), ~(m.upper + 1 < r[z].lower)
      PROVE  Grow(r, z, m) \in Arrays(M) /\ Elements(Grow(r, z, m)) = Elements(r) \cup Span(m)
  <2>1. z \in 1 .. Len(r) /\ r[z].lower <= m.upper + 1
    BY <1>1, <1>2, <1>6
  <2> QED
    BY <1>6, <2>1, GrowIs DEF Place
<1> QED
  BY <1>4, <1>5, <1>6

-------------------------------------------------------------------------------
(* Address sets: IpSets. *)

IpArrays == Arrays(Max32)
IpRanges == RangesTo(Max32)
IpRecords == [ranges : IpArrays, maxranges : Int]

LEMMA AddrsAre == Max32 \in Nat /\ Max32 + 1 = Half * Half /\ Addrs = 0 .. Max32
<1>1. \A h \in Nat \ {0} : h * h \in Nat \ {0}
  OBVIOUS
<1> QED
  BY <1>1, IpAssumption DEF Max32, Addrs

LEMMA WrapIs ==
  ASSUME NEW x \in 0 .. Max32
  PROVE  Wrap(x + 1) = IF x = Max32 THEN 0 ELSE x + 1
<1>1. Max32 \in Nat
  BY AddrsAre
<1>2. \A n \in Nat : \A y \in 0 .. n : (y + 1) % (n + 1) = IF y = n THEN 0 ELSE y + 1
  OBVIOUS
<1> QED
  BY <1>1, <1>2 DEF Wrap

LEMMA AddIs ==
  ASSUME NEW s \in IpRecords, NEW m \in IpRanges
  PROVE  /\ add_iprange(s, m) \in IpRecords
         /\ Elements(add_iprange(s, m).ranges) = Elements(s.ranges) \cup Span(m)
<1> DEFINE r == s.ranges
           found == {k \in DOMAIN r : m.lower <= Wrap(r[k].upper + 1) \/ r[k].upper = Max32} \cup {Len(r) + 1}
           z == Least(found)
<1>1. Max32 \in Nat /\ r \in Arrays(Max32) /\ m \in RangesTo(Max32) /\ s.maxranges \in Int
  BY AddrsAre DEF IpRecords, IpArrays, IpRanges
<1>2. /\ r \in Seq(RangesTo(Max32)) /\ Len(r) \in Nat /\ DOMAIN r = 1 .. Len(r)
      /\ \A k \in 1 .. Len(r) : r[k].lower \in Nat /\ r[k].upper \in 0 .. Max32
  BY <1>1, ArrayIs
<1>3. m.lower \in Nat /\ m.upper \in 0 .. Max32 /\ m.lower <= m.upper
  BY <1>1, RangeIs
<1> HIDE DEF r
<1>4. z \in found /\ \A k \in found : z <= k
  <2>1. found \in SUBSET Nat /\ found # {}
    BY <1>2
  <2> HIDE DEF found
  <2> QED
    BY <2>1, LeastIs
<1>5. z \in 1 .. Len(r) + 1
  BY <1>2, <1>4
<1>6. Place(r, m, z)
  <2>1. ASSUME NEW k \in 1 .. z - 1
        PROVE  r[k].upper + 1 < m.lower
    <3>1. k \in 1 .. Len(r) /\ k < z /\ k \in Nat /\ z \in Nat
      BY <1>2, <1>5
    <3>2. k \notin found
      <4> HIDE DEF found, z
      <4> QED
        BY <1>4, <3>1
    <3>3. ~(m.lower <= Wrap(r[k].upper + 1)) /\ r[k].upper # Max32
      BY <1>2, <3>1, <3>2
    <3>4. Wrap(r[k].upper + 1) = r[k].upper + 1
      BY <1>2, <3>1, <3>3, WrapIs
    <3> QED
      BY <1>2, <1>3, <3>1, <3>3, <3>4
  <2>2. z <= Len(r) => m.lower <= r[z].upper + 1
    <3> SUFFICES ASSUME z <= Len(r)
                 PROVE  m.lower <= r[z].upper + 1
      OBVIOUS
    <3>1. z \in 1 .. Len(r) /\ z # Len(r) + 1
      BY <1>2, <1>5
    <3>2. m.lower <= Wrap(r[z].upper + 1) \/ r[z].upper = Max32
      BY <1>4, <3>1
    <3> HIDE DEF z
    <3>3. Wrap(r[z].upper + 1) <= r[z].upper + 1
      BY <1>2, <3>1, WrapIs
    <3>4. Wrap(r[z].upper + 1) \in Nat
      BY <1>2, <3>1, WrapIs
    <3> QED
      BY <1>1, <1>2, <1>3, <3>1, <3>2, <3>3, <3>4
  <2> QED
    BY <2>1, <2>2 DEF Place
<1>7. z = Meeting(s.ranges, m)
  BY DEF Meeting, r
<1> HIDE DEF z
<1>8. extend_ipset(s) \in Int
  BY <1>1 DEF extend_ipset
<1>9. CASE z = Len(r) + 1
  <2>1. add_iprange(s, m) = [ranges |-> Append(r, m), maxranges |-> extend_ipset(s)]
    BY <1>7, <1>9 DEF add_iprange, append_ipset, r
  <2>2. Append(r, m) \in Arrays(Max32) /\ Elements(Append(r, m)) = Elements(r) \cup Span(m)
    BY <1>1, <1>5, <1>6, <1>9, Admitted
  <2> QED
    BY <1>8, <2>1, <2>2 DEF r, IpRecords, IpArrays
<1>10. CASE z # Len(r) + 1
  <2>1. z \in 1 .. Len(r)
    BY <1>2, <1>5, <1>10
  <2> DEFINE before == Wrap(m.upper + 1) < r[z].lower /\ m.upper # Max32
  <2>2. before <=> m.upper + 1 < r[z].lower
    <3>1. m.upper = Max32 => ~(m.upper + 1 < r[z].lower)
      <4>1. r[z] \in RangesTo(Max32)
        BY <1>2, <2>1
      <4>2. r[z].lower <= Max32 /\ r[z].lower \in Nat
        BY <1>1, <4>1, RangeIs
      <4> QED
        BY <1>1, <4>2
    <3> QED
      BY <1>3, <3>1, WrapIs
  <2>3. CASE before
    <3>1. add_iprange(s, m) = [ranges |-> InsertAt(r, z, m), maxranges |-> extend_ipset(s)]
      BY <1>7, <1>10, <2>3 DEF add_iprange, insert_ipset, r
    <3>2. InsertAt(r, z, m) \in Arrays(Max32) /\ Elements(InsertAt(r, z, m)) = Elements(r) \cup Span(m)
      <4> HIDE DEF before
      <4> QED
        BY <1>1, <1>5, <1>6, <2>1, <2>2, <2>3, Admitted
    <3> QED
      BY <1>8, <3>1, <3>2 DEF r, IpRecords, IpArrays
  <2>4. CASE ~before
    <3>1. add_iprange(s, m) = remove_ipset(s, Grow(r, z, m))
      BY <1>7, <1>10, <2>4 DEF add_iprange, r
    <3>2. Grow(r, z, m) \in Arrays(Max32) /\ Elements(Grow(r, z, m)) = Elements(r) \cup Span(m)
      <4> HIDE DEF before
      <4> QED
        BY <1>1, <1>5, <1>6, <2>1, <2>2, <2>4, Admitted
    <3>3. add_iprange(s, m) \in [ranges : IpArrays, maxranges : Int] /\ add_iprange(s, m).ranges = Grow(r, z, m)
      BY <1>1, <3>1, <3>2 DEF remove_ipset, IpArrays
    <3> QED
      BY <3>2, <3>3 DEF r, IpRecords
  <2> QED
    BY <2>3, <2>4
<1> QED
  BY <1>9, <1>10

-------------------------------------------------------------------------------
(* Cutting. *)

\* The pieces put together one after the other.
Flat(f, q, m) == \A i \in 1 .. m : f[i] = IF i = 1 THEN q[i] ELSE f[i - 1] \o q[i]

LEMMA FlattenRun ==
  ASSUME NEW X, NEW n \in Nat \ {0}, NEW q \in [1 .. n -> Seq(X)]
  PROVE  \E f \in [1 .. n -> Seq(X)] : Flat(f, q, n)
<1> DEFINE D == Seq(X)
           T == {m \in Nat : m + 1 <= n => \E f \in [1 .. m + 1 -> D] : Flat(f, q, m + 1)}
<1>1. 0 \in T
  <2> DEFINE f == [i \in 1 .. 0 + 1 |-> q[1]]
  <2>1. f \in [1 .. 0 + 1 -> D] /\ Flat(f, q, 0 + 1)
    BY DEF Flat
  <2> QED
    BY <2>1
<1>2. ASSUME NEW m \in 0 .. n - 1 - 1, m \in T
      PROVE  m + 1 \in T
  <2>1. PICK f \in [1 .. m + 1 -> D] : Flat(f, q, m + 1)
    <3>1. m + 1 <= n
      OBVIOUS
    <3> HIDE DEF D
    <3> QED
      BY <1>2, <3>1
  <2> DEFINE g == [i \in 1 .. (m + 1) + 1 |-> IF i = m + 2 THEN f[m + 1] \o q[m + 2] ELSE f[i]]
  <2>2. f[m + 1] \o q[m + 2] \in D
    <3>1. f[m + 1] \in Seq(X) /\ q[m + 2] \in Seq(X)
      BY <1>2
    <3> QED
      BY <3>1
  <2>3. g \in [1 .. (m + 1) + 1 -> D]
    BY <2>2
  <2>4. \A i \in 1 .. m + 1 : f[i] = IF i = 1 THEN q[i] ELSE f[i - 1] \o q[i]
    BY <2>1 DEF Flat
  <2>5. \A i \in 1 .. (m + 1) + 1 : g[i] = IF i = 1 THEN q[i] ELSE g[i - 1] \o q[i]
    <3> TAKE i \in 1 .. (m + 1) + 1
    <3>1. CASE i = m + 2
      <4>1. i - 1 = m + 1 /\ i # 1 /\ m + 1 # m + 2 /\ m + 1 \in 1 .. (m + 1) + 1
        BY <3>1
      <4>2. g[m + 1] = f[m + 1]
        BY <4>1
      <4>3. g[i] = f[m + 1] \o q[m + 2]
        BY <3>1
      <4> HIDE DEF g
      <4> QED
        BY <3>1, <4>1, <4>2, <4>3
    <3>2. CASE i # m + 2
      <4>1. i \in 1 .. m + 1 /\ g[i] = f[i] /\ (i # 1 => g[i - 1] = f[i - 1])
        BY <3>2
      <4> HIDE DEF g
      <4> QED
        BY <2>4, <4>1
    <3> QED
      BY <3>1, <3>2
  <2>6. Flat(g, q, (m + 1) + 1)
    BY <2>5, Zenon DEF Flat
  <2> HIDE DEF g, D
  <2> QED
    BY <1>2, <2>3, <2>6
<1> HIDE DEF T
<1>3. 0 .. n - 1 \subseteq T
  <2>1. n - 1 \in Nat
    OBVIOUS
  <2> QED
    BY <1>1, <1>2, <2>1, CountUp
<1>4. n - 1 \in T /\ (n - 1) + 1 = n
  BY <1>3
<1>5. n <= n
  OBVIOUS
<1> QED
  BY <1>4, <1>5, Zenon DEF T

Pieces(f, q, n) ==
  /\ f[1] = q[1] /\ \A i \in 2 .. n : f[i] = f[i - 1] \o q[i]
  /\ FlattenSeq(q) = f[n]

LEMMA FlattenIs ==
  ASSUME NEW X, NEW n \in Nat \ {0}, NEW q \in [1 .. n -> Seq(X)]
  PROVE  \E f \in [1 .. n -> Seq(X)] : Pieces(f, q, n)
<1> DEFINE Run(f) == f = [i \in 1 .. Len(q) |-> IF i = 1 THEN q[i] ELSE f[i - 1] \o q[i]]
           f == CHOOSE f : Run(f)
<1>1. Len(q) = n
  <2>1. q \in Seq(Seq(X))
    BY IsASeq
  <2> QED
    BY <2>1
<1>2. \E h : Run(h)
  <2>1. PICK h \in [1 .. n -> Seq(X)] : Flat(h, q, n)
    BY FlattenRun
  <2>2. h = [i \in 1 .. n |-> h[i]]
    OBVIOUS
  <2>3. Run(h)
    BY <1>1, <2>1, <2>2, Zenon DEF Flat
  <2> QED
    BY <2>3
<1>3. Run(f)
  BY <1>2
<1>4. FlattenSeq(q) = f[n]
  BY <1>1 DEF FlattenSeq
<1> HIDE DEF f
<1>5. DOMAIN f = 1 .. n /\ \A i \in 1 .. n : f[i] = IF i = 1 THEN q[i] ELSE f[i - 1] \o q[i]
  BY <1>1, <1>3
<1>6. f[1] = q[1] /\ \A i \in 2 .. n : f[i] = f[i - 1] \o q[i]
  <2>1. 1 \in 1 .. n /\ \A i \in 2 .. n : i \in 1 .. n /\ i # 1
    OBVIOUS
  <2> QED
    BY <1>5, <2>1, Zenon
<1>7. \A i \in 1 .. n : f[i] \in Seq(X)
  <2> DEFINE T == {i \in Nat : i + 1 <= n => f[i + 1] \in Seq(X)}
  <2>1. 0 \in T
    BY <1>6
  <2>2. ASSUME NEW i \in 0 .. n - 1 - 1, i \in T
        PROVE  i + 1 \in T
    <3>1. f[i + 1] \in Seq(X) /\ q[(i + 1) + 1] \in Seq(X)
      BY <2>2
    <3>2. f[(i + 1) + 1] = f[i + 1] \o q[(i + 1) + 1]
      <4>1. (i + 1) + 1 \in 2 .. n /\ ((i + 1) + 1) - 1 = i + 1
        OBVIOUS
      <4> QED
        BY <1>6, <4>1
    <3>3. \A a, b \in Seq(X) : a \o b \in Seq(X)
      OBVIOUS
    <3>4. f[(i + 1) + 1] \in Seq(X)
      BY <3>1, <3>2, <3>3, Zenon
    <3> QED
      BY <3>4
  <2> HIDE DEF T
  <2>3. 0 .. n - 1 \subseteq T
    <3>1. n - 1 \in Nat
      OBVIOUS
    <3> QED
      BY <2>1, <2>2, <3>1, CountUp
  <2>4. \A i \in 1 .. n : i - 1 \in T /\ (i - 1) + 1 = i
    BY <2>3
  <2> QED
    BY <2>4 DEF T
<1>8. f \in [1 .. n -> Seq(X)]
  <2>1. f = [i \in 1 .. n |-> f[i]]
    BY <1>1, <1>3, <1>5
  <2> QED
    BY <1>7, <2>1
<1>9. Pieces(f, q, n)
  BY <1>4, <1>6 DEF Pieces
<1> QED
  BY <1>8, <1>9

\* What is left of a range lies in it.
Within(left, cur) ==
  Len(left) > 0 => cur.lower <= left[1].lower /\ left[Len(left)].upper <= cur.upper

LEMMA TwoRanges ==
  ASSUME NEW M \in Nat, NEW a \in RangesTo(M), NEW b \in RangesTo(M), a.upper + 1 < b.lower
  PROVE  /\ <<a, b>> \in Arrays(M) /\ Len(<<a, b>>) = 2
         /\ Elements(<<a, b>>) = Span(a) \cup Span(b)
<1>1. <<a>> \in Arrays(M) /\ <<b>> \in Arrays(M) /\ Elements(<<a>>) = Span(a) /\ Elements(<<b>>) = Span(b)
  BY OneRange
<1>2. Below(<<a>>, <<b>>)
  BY DEF Below
<1>3. <<a>> \o <<b>> = <<a, b>>
  <2>1. Append(<<a>>, b) = <<a>> \o <<b>>
    BY AppendIsConcat
  <2>2. Append(<<a>>, b) = <<a, b>>
    <3>1. /\ <<a, b>> \in Seq(RangesTo(M)) /\ Len(<<a, b>>) = 2
          /\ <<a, b>>[1] = a /\ <<a, b>>[2] = b
      OBVIOUS
    <3>2. /\ Append(<<a>>, b) \in Seq(RangesTo(M)) /\ Len(Append(<<a>>, b)) = 2
          /\ Append(<<a>>, b)[1] = a /\ Append(<<a>>, b)[2] = b
      OBVIOUS
    <3>3. \A k \in 1 .. 2 : k = 1 \/ k = 2
      OBVIOUS
    <3>4. \A k \in 1 .. 2 : Append(<<a>>, b)[k] = <<a, b>>[k]
      BY <3>1, <3>2, <3>3, Zenon
    <3>5. \A k \in 1 .. Len(<<a, b>>) : Append(<<a>>, b)[k] = <<a, b>>[k]
      BY <3>1, <3>4, Zenon
    <3> QED
      BY <3>1, <3>2, <3>5, SeqEqual, Zenon
  <2> QED
    BY <2>1, <2>2
<1>4. <<a, b>> \in Arrays(M) /\ Elements(<<a, b>>) = Span(a) \cup Span(b)
  <2> DEFINE p == <<a>>
             q == <<b>>
  <2>1. p \in Arrays(M) /\ q \in Arrays(M) /\ Below(p, q)
    BY <1>1, <1>2
  <2> HIDE DEF p, q
  <2>2. p \o q \in Arrays(M) /\ Elements(p \o q) = Elements(p) \cup Elements(q)
    BY <2>1, Joined
  <2> QED
    BY <1>1, <1>3, <2>2 DEF p, q
<1> QED
  BY <1>4

LEMMA RestIs ==
  ASSUME NEW M \in Nat, NEW cur \in RangesTo(M), NEW cut \in RangesTo(M)
  PROVE  /\ Rest(cur, cut).left \in Arrays(M)
         /\ Elements(Rest(cur, cut).left) = Span(cur) \ Span(cut)
         /\ Within(Rest(cur, cut).left, cur)
         /\ Rest(cur, cut).last => cut.upper < cur.upper
<1>1. /\ cur.lower \in Nat /\ cur.upper \in Nat /\ cur.lower <= cur.upper /\ cur.upper <= M
      /\ cur = [lower |-> cur.lower, upper |-> cur.upper]
      /\ \A x : x \in Span(cur) <=> x \in Nat /\ cur.lower <= x /\ x <= cur.upper
  BY RangeIs
<1>2. /\ cut.lower \in Nat /\ cut.upper \in Nat /\ cut.lower <= cut.upper /\ cut.upper <= M
      /\ \A x : x \in Span(cut) <=> x \in Nat /\ cut.lower <= x /\ x <= cut.upper
  BY RangeIs
<1>3. ASSUME NEW l \in Nat, NEW u \in Nat, cur.lower <= l, l <= u, u <= cur.upper
      PROVE  LET v == [lower |-> l, upper |-> u]
             IN /\ v \in RangesTo(M) /\ <<v>> \in Arrays(M) /\ Within(<<v>>, cur)
                /\ \A x : x \in Elements(<<v>>) <=> x \in Nat /\ l <= x /\ x <= u
                /\ \A x : x \in Span(v) <=> x \in Nat /\ l <= x /\ x <= u
  <2> DEFINE v == [lower |-> l, upper |-> u]
  <2>1. v \in RangesTo(M) /\ v.lower = l /\ v.upper = u
    BY <1>1, <1>3 DEF RangesTo
  <2> HIDE DEF v
  <2>2. \A x : x \in Span(v) <=> x \in Nat /\ l <= x /\ x <= u
    BY <2>1, RangeIs
  <2>3. <<v>> \in Arrays(M) /\ Elements(<<v>>) = Span(v)
    BY <2>1, OneRange
  <2>4. Within(<<v>>, cur)
    BY <1>3, <2>1 DEF Within
  <2> QED
    BY <2>1, <2>2, <2>3, <2>4 DEF v
<1>4. <<cur>> \in Arrays(M) /\ Within(<<cur>>, cur) /\ Elements(<<cur>>) = Span(cur)
  BY <1>1, OneRange DEF Within
<1>5. CASE cut.lower > cur.upper \/ cut.upper < cur.lower
  <2>1. Rest(cur, cut).left = <<cur>> /\ Rest(cur, cut).last = FALSE
    BY <1>5 DEF Rest
  <2>2. \A x : x \in Span(cur) => x \notin Span(cut)
    BY <1>1, <1>2, <1>5
  <2> QED
    BY <1>4, <2>1, <2>2
<1>6. CASE ~(cut.lower > cur.upper \/ cut.upper < cur.lower) /\ cut.lower <= cur.lower /\ cur.upper > cut.upper
  <2> DEFINE v == [lower |-> cut.upper + 1, upper |-> cur.upper]
  <2>1. [cur EXCEPT !.lower = cut.upper + 1] = v
    BY <1>1
  <2>2. Rest(cur, cut).left = <<v>> /\ Rest(cur, cut).last = TRUE
    BY <1>6, <2>1 DEF Rest
  <2>3. /\ <<v>> \in Arrays(M) /\ Within(<<v>>, cur)
        /\ \A x : x \in Elements(<<v>>) <=> x \in Nat /\ cut.upper + 1 <= x /\ x <= cur.upper
    <3>1. cut.upper + 1 \in Nat /\ cur.lower <= cut.upper + 1 /\ cut.upper + 1 <= cur.upper
      BY <1>1, <1>2, <1>6
    <3> QED
      BY <1>1, <1>3, <3>1
  <2> HIDE DEF v
  <2>4. \A x : x \in Elements(<<v>>) <=> x \in Span(cur) /\ x \notin Span(cut)
    <3>1. \A x \in Nat : cut.upper + 1 <= x /\ x <= cur.upper
                           <=> (cur.lower <= x /\ x <= cur.upper) /\ ~(cut.lower <= x /\ x <= cut.upper)
      BY <1>1, <1>2, <1>6
    <3> QED
      BY <1>1, <1>2, <2>3, <3>1
  <2> QED
    BY <1>1, <1>2, <1>6, <2>2, <2>3, <2>4
<1>7. CASE /\ ~(cut.lower > cur.upper \/ cut.upper < cur.lower)
           /\ cut.lower <= cur.lower /\ ~(cur.upper > cut.upper)
  <2>1. Rest(cur, cut).left = <<>> /\ Rest(cur, cut).last = FALSE
    BY <1>7 DEF Rest
  <2>2. \A x : x \in Span(cur) => x \in Span(cut)
    BY <1>1, <1>2, <1>7
  <2>3. Within(<<>>, cur)
    BY DEF Within
  <2> QED
    BY <2>1, <2>2, <2>3, EmptyArray
<1>8. CASE /\ ~(cut.lower > cur.upper \/ cut.upper < cur.lower)
           /\ ~(cut.lower <= cur.lower) /\ cut.upper >= cur.upper
  <2> DEFINE v == [lower |-> cur.lower, upper |-> cut.lower - 1]
  <2>1. [cur EXCEPT !.upper = cut.lower - 1] = v
    BY <1>1
  <2>2. Rest(cur, cut).left = <<v>> /\ Rest(cur, cut).last = FALSE
    BY <1>8, <2>1 DEF Rest
  <2>3. /\ <<v>> \in Arrays(M) /\ Within(<<v>>, cur)
        /\ \A x : x \in Elements(<<v>>) <=> x \in Nat /\ cur.lower <= x /\ x <= cut.lower - 1
    <3>1. cut.lower - 1 \in Nat /\ cur.lower <= cut.lower - 1 /\ cut.lower - 1 <= cur.upper
      BY <1>1, <1>2, <1>8
    <3> QED
      BY <1>1, <1>3, <3>1
  <2> HIDE DEF v
  <2>4. \A x : x \in Elements(<<v>>) <=> x \in Span(cur) /\ x \notin Span(cut)
    <3>1. \A x \in Nat : cur.lower <= x /\ x <= cut.lower - 1
                           <=> (cur.lower <= x /\ x <= cur.upper) /\ ~(cut.lower <= x /\ x <= cut.upper)
      BY <1>1, <1>2, <1>8
    <3> QED
      BY <1>1, <1>2, <2>3, <3>1
  <2> QED
    BY <2>2, <2>3, <2>4
<1>9. CASE /\ ~(cut.lower > cur.upper \/ cut.upper < cur.lower)
           /\ ~(cut.lower <= cur.lower) /\ ~(cut.upper >= cur.upper)
  <2> DEFINE v == [lower |-> cur.lower, upper |-> cut.lower - 1]
             w == [lower |-> cut.upper + 1, upper |-> cur.upper]
  <2>1. [cur EXCEPT !.lower = cut.upper + 1] = w /\ Ordered(cur.lower, cut.lower - 1) = v
    <3>1. ~(cur.lower > cut.lower - 1)
      BY <1>1, <1>2, <1>9
    <3> QED
      BY <1>1, <3>1 DEF Ordered
  <2>2. Rest(cur, cut).left = <<v, w>> /\ Rest(cur, cut).last = TRUE
    BY <1>9, <2>1 DEF Rest
  <2>3. /\ v \in RangesTo(M)
        /\ \A x : x \in Span(v) <=> x \in Nat /\ cur.lower <= x /\ x <= cut.lower - 1
    <3>1. /\ cut.lower - 1 \in Nat /\ cur.lower <= cut.lower - 1 /\ cut.lower - 1 <= cur.upper
          /\ cur.lower \in Nat /\ cur.lower <= cur.lower
      BY <1>1, <1>2, <1>9
    <3> QED
      BY <1>3, <3>1, Zenon
  <2>4. /\ w \in RangesTo(M)
        /\ \A x : x \in Span(w) <=> x \in Nat /\ cut.upper + 1 <= x /\ x <= cur.upper
    <3>1. /\ cut.upper + 1 \in Nat /\ cur.lower <= cut.upper + 1 /\ cut.upper + 1 <= cur.upper
          /\ cur.upper \in Nat /\ cur.upper <= cur.upper
      BY <1>1, <1>2, <1>9
    <3> QED
      BY <1>3, <3>1, Zenon
  <2>5. v.upper + 1 < w.lower /\ v.lower = cur.lower /\ w.upper = cur.upper
    BY <1>1, <1>2
  <2> HIDE DEF v, w
  <2>6. <<v, w>> \in Arrays(M) /\ Len(<<v, w>>) = 2 /\ Elements(<<v, w>>) = Span(v) \cup Span(w)
    BY <2>3, <2>4, <2>5, TwoRanges
  <2>7. \A x : x \in Elements(<<v, w>>) <=> x \in Span(cur) /\ x \notin Span(cut)
    <3>1. \A x \in Nat : (cur.lower <= x /\ x <= cut.lower - 1) \/ (cut.upper + 1 <= x /\ x <= cur.upper)
                           <=> (cur.lower <= x /\ x <= cur.upper) /\ ~(cut.lower <= x /\ x <= cut.upper)
      BY <1>1, <1>2, <1>9
    <3> QED
      BY <1>1, <1>2, <2>3, <2>4, <2>6, <3>1
  <2>8. Within(<<v, w>>, cur)
    <3>1. cur.lower <= cur.lower /\ cur.upper <= cur.upper
      BY <1>1
    <3> QED
      BY <2>5, <2>6, <3>1 DEF Within
  <2> QED
    BY <1>1, <1>2, <1>9, <2>2, <2>6, <2>7, <2>8
<1> QED
  BY <1>1, <1>2, <1>5, <1>6, <1>7, <1>8, <1>9

LEMMA CutIs ==
  ASSUME NEW M \in Nat, NEW r \in Arrays(M), NEW cut \in RangesTo(M)
  PROVE  Cut(r, cut) \in Arrays(M) /\ Elements(Cut(r, cut)) = Elements(r) \ Span(cut)
<1> DEFINE ends == {k \in DOMAIN r : Rest(r[k], cut).last} \cup {Len(r)}
           last == Least(ends)
           q == [k \in 1 .. last |-> Rest(r[k], cut).left]
           tail == SubSeq(r, last + 1, Len(r))
           In(x, k) == r[k].lower <= x /\ x <= r[k].upper
<1>1. /\ r \in Seq(RangesTo(M)) /\ Len(r) \in Nat /\ DOMAIN r = 1 .. Len(r)
      /\ \A k \in 1 .. Len(r) : /\ r[k] \in RangesTo(M)
                                /\ r[k].lower \in Nat /\ r[k].upper \in Nat
                                /\ r[k].lower <= r[k].upper /\ r[k].upper <= M
      /\ \A j, k \in 1 .. Len(r) : j < k => r[j].upper + 1 < r[k].lower
  BY ArrayIs
<1>2. \A x : x \in Elements(r) <=> x \in Nat /\ \E k \in 1 .. Len(r) : In(x, k)
  BY <1>1, ElementsAre
<1>3. /\ cut.lower \in Nat /\ cut.upper \in Nat
      /\ \A x : x \in Span(cut) <=> x \in Nat /\ cut.lower <= x /\ x <= cut.upper
  BY RangeIs
<1>4. \A k \in 1 .. Len(r) :
        /\ Rest(r[k], cut).left \in Arrays(M)
        /\ Elements(Rest(r[k], cut).left) = Span(r[k]) \ Span(cut)
        /\ Within(Rest(r[k], cut).left, r[k])
        /\ Rest(r[k], cut).last => cut.upper < r[k].upper
  BY <1>1, RestIs
<1>5. \A k \in 1 .. Len(r) : \A x : x \in Span(r[k]) <=> x \in Nat /\ In(x, k)
  BY <1>1, RangeIs
<1>6. last \in ends
  <2>1. ends \in SUBSET Nat /\ ends # {}
    BY <1>1
  <2> HIDE DEF ends
  <2> QED
    BY <2>1, LeastIs
<1>7. last \in 0 .. Len(r) /\ (last < Len(r) => last \in 1 .. Len(r) /\ Rest(r[last], cut).last)
  BY <1>1, <1>6
<1>8. Cut(r, cut) = FlattenSeq(q) \o tail
  BY DEF Cut
<1> HIDE DEF last
<1>9. CASE last = 0
  <2>1. Len(r) = 0
    BY <1>1, <1>7, <1>9
  <2>2. q = <<>> /\ r = <<>> /\ tail = <<>>
    <3>1. r = <<>>
      BY <1>1, <2>1
    <3>2. q = <<>>
      BY <1>9
    <3> QED
      BY <1>9, <3>1, <3>2
  <2>3. FlattenSeq(q) = <<>>
    BY <2>2 DEF FlattenSeq
  <2>4. Cut(r, cut) = <<>>
    BY <1>8, <2>2, <2>3
  <2> QED
    BY <2>2, <2>4, EmptyArray
<1>10. CASE last # 0
  <2>1. last \in Nat \ {0} /\ last \in 1 .. Len(r)
    BY <1>1, <1>7, <1>10
  <2>2. /\ q \in [1 .. last -> Seq(RangesTo(M))]
        /\ \A k \in 1 .. last : k \in 1 .. Len(r) /\ q[k] = Rest(r[k], cut).left
    BY <1>1, <1>4, <2>1 DEF Arrays
  <2> HIDE DEF q
  <2>3. PICK f \in [1 .. last -> Seq(RangesTo(M))] :
          /\ f[1] = q[1] /\ \A i \in 2 .. last : f[i] = f[i - 1] \o q[i]
          /\ FlattenSeq(q) = f[last]
    <3>1. \E f \in [1 .. last -> Seq(RangesTo(M))] : Pieces(f, q, last)
      BY <2>1, <2>2, FlattenIs
    <3> QED
      BY <3>1, Zenon DEF Pieces
  <2> DEFINE Good(i) ==
               /\ f[i] \in Arrays(M)
               /\ Len(f[i]) > 0 => f[i][Len(f[i])].upper <= r[i].upper
               /\ \A x : x \in Elements(f[i]) <=>
                           x \in Nat /\ x \notin Span(cut) /\ \E k \in 1 .. i : In(x, k)
             T == {m \in Nat : m + 1 <= last => Good(m + 1)}
  <2>4. 0 \in T
    <3>1. 1 \in 1 .. Len(r) /\ 0 + 1 = 1 /\ \A k : k \in 1 .. 1 <=> k = 1
      BY <1>1, <2>1
    <3>2. f[1] = Rest(r[1], cut).left
      BY <2>1, <2>2, <2>3
    <3>3. f[1] \in Arrays(M) /\ (Len(f[1]) > 0 => f[1][Len(f[1])].upper <= r[1].upper)
      BY <1>4, <3>1, <3>2 DEF Within
    <3>4. \A x : x \in Elements(f[1]) <=> x \in Nat /\ x \notin Span(cut) /\ In(x, 1)
      BY <1>4, <1>5, <3>1, <3>2
    <3> QED
      BY <3>1, <3>3, <3>4
  <2>5. ASSUME NEW m \in 0 .. last - 1 - 1, m \in T
        PROVE  m + 1 \in T
    <3> DEFINE i == m + 1
    <3>1. i \in Nat /\ i \in 1 .. Len(r) /\ i + 1 \in 1 .. Len(r) /\ i < i + 1 /\ i + 1 \in 2 .. last
          /\ i + 1 \in 1 .. last /\ (i + 1) - 1 = i /\ i <= last
      BY <1>1, <2>1
    <3>2. Good(i)
      BY <2>5, <3>1
    <3>3. f[i + 1] = f[i] \o q[i + 1] /\ q[i + 1] = Rest(r[i + 1], cut).left
      BY <2>2, <2>3, <3>1
    <3>4. /\ q[i + 1] \in Arrays(M) /\ Elements(q[i + 1]) = Span(r[i + 1]) \ Span(cut)
          /\ Within(q[i + 1], r[i + 1])
      BY <1>4, <3>1, <3>3
    <3> HIDE DEF i
    <3>5. r[i].upper + 1 < r[i + 1].lower /\ r[i].upper \in Nat /\ r[i + 1].lower \in Nat
          /\ r[i + 1].upper \in Nat /\ r[i + 1].lower <= r[i + 1].upper
      BY <1>1, <3>1
    <3> DEFINE a == f[i]
               b == q[i + 1]
    <3>6. /\ Len(a) \in Nat /\ Len(b) \in Nat
          /\ Len(a) > 0 => a[Len(a)].upper \in Nat
          /\ Len(b) > 0 => b[1].lower \in Nat /\ b[Len(b)].upper \in Nat
      <4>1. a \in Arrays(M) /\ b \in Arrays(M)
        BY <3>2, <3>4
      <4> HIDE DEF a, b
      <4>2. /\ Len(a) \in Nat /\ Len(b) \in Nat
            /\ \A k \in 1 .. Len(a) : a[k].upper \in Nat
            /\ \A k \in 1 .. Len(b) : b[k].lower \in Nat /\ b[k].upper \in Nat
        BY <4>1, ArrayIs
      <4> QED
        BY <4>2
    <3>7. Below(a, b)
      <4>1. Len(a) > 0 => a[Len(a)].upper <= r[i].upper
        BY <3>2
      <4>2. Len(b) > 0 => r[i + 1].lower <= b[1].lower
        BY <3>4 DEF Within
      <4> HIDE DEF a, b
      <4> QED
        BY <3>5, <3>6, <4>1, <4>2 DEF Below
    <3>8. /\ a \o b \in Arrays(M) /\ Len(a \o b) = Len(a) + Len(b)
          /\ Elements(a \o b) = Elements(a) \cup Elements(b)
          /\ \A k \in 1 .. Len(a) : (a \o b)[k] = a[k]
          /\ \A k \in 1 .. Len(b) : (a \o b)[Len(a) + k] = b[k]
      <4>1. a \in Arrays(M) /\ b \in Arrays(M)
        BY <3>2, <3>4
      <4> HIDE DEF a, b
      <4> QED
        BY <3>7, <4>1, Joined
    <3>9. f[i + 1] = a \o b
      BY <3>3
    <3>10. Len(a \o b) > 0 => (a \o b)[Len(a \o b)].upper <= r[i + 1].upper
      <4>1. Len(a) > 0 => a[Len(a)].upper <= r[i].upper
        BY <3>2
      <4>2. Len(b) > 0 => b[Len(b)].upper <= r[i + 1].upper
        BY <3>4 DEF Within
      <4> HIDE DEF a, b
      <4>3. CASE Len(b) > 0
        <5>1. (a \o b)[Len(a \o b)] = b[Len(b)]
          BY <3>6, <3>8, <4>3
        <5> QED
          BY <4>2, <4>3, <5>1
      <4>4. CASE Len(b) = 0
        <5>1. Len(a \o b) > 0 => Len(a) > 0 /\ (a \o b)[Len(a \o b)] = a[Len(a)]
          BY <3>6, <3>8, <4>4
        <5> QED
          BY <3>5, <3>6, <4>1, <5>1
      <4> QED
        BY <3>6, <4>3, <4>4
    <3>11. \A x : x \in Elements(a \o b) <=>
                    x \in Nat /\ x \notin Span(cut) /\ \E k \in 1 .. i + 1 : In(x, k)
      <4>1. \A x : x \in Elements(a) <=> x \in Nat /\ x \notin Span(cut) /\ \E k \in 1 .. i : In(x, k)
        BY <3>2
      <4>2. \A x : x \in Elements(b) <=> x \in Nat /\ x \notin Span(cut) /\ In(x, i + 1)
        BY <1>5, <3>1, <3>4
      <4>3. \A k : k \in 1 .. i + 1 <=> k \in 1 .. i \/ k = i + 1
        BY <3>1
      <4> HIDE DEF a, b, In
      <4> QED
        BY <3>8, <4>1, <4>2, <4>3
    <3>12. Good(i + 1)
      <4> HIDE DEF a, b, In
      <4> QED
        BY <3>8, <3>9, <3>10, <3>11
    <3> HIDE DEF Good
    <3> QED
      BY <3>12 DEF i
  <2>6. Good(last)
    <3> HIDE DEF T
    <3>1. 0 .. last - 1 \subseteq T
      <4>1. last - 1 \in Nat
        BY <2>1
      <4> QED
        BY <2>4, <2>5, <4>1, CountUp
    <3>2. last - 1 \in T /\ (last - 1) + 1 = last /\ last <= last
      BY <2>1, <3>1
    <3> HIDE DEF Good
    <3> QED
      BY <3>2 DEF T
  <2> DEFINE h == f[last]
  <2>7. /\ tail \in Arrays(M) /\ Len(tail) = Len(r) - (last + 1) + 1
        /\ \A k \in 1 .. Len(r) - (last + 1) + 1 : tail[k] = r[last + 1 + k - 1]
        /\ \A x : x \in Elements(tail) <=> x \in Nat /\ \E k \in last + 1 .. Len(r) : In(x, k)
    <3>1. /\ last + 1 \in Nat \ {0} /\ Len(r) \in Nat /\ last + 1 <= Len(r) + 1 /\ Len(r) <= Len(r)
      BY <1>1, <2>1
    <3> QED
      BY <3>1, Part
  <2> HIDE DEF tail, In
  <2>8. /\ h \in Arrays(M)
        /\ Len(h) > 0 => h[Len(h)].upper <= r[last].upper
        /\ \A x : x \in Elements(h) <=>
                    x \in Nat /\ x \notin Span(cut) /\ \E k \in 1 .. last : In(x, k)
    BY <2>6
  <2> HIDE DEF h
  <2>9. Below(h, tail)
    <3> SUFFICES ASSUME Len(h) > 0, Len(tail) > 0
                 PROVE  h[Len(h)].upper + 1 < tail[1].lower
      BY DEF Below
    <3>1. tail[1] = r[last + 1] /\ last + 1 \in 1 .. Len(r) /\ last \in 1 .. Len(r) /\ last < last + 1
      BY <1>1, <2>1, <2>7
    <3>2. r[last].upper + 1 < r[last + 1].lower /\ r[last].upper \in Nat /\ r[last + 1].lower \in Nat
      BY <1>1, <3>1
    <3>3. h[Len(h)].upper \in Nat
      BY <2>8, ArrayIs
    <3>4. h[Len(h)].upper <= r[last].upper
      BY <2>8
    <3>5. \A x, y, w \in Nat : x <= y /\ y + 1 < w => x + 1 < w
      OBVIOUS
    <3>6. h[Len(h)].upper + 1 < r[last + 1].lower
      BY <3>2, <3>3, <3>4, <3>5, Zenon
    <3> QED
      BY <3>1, <3>6
  <2>10. h \o tail \in Arrays(M) /\ Elements(h \o tail) = Elements(h) \cup Elements(tail)
    BY <2>7, <2>8, <2>9, Joined
  <2>11. Cut(r, cut) = h \o tail
    BY <1>8, <2>3 DEF h
  <2>12. ASSUME NEW x \in Nat, NEW k \in last + 1 .. Len(r), In(x, k)
         PROVE  x \notin Span(cut)
    <3>1. last \in 1 .. Len(r) /\ k \in 1 .. Len(r) /\ last < k /\ last < Len(r)
      BY <1>1, <2>1
    <3>2. cut.upper < r[last].upper
      BY <1>4, <1>7, <3>1
    <3>3. r[last].upper + 1 < r[k].lower /\ r[last].upper \in Nat /\ r[k].lower \in Nat
      BY <1>1, <3>1
    <3>4. r[k].lower <= x
      BY <2>12 DEF In
    <3> QED
      BY <1>3, <3>2, <3>3, <3>4
  <2>13. \A k : k \in 1 .. Len(r) <=> k \in 1 .. last \/ k \in last + 1 .. Len(r)
    BY <1>1, <2>1
  <2>14. \A x : x \in Elements(h) \cup Elements(tail) <=> x \in Elements(r) /\ x \notin Span(cut)
    BY <1>2, <2>7, <2>8, <2>12, <2>13
  <2> QED
    BY <2>10, <2>11, <2>14
<1> QED
  BY <1>9, <1>10

-------------------------------------------------------------------------------
(* Adding and deleting lists of ranges. *)

LEMMA DelIs ==
  ASSUME NEW s \in IpRecords, NEW m \in IpRanges
  PROVE  /\ del_iprange(s, m) \in IpRecords
         /\ Elements(del_iprange(s, m).ranges) = Elements(s.ranges) \ Span(m)
<1> DEFINE left == Cut(s.ranges, m)
<1>1. Max32 \in Nat /\ s.ranges \in Arrays(Max32) /\ m \in RangesTo(Max32) /\ s.maxranges \in Int
  BY AddrsAre DEF IpRecords, IpArrays, IpRanges
<1>2. left \in Arrays(Max32) /\ Elements(left) = Elements(s.ranges) \ Span(m)
  BY <1>1, CutIs
<1>3. extend_ipset(s) \in Int /\ remove_ipset(s, left).maxranges \in Int
  BY <1>1 DEF extend_ipset, remove_ipset
<1>4. /\ del_iprange(s, m) = [ranges |-> left, maxranges |-> extend_ipset(s)]
         \/ del_iprange(s, m) = [ranges |-> left, maxranges |-> remove_ipset(s, left).maxranges]
  BY DEF del_iprange, remove_ipset
<1> HIDE DEF left
<1> QED
  BY <1>2, <1>3, <1>4 DEF IpRecords, IpArrays

LEMMA MaxIs ==
  ASSUME NEW n \in Nat, NEW w \in SUBSET (1 .. n), w # {}
  PROVE  Max(w) \in 1 .. n /\ w \ {Max(w)} \in SUBSET (1 .. n)
<1>1. w \in SUBSET (0 .. n)
  OBVIOUS
<1>2. Most(w) \in w /\ \A y \in w : y <= Most(w)
  BY <1>1, MostIs
<1>3. \A y \in w : Most(w) >= y
  BY <1>2
<1>4. Max(w) \in w
  BY <1>2, <1>3 DEF Max
<1> QED
  BY <1>4

LEMMA AddAllIs ==
  ASSUME NEW s \in IpRecords, NEW q \in Seq(IpRanges)
  PROVE  /\ add_ipranges(s, q) \in IpRecords
         /\ Elements(add_ipranges(s, q).ranges) = Elements(s.ranges) \cup Elements(q)
<1> DEFINE n == Len(q)
           Run(i) == i = [w \in SUBSET DOMAIN q |->
                            IF w = {} THEN s ELSE add_iprange(i[w \ {Max(w)}], q[Max(w)])]
           iter == CHOOSE i : Run(i)
           g == [p \in IpRecords \X IpRanges |-> add_iprange(p[1], p[2])]
<1>1. n \in Nat /\ DOMAIN q = 1 .. n /\ \A k \in 1 .. n : q[k] \in IpRanges
  OBVIOUS
<1>2. /\ g \in [IpRecords \X IpRanges -> IpRecords]
      /\ \A a \in IpRecords, b \in IpRanges : g[<<a, b>>] = add_iprange(a, b)
  BY AddIs
<1> HIDE DEF n, g
<1>3. \E i : Run(i)
  <2>1. PICK h \in [SUBSET (1 .. n) -> IpRecords] : Runs(h, g, s, q, n)
    <3>1. Steps(g, IpRecords, IpRanges) /\ Items(q, IpRanges, n) /\ n \in Nat
      BY <1>1, <1>2 DEF Steps, Items
    <3> QED
      BY <3>1, FoldRun
  <2>2. \A w \in SUBSET (1 .. n) :
          h[w] = IF w = {} THEN s ELSE add_iprange(h[w \ {Max(w)}], q[Max(w)])
    BY <1>1, <1>2, <2>1, MaxIs DEF Runs
  <2>3. h = [w \in SUBSET (1 .. n) |-> h[w]]
    OBVIOUS
  <2>4. Run(h)
    BY <1>1, <2>2, <2>3, Zenon
  <2> QED
    BY <2>4
<1>4. Run(iter)
  BY <1>3
<1>5. add_ipranges(s, q) = iter[DOMAIN q]
  BY DEF add_ipranges, FoldLeft, MapThenFoldSet
<1> HIDE DEF iter
<1>6. \A w \in SUBSET (1 .. n) :
        iter[w] = IF w = {} THEN s ELSE add_iprange(iter[w \ {Max(w)}], q[Max(w)])
  BY <1>1, <1>4
<1> DEFINE Good(k) == /\ iter[1 .. k] \in IpRecords
                      /\ \A x : x \in Elements(iter[1 .. k].ranges) <=>
                                  x \in Elements(s.ranges) \/ \E j \in 1 .. k : x \in Span(q[j])
           T == {k \in Nat : k <= n => Good(k)}
<1>7. 0 \in T
  <2>1. 1 .. 0 = {} /\ {} \in SUBSET (1 .. n)
    OBVIOUS
  <2>2. iter[1 .. 0] = s
    BY <1>6, <2>1
  <2> QED
    BY <2>1, <2>2
<1>8. ASSUME NEW k \in 0 .. n - 1, k \in T
      PROVE  k + 1 \in T
  <2>1. /\ k \in Nat /\ k <= n /\ k + 1 \in Nat /\ k + 1 > 0 /\ k + 1 \in 1 .. n /\ (k + 1) - 1 = k
        /\ 1 .. k + 1 \in SUBSET (1 .. n)
    BY <1>1
  <2>2. 1 .. k + 1 # {} /\ Max(1 .. k + 1) = k + 1 /\ (1 .. k + 1) \ {k + 1} = 1 .. k
    BY <2>1, MaxUpTo
  <2>3. iter[1 .. k + 1] = add_iprange(iter[1 .. k], q[k + 1])
    BY <1>6, <2>1, <2>2
  <2>4. Good(k)
    BY <1>8, <2>1
  <2>5. /\ iter[1 .. k + 1] \in IpRecords
        /\ Elements(iter[1 .. k + 1].ranges) = Elements(iter[1 .. k].ranges) \cup Span(q[k + 1])
    BY <1>1, <2>1, <2>3, <2>4, AddIs
  <2>6. \A j : j \in 1 .. k + 1 <=> j \in 1 .. k \/ j = k + 1
    BY <2>1
  <2>7. Good(k + 1)
    BY <2>4, <2>5, <2>6
  <2> HIDE DEF Good
  <2> QED
    BY <2>1, <2>7
<1> HIDE DEF T
<1>9. 0 .. n \subseteq T
  BY <1>1, <1>7, <1>8, CountUp
<1>10. Good(n)
  <2>1. n \in T /\ n <= n
    BY <1>1, <1>9
  <2> HIDE DEF Good
  <2> QED
    BY <2>1 DEF T
<1>11. add_ipranges(s, q) = iter[1 .. n]
  BY <1>1, <1>5
<1>12. \A x : x \in Elements(q) <=> \E j \in 1 .. n : x \in Span(q[j])
  BY <1>1 DEF Elements
<1> QED
  BY <1>10, <1>11, <1>12

LEMMA DelAllIs ==
  ASSUME NEW s \in IpRecords, NEW q \in Seq(IpRanges)
  PROVE  /\ del_ipranges(s, q) \in IpRecords
         /\ Elements(del_ipranges(s, q).ranges) = Elements(s.ranges) \ Elements(q)
<1> DEFINE n == Len(q)
           Run(i) == i = [w \in SUBSET DOMAIN q |->
                            IF w = {} THEN s ELSE del_iprange(i[w \ {Max(w)}], q[Max(w)])]
           iter == CHOOSE i : Run(i)
           g == [p \in IpRecords \X IpRanges |-> del_iprange(p[1], p[2])]
<1>1. n \in Nat /\ DOMAIN q = 1 .. n /\ \A k \in 1 .. n : q[k] \in IpRanges
  OBVIOUS
<1>2. /\ g \in [IpRecords \X IpRanges -> IpRecords]
      /\ \A a \in IpRecords, b \in IpRanges : g[<<a, b>>] = del_iprange(a, b)
  BY DelIs
<1> HIDE DEF n, g
<1>3. \E i : Run(i)
  <2>1. PICK h \in [SUBSET (1 .. n) -> IpRecords] : Runs(h, g, s, q, n)
    <3>1. Steps(g, IpRecords, IpRanges) /\ Items(q, IpRanges, n) /\ n \in Nat
      BY <1>1, <1>2 DEF Steps, Items
    <3> QED
      BY <3>1, FoldRun
  <2>2. \A w \in SUBSET (1 .. n) :
          h[w] = IF w = {} THEN s ELSE del_iprange(h[w \ {Max(w)}], q[Max(w)])
    BY <1>1, <1>2, <2>1, MaxIs DEF Runs
  <2>3. h = [w \in SUBSET (1 .. n) |-> h[w]]
    OBVIOUS
  <2>4. Run(h)
    BY <1>1, <2>2, <2>3, Zenon
  <2> QED
    BY <2>4
<1>4. Run(iter)
  BY <1>3
<1>5. del_ipranges(s, q) = iter[DOMAIN q]
  BY DEF del_ipranges, FoldLeft, MapThenFoldSet
<1> HIDE DEF iter
<1>6. \A w \in SUBSET (1 .. n) :
        iter[w] = IF w = {} THEN s ELSE del_iprange(iter[w \ {Max(w)}], q[Max(w)])
  BY <1>1, <1>4
<1> DEFINE Good(k) == /\ iter[1 .. k] \in IpRecords
                      /\ \A x : x \in Elements(iter[1 .. k].ranges) <=>
                                  x \in Elements(s.ranges) /\ ~ \E j \in 1 .. k : x \in Span(q[j])
           T == {k \in Nat : k <= n => Good(k)}
<1>7. 0 \in T
  <2>1. 1 .. 0 = {} /\ {} \in SUBSET (1 .. n)
    OBVIOUS
  <2>2. iter[1 .. 0] = s
    BY <1>6, <2>1
  <2> QED
    BY <2>1, <2>2
<1>8. ASSUME NEW k \in 0 .. n - 1, k \in T
      PROVE  k + 1 \in T
  <2>1. /\ k \in Nat /\ k <= n /\ k + 1 \in Nat /\ k + 1 > 0 /\ k + 1 \in 1 .. n /\ (k + 1) - 1 = k
        /\ 1 .. k + 1 \in SUBSET (1 .. n)
    BY <1>1
  <2>2. 1 .. k + 1 # {} /\ Max(1 .. k + 1) = k + 1 /\ (1 .. k + 1) \ {k + 1} = 1 .. k
    BY <2>1, MaxUpTo
  <2>3. iter[1 .. k + 1] = del_iprange(iter[1 .. k], q[k + 1])
    BY <1>6, <2>1, <2>2
  <2>4. Good(k)
    BY <1>8, <2>1
  <2>5. /\ iter[1 .. k + 1] \in IpRecords
        /\ Elements(iter[1 .. k + 1].ranges) = Elements(iter[1 .. k].ranges) \ Span(q[k + 1])
    BY <1>1, <2>1, <2>3, <2>4, DelIs
  <2>6. \A j : j \in 1 .. k + 1 <=> j \in 1 .. k \/ j = k + 1
    BY <2>1
  <2>7. Good(k + 1)
    BY <2>4, <2>5, <2>6
  <2> HIDE DEF Good
  <2> QED
    BY <2>1, <2>7
<1> HIDE DEF T
<1>9. 0 .. n \subseteq T
  BY <1>1, <1>7, <1>8, CountUp
<1>10. Good(n)
  <2>1. n \in T /\ n <= n
    BY <1>1, <1>9
  <2> HIDE DEF Good
  <2> QED
    BY <2>1 DEF T
<1>11. del_ipranges(s, q) = iter[1 .. n]
  BY <1>1, <1>5
<1>12. \A x : x \in Elements(q) <=> \E j \in 1 .. n : x \in Span(q[j])
  BY <1>1 DEF Elements
<1> QED
  BY <1>10, <1>11, <1>12

LEMMA CountIs ==
  ASSUME NEW M \in Nat, NEW r \in Arrays(M), NEW k \in 0 .. Len(r),
         NEW S \in [0 .. Len(r) -> SUBSET Nat],
         \A i \in 0 .. Len(r) : \A x : x \in S[i] <=>
           x \in Nat /\ \E j \in 1 .. i : r[j].lower <= x /\ x <= r[j].upper,
         k < Len(r), IsFiniteSet(S[k])
  PROVE  /\ IsFiniteSet(S[k + 1]) /\ Cardinality(S[k]) \in Nat
         /\ Cardinality(S[k + 1]) = Cardinality(S[k]) + r[k + 1].upper - r[k + 1].lower + 1
<1> DEFINE A == r[k + 1].lower .. r[k + 1].upper
<1>1. /\ r \in Seq(RangesTo(M)) /\ Len(r) \in Nat
      /\ \A i \in 1 .. Len(r) : /\ r[i].lower \in Nat /\ r[i].upper \in Nat
                                /\ r[i].lower <= r[i].upper
      /\ \A i, j \in 1 .. Len(r) : i < j => r[i].upper + 1 < r[j].lower
  BY ArrayIs
<1>2. k + 1 \in 1 .. Len(r) /\ k + 1 \in 0 .. Len(r) /\ k \in Nat
  BY <1>1
<1>3. IsFiniteSet(A) /\ Cardinality(A) = r[k + 1].upper - r[k + 1].lower + 1
  <2>1. r[k + 1].lower \in Int /\ r[k + 1].upper \in Int /\ ~(r[k + 1].lower > r[k + 1].upper)
    BY <1>1, <1>2
  <2> QED
    BY <2>1, FS_Interval
<1>4. \A x : x \in S[k + 1] <=> x \in S[k] \/ x \in A
  <2>1. \A j : j \in 1 .. k + 1 <=> j \in 1 .. k \/ j = k + 1
    BY <1>2
  <2>2. \A x : x \in A <=> x \in Nat /\ r[k + 1].lower <= x /\ x <= r[k + 1].upper
    BY <1>1, <1>2
  <2>3. \A x : x \in S[k + 1] <=>
           x \in Nat /\ \E j \in 1 .. k + 1 : r[j].lower <= x /\ x <= r[j].upper
    BY <1>2
  <2>4. \A x : x \in S[k] <=>
           x \in Nat /\ \E j \in 1 .. k : r[j].lower <= x /\ x <= r[j].upper
    BY <1>2
  <2> HIDE DEF A
  <2> QED
    BY <2>1, <2>2, <2>3, <2>4
<1>5. S[k + 1] = S[k] \cup A
  BY <1>4
<1>6. S[k] \cap A = {}
  <2> SUFFICES ASSUME NEW x \in S[k], x \in A
               PROVE  FALSE
    OBVIOUS
  <2>1. PICK j \in 1 .. k : x \in Nat /\ x <= r[j].upper
    BY <1>2
  <2>2. j \in 1 .. Len(r) /\ j < k + 1
    BY <1>1, <1>2
  <2>3. r[j].upper + 1 < r[k + 1].lower /\ r[j].upper \in Nat /\ r[k + 1].lower \in Nat
    BY <1>1, <1>2, <2>2
  <2>4. r[k + 1].lower <= x
    OBVIOUS
  <2> QED
    BY <2>1, <2>3, <2>4
<1> HIDE DEF A
<1>7. /\ IsFiniteSet(S[k] \cup A)
      /\ Cardinality(S[k] \cup A) = Cardinality(S[k]) + Cardinality(A) - Cardinality(S[k] \cap A)
  BY <1>3, FS_Union
<1>8. Cardinality(S[k] \cap A) = 0
  BY <1>6, FS_EmptySet
<1>9. Cardinality(S[k]) \in Nat
  BY FS_CardinalityType
<1> QED
  BY <1>1, <1>2, <1>3, <1>5, <1>7, <1>8, <1>9

-------------------------------------------------------------------------------
(* Questions about arrays. *)

LEMMA HasIs ==
  ASSUME NEW M \in Nat, NEW r \in Arrays(M), NEW x \in Nat
  PROVE  Has(r, x) <=> x \in Elements(r)
<1>1. /\ r \in Seq(RangesTo(M)) /\ Len(r) \in Nat /\ DOMAIN r = 1 .. Len(r)
      /\ \A k \in 1 .. Len(r) : r[k].lower \in Nat /\ r[k].upper \in Nat /\ r[k].lower <= r[k].upper
      /\ \A j, k \in 1 .. Len(r) : j < k => r[j].upper + 1 < r[k].lower
  BY ArrayIs
<1>2. x \in Elements(r) <=> \E k \in 1 .. Len(r) : r[k].lower <= x /\ x <= r[k].upper
  BY <1>1, ElementsAre
<1>3. ASSUME NEW k \in 1 .. Len(r), r[k].lower <= x, NEW j \in 1 .. k
      PROVE  x >= r[j].lower
  <2>1. j \in 1 .. Len(r) /\ (j < k \/ j = k)
    BY <1>1
  <2>2. CASE j = k
    BY <1>1, <1>3, <2>2
  <2>3. CASE j < k
    <3>1. /\ r[j].upper + 1 < r[k].lower /\ r[j].lower <= r[j].upper
          /\ r[j].lower \in Nat /\ r[j].upper \in Nat /\ r[k].lower \in Nat
      BY <1>1, <2>1, <2>3
    <3>2. \A a, b, c \in Nat : a <= b /\ b + 1 < c /\ c <= x => x >= a
      OBVIOUS
    <3> QED
      BY <1>3, <3>1, <3>2
  <2> QED
    BY <2>1, <2>2, <2>3
<1>4. \A k \in 1 .. Len(r) : k \in 1 .. k
  BY <1>1
<1>5. \A k \in 1 .. Len(r) : x >= r[k].lower => r[k].lower <= x
  BY <1>1
<1> QED
  BY <1>1, <1>2, <1>3, <1>4, <1>5 DEF Has

\* An array that has all elements of another and begins like it goes on no later.
LEMMA LowerMeets ==
  ASSUME NEW M \in Nat, NEW a \in Arrays(M), NEW b \in Arrays(M), NEW k \in 0 .. Len(a),
         k < Len(a), k <= Len(b), \A i \in 1 .. k : a[i] = b[i], Elements(a) \subseteq Elements(b)
  PROVE  k + 1 <= Len(b) /\ b[k + 1].lower <= a[k + 1].lower
<1>1. /\ a \in Seq(RangesTo(M)) /\ Len(a) \in Nat
      /\ \A i \in 1 .. Len(a) : a[i].lower \in Nat /\ a[i].upper \in Nat /\ a[i].lower <= a[i].upper
      /\ \A i, j \in 1 .. Len(a) : i < j => a[i].upper + 1 < a[j].lower
  BY ArrayIs
<1>2. /\ b \in Seq(RangesTo(M)) /\ Len(b) \in Nat
      /\ \A i \in 1 .. Len(b) : b[i].lower \in Nat /\ b[i].upper \in Nat /\ b[i].lower <= b[i].upper
      /\ \A i, j \in 1 .. Len(b) : i < j => b[i].upper + 1 < b[j].lower
  BY ArrayIs
<1> DEFINE x == a[k + 1].lower
<1>3. k \in Nat /\ k + 1 \in 1 .. Len(a) /\ x \in Nat /\ x <= x /\ x <= a[k + 1].upper
  BY <1>1
<1>4. x \in Elements(a)
  BY <1>1, <1>3, ElementsAre
<1>5. PICK j \in 1 .. Len(b) : b[j].lower <= x /\ x <= b[j].upper
  BY <1>2, <1>4, ElementsAre
<1>6. ~(j <= k)
  <2> SUFFICES ASSUME j <= k
               PROVE  FALSE
    OBVIOUS
  <2>1. j \in 1 .. k /\ j \in 1 .. Len(a) /\ j < k + 1
    BY <1>1, <1>2, <1>3
  <2>2. a[j].upper + 1 < x /\ a[j].upper \in Nat /\ a[j] = b[j]
    BY <1>1, <1>3, <2>1
  <2> QED
    BY <1>3, <1>5, <2>2
<1>7. k + 1 \in 1 .. Len(b) /\ (k + 1 < j \/ k + 1 = j)
  BY <1>2, <1>3, <1>6
<1>8. b[k + 1].lower <= b[j].lower
  <2>1. CASE k + 1 = j
    BY <1>2, <2>1
  <2>2. CASE k + 1 < j
    <3>1. /\ b[k + 1].upper + 1 < b[j].lower /\ b[k + 1].lower <= b[k + 1].upper
          /\ b[k + 1].lower \in Nat /\ b[k + 1].upper \in Nat /\ b[j].lower \in Nat
      BY <1>2, <1>7, <2>2
    <3> QED
      BY <3>1
  <2> QED
    BY <1>7, <2>1, <2>2
<1>9. b[k + 1].lower \in Nat /\ b[j].lower \in Nat
  BY <1>2, <1>7
<1> HIDE DEF x
<1>10. b[k + 1].lower <= x
  BY <1>3, <1>5, <1>8, <1>9
<1> QED
  BY <1>2, <1>7, <1>10 DEF x

\* Of two ranges that begin alike none reaches into a gap of the other array.
LEMMA UpperMeets ==
  ASSUME NEW M \in Nat, NEW a \in Arrays(M), NEW q \in RangesTo(M), NEW k \in 1 .. Len(a),
         a[k].lower <= q.lower, q.lower <= a[k].upper, Span(q) \subseteq Elements(a)
  PROVE  q.upper <= a[k].upper
<1>1. /\ a \in Seq(RangesTo(M)) /\ Len(a) \in Nat
      /\ \A i \in 1 .. Len(a) : a[i].lower \in Nat /\ a[i].upper \in Nat /\ a[i].lower <= a[i].upper
      /\ \A i, j \in 1 .. Len(a) : i < j => a[i].upper + 1 < a[j].lower
  BY ArrayIs
<1>2. /\ q.lower \in Nat /\ q.upper \in Nat /\ q.lower <= q.upper
      /\ \A y : y \in Span(q) <=> y \in Nat /\ q.lower <= y /\ y <= q.upper
  BY RangeIs
<1> SUFFICES ASSUME ~(q.upper <= a[k].upper)
             PROVE  FALSE
  OBVIOUS
<1> DEFINE x == a[k].upper + 1
<1>3. x \in Span(q) /\ x \in Nat
  BY <1>1, <1>2
<1>4. PICK j \in 1 .. Len(a) : a[j].lower <= x /\ x <= a[j].upper
  BY <1>1, <1>3, ElementsAre
<1>5. j < k \/ j = k \/ k < j
  BY <1>1
<1>6. CASE j < k
  <2>1. /\ a[j].upper + 1 < a[k].lower /\ a[j].upper \in Nat /\ a[k].lower \in Nat
        /\ a[k].upper \in Nat /\ a[k].lower <= a[k].upper
    BY <1>1, <1>6
  <2> QED
    BY <1>4, <2>1
<1>7. CASE j = k
  BY <1>1, <1>4, <1>7
<1>8. CASE k < j
  <2>1. a[k].upper + 1 < a[j].lower /\ a[j].lower \in Nat /\ a[k].upper \in Nat
    BY <1>1, <1>8
  <2> QED
    BY <1>4, <2>1
<1> QED
  BY <1>5, <1>6, <1>7, <1>8

LEMMA Leading ==
  ASSUME NEW M \in Nat, NEW a \in Arrays(M), NEW b \in Arrays(M), Elements(a) = Elements(b)
  PROVE  Len(a) <= Len(b) /\ \A i \in 1 .. Len(a) : a[i] = b[i]
<1>1. /\ a \in Seq(RangesTo(M)) /\ b \in Seq(RangesTo(M)) /\ Len(a) \in Nat /\ Len(b) \in Nat
      /\ \A i \in 1 .. Len(a) : /\ a[i] \in RangesTo(M) /\ a[i].lower \in Nat /\ a[i].upper \in Nat
                                /\ a[i].lower <= a[i].upper
      /\ \A i \in 1 .. Len(b) : /\ b[i] \in RangesTo(M) /\ b[i].lower \in Nat /\ b[i].upper \in Nat
                                /\ b[i].lower <= b[i].upper
  BY ArrayIs
<1>2. /\ \A i \in 1 .. Len(a) : Span(a[i]) \subseteq Elements(a)
      /\ \A i \in 1 .. Len(b) : Span(b[i]) \subseteq Elements(b)
  BY <1>1 DEF Elements
<1> DEFINE Same(k) == k <= Len(b) /\ \A i \in 1 .. k : a[i] = b[i]
           T == {k \in Nat : k <= Len(a) => Same(k)}
<1>3. 0 \in T
  BY <1>1
<1>4. ASSUME NEW k \in 0 .. Len(a) - 1, k \in T
      PROVE  k + 1 \in T
  <2>1. /\ k \in 0 .. Len(a) /\ k < Len(a) /\ k \in Nat /\ k + 1 \in 1 .. Len(a)
        /\ k <= Len(b) /\ \A i \in 1 .. k : a[i] = b[i]
    BY <1>1, <1>4
  <2>2. k + 1 <= Len(b) /\ b[k + 1].lower <= a[k + 1].lower
    BY <2>1, LowerMeets
  <2>3. k \in 0 .. Len(b) /\ k < Len(b) /\ k <= Len(a) /\ k + 1 \in 1 .. Len(b)
    BY <1>1, <2>1, <2>2
  <2>4. a[k + 1].lower <= b[k + 1].lower
    BY <2>1, <2>3, LowerMeets
  <2>5. /\ a[k + 1] \in RangesTo(M) /\ b[k + 1] \in RangesTo(M)
        /\ a[k + 1].lower \in Nat /\ b[k + 1].lower \in Nat
        /\ a[k + 1].upper \in Nat /\ b[k + 1].upper \in Nat
        /\ a[k + 1].lower <= a[k + 1].upper /\ b[k + 1].lower <= b[k + 1].upper
    BY <1>1, <2>1, <2>3
  <2>6. a[k + 1].lower = b[k + 1].lower
    BY <2>2, <2>4, <2>5
  <2>7. b[k + 1].upper <= a[k + 1].upper
    <3>1. /\ a[k + 1].lower <= b[k + 1].lower /\ b[k + 1].lower <= a[k + 1].upper
          /\ Span(b[k + 1]) \subseteq Elements(a)
      BY <1>2, <2>3, <2>5, <2>6
    <3> QED
      BY <2>1, <2>5, <3>1, UpperMeets
  <2>8. a[k + 1].upper <= b[k + 1].upper
    <3>1. /\ b[k + 1].lower <= a[k + 1].lower /\ a[k + 1].lower <= b[k + 1].upper
          /\ Span(a[k + 1]) \subseteq Elements(b)
      BY <1>2, <2>1, <2>5, <2>6
    <3> QED
      BY <2>3, <2>5, <3>1, UpperMeets
  <2>9. a[k + 1].upper = b[k + 1].upper
    BY <2>5, <2>7, <2>8
  <2>10. a[k + 1] = b[k + 1]
    <3>1. /\ a[k + 1] = [lower |-> a[k + 1].lower, upper |-> a[k + 1].upper]
          /\ b[k + 1] = [lower |-> b[k + 1].lower, upper |-> b[k + 1].upper]
      BY <2>5, RangeIs
    <3> QED
      BY <2>6, <2>9, <3>1, Zenon
  <2>11. \A i : i \in 1 .. k + 1 <=> i \in 1 .. k \/ i = k + 1
    BY <2>1
  <2> QED
    BY <2>1, <2>2, <2>10, <2>11
<1>5. Len(a) \in T /\ Len(a) <= Len(a)
  <2> HIDE DEF T
  <2>1. 0 .. Len(a) \subseteq T
    BY <1>1, <1>3, <1>4, CountUp
  <2> QED
    BY <1>1, <2>1
<1> QED
  BY <1>5

LEMMA SameArray ==
  ASSUME NEW M \in Nat, NEW a \in Arrays(M), NEW b \in Arrays(M)
  PROVE  a = b <=> Elements(a) = Elements(b)
<1>1. SUFFICES ASSUME Elements(a) = Elements(b)
               PROVE  a = b
  OBVIOUS
<1>2. /\ Len(a) <= Len(b) /\ \A i \in 1 .. Len(a) : a[i] = b[i]
      /\ Len(b) <= Len(a)
  BY <1>1, Leading
<1>3. a \in Seq(RangesTo(M)) /\ b \in Seq(RangesTo(M)) /\ Len(a) \in Nat /\ Len(b) \in Nat
  BY ArrayIs
<1>4. Len(a) = Len(b)
  BY <1>2, <1>3
<1> QED
  BY <1>2, <1>3, <1>4, SeqEqual

LEMMA CompareIs ==
  ASSUME NEW M \in Nat, NEW a \in Arrays(M), NEW b \in Arrays(M)
  PROVE  Compare(a, b) = 0 <=> a = b
<1> DEFINE sign(x, y) == IF x < y THEN -1 ELSE IF x > y THEN 1 ELSE 0
           differ == {k \in DOMAIN a \cap DOMAIN b : a[k] # b[k]}
           z == Least(differ)
<1>1. /\ a \in Seq(RangesTo(M)) /\ b \in Seq(RangesTo(M)) /\ Len(a) \in Nat /\ Len(b) \in Nat
      /\ DOMAIN a = 1 .. Len(a) /\ DOMAIN b = 1 .. Len(b)
      /\ \A i \in 1 .. Len(a) : a[i] \in RangesTo(M) /\ a[i].lower \in Nat /\ a[i].upper \in Nat
      /\ \A i \in 1 .. Len(b) : b[i] \in RangesTo(M) /\ b[i].lower \in Nat /\ b[i].upper \in Nat
  BY ArrayIs
<1>2. \A x, y \in Nat : sign(x, y) = 0 <=> x = y
  OBVIOUS
<1>3. Compare(a, b) = IF differ = {} THEN sign(Len(a), Len(b))
                      ELSE IF a[z].lower # b[z].lower THEN sign(a[z].lower, b[z].lower)
                      ELSE sign(a[z].upper, b[z].upper)
  BY DEF Compare
<1> HIDE DEF sign
<1>4. CASE differ = {}
  <2>1. Compare(a, b) = 0 <=> Len(a) = Len(b)
    BY <1>1, <1>2, <1>3, <1>4
  <2>2. Len(a) = Len(b) => \A i \in 1 .. Len(a) : a[i] = b[i]
    BY <1>1, <1>4
  <2>3. Len(a) = Len(b) => a = b
    BY <1>1, <2>2, SeqEqual
  <2> QED
    BY <2>1, <2>3
<1>5. CASE differ # {}
  <2>1. z \in differ
    <3>1. differ \in SUBSET Nat
      BY <1>1
    <3> HIDE DEF differ
    <3> QED
      BY <1>5, <3>1, LeastIs
  <2>2. a[z] # b[z] /\ a[z] \in RangesTo(M) /\ b[z] \in RangesTo(M)
    BY <1>1, <2>1
  <2> HIDE DEF z, differ
  <2>3. /\ a[z] = [lower |-> a[z].lower, upper |-> a[z].upper]
        /\ b[z] = [lower |-> b[z].lower, upper |-> b[z].upper]
        /\ a[z].lower \in Nat /\ a[z].upper \in Nat /\ b[z].lower \in Nat /\ b[z].upper \in Nat
    BY <2>2, RangeIs
  <2>4. a[z].lower # b[z].lower \/ a[z].upper # b[z].upper
    BY <2>2, <2>3, Zenon
  <2>5. Compare(a, b) # 0
    BY <1>2, <1>3, <1>5, <2>3, <2>4
  <2>6. a # b
    BY <2>2
  <2> QED
    BY <2>5, <2>6
<1> QED
  BY <1>4, <1>5

LEMMA AreaIs ==
  ASSUME NEW s \in IpRecords
  PROVE  /\ IsFiniteSet(Elements(s.ranges)) /\ Cardinality(Elements(s.ranges)) \in Nat
         /\ ipset_area(s) = Cardinality(Elements(s.ranges))
<1> DEFINE q == s.ranges
           n == Len(q)
           Run(i) == i = [w \in SUBSET DOMAIN q |->
                            IF w = {} THEN 0
                            ELSE i[w \ {Max(w)}] + q[Max(w)].upper - q[Max(w)].lower + 1]
           iter == CHOOSE i : Run(i)
           g == [p \in Int \X IpRanges |-> p[1] + p[2].upper - p[2].lower + 1]
           S == [k \in 0 .. n |-> {x \in Nat : \E j \in 1 .. k : q[j].lower <= x /\ x <= q[j].upper}]
<1>1. /\ Max32 \in Nat /\ q \in Arrays(Max32) /\ q \in Seq(RangesTo(Max32))
      /\ n \in Nat /\ DOMAIN q = 1 .. n /\ \A k \in 1 .. n : q[k] \in IpRanges
      /\ \A k \in 1 .. n : q[k].lower \in Nat /\ q[k].upper \in Nat
  <2>1. q \in Arrays(Max32) /\ Max32 \in Nat
    BY AddrsAre DEF IpRecords, IpArrays
  <2> HIDE DEF q
  <2> QED
    BY <2>1, ArrayIs DEF IpRanges
<1>2. /\ g \in [Int \X IpRanges -> Int]
      /\ \A a \in Int, b \in IpRanges : g[<<a, b>>] = a + b.upper - b.lower + 1
  <2>1. \A b \in IpRanges : b.upper \in Nat /\ b.lower \in Nat
    BY <1>1, RangeIs DEF IpRanges
  <2> QED
    BY <2>1
<1>3. ipset_area(s) = iter[DOMAIN q]
  BY DEF ipset_area, FoldLeft, MapThenFoldSet
<1> HIDE DEF n, g, q
<1>4. \E i : Run(i)
  <2>1. PICK h \in [SUBSET (1 .. n) -> Int] : Runs(h, g, 0, q, n)
    <3>1. Steps(g, Int, IpRanges) /\ Items(q, IpRanges, n) /\ n \in Nat /\ 0 \in Int
      BY <1>1, <1>2 DEF Steps, Items
    <3> QED
      BY <3>1, FoldRun
  <2>2. \A w \in SUBSET (1 .. n) :
          h[w] = IF w = {} THEN 0 ELSE h[w \ {Max(w)}] + q[Max(w)].upper - q[Max(w)].lower + 1
    BY <1>1, <1>2, <2>1, MaxIs DEF Runs
  <2>3. h = [w \in SUBSET (1 .. n) |-> h[w]]
    OBVIOUS
  <2>4. Run(h)
    BY <1>1, <2>2, <2>3, Zenon
  <2> QED
    BY <2>4
<1>5. Run(iter)
  BY <1>4
<1> HIDE DEF iter
<1>6. \A w \in SUBSET (1 .. n) :
        iter[w] = IF w = {} THEN 0
                  ELSE iter[w \ {Max(w)}] + q[Max(w)].upper - q[Max(w)].lower + 1
  BY <1>1, <1>5
<1>7. /\ S \in [0 .. n -> SUBSET Nat]
      /\ \A i \in 0 .. n : \A x : x \in S[i] <=>
           x \in Nat /\ \E j \in 1 .. i : q[j].lower <= x /\ x <= q[j].upper
  OBVIOUS
<1> HIDE DEF S
<1> DEFINE Good(k) == IsFiniteSet(S[k]) /\ iter[1 .. k] = Cardinality(S[k])
           T == {k \in Nat : k <= n => Good(k)}
<1>8. 0 \in T
  <2>1. 1 .. 0 = {} /\ {} \in SUBSET (1 .. n) /\ 0 \in 0 .. n
    BY <1>1
  <2>2. iter[1 .. 0] = 0
    BY <1>6, <2>1
  <2>3. S[0] = {}
    BY <1>7, <2>1
  <2> QED
    BY <2>2, <2>3, FS_EmptySet
<1>9. ASSUME NEW k \in 0 .. n - 1, k \in T
      PROVE  k + 1 \in T
  <2>1. /\ k \in Nat /\ k <= n /\ k + 1 \in Nat /\ k + 1 > 0 /\ k + 1 \in 1 .. n /\ (k + 1) - 1 = k
        /\ 1 .. k + 1 \in SUBSET (1 .. n) /\ k \in 0 .. n /\ k < n
    BY <1>1
  <2>2. 1 .. k + 1 # {} /\ Max(1 .. k + 1) = k + 1 /\ (1 .. k + 1) \ {k + 1} = 1 .. k
    BY <2>1, MaxUpTo
  <2>3. iter[1 .. k + 1] = iter[1 .. k] + q[k + 1].upper - q[k + 1].lower + 1
    BY <1>6, <2>1, <2>2
  <2>4. Good(k)
    BY <1>9, <2>1
  <2>5. /\ IsFiniteSet(S[k + 1])
        /\ Cardinality(S[k + 1]) = Cardinality(S[k]) + q[k + 1].upper - q[k + 1].lower + 1
    BY <1>1, <1>7, <2>1, <2>4, CountIs DEF n
  <2>6. Good(k + 1)
    BY <2>3, <2>4, <2>5
  <2> HIDE DEF Good
  <2> QED
    BY <2>1, <2>6
<1> HIDE DEF T
<1>10. 0 .. n \subseteq T
  BY <1>1, <1>8, <1>9, CountUp
<1>11. Good(n)
  <2>1. n \in T /\ n <= n
    BY <1>1, <1>10
  <2> HIDE DEF Good
  <2> QED
    BY <2>1 DEF T
<1>12. S[n] = Elements(q)
  <2>1. n \in 0 .. n
    BY <1>1
  <2>2. \A x : x \in Elements(q) <=> x \in Nat /\ \E j \in 1 .. n : q[j].lower <= x /\ x <= q[j].upper
    BY <1>1, ElementsAre DEF n
  <2> QED
    BY <1>7, <2>1, <2>2
<1>13. ipset_area(s) = iter[1 .. n] /\ q = s.ranges
  BY <1>1, <1>3 DEF q
<1> QED
  BY <1>11, <1>12, <1>13, FS_CardinalityType

LEMMA SingletonIs ==
  ASSUME NEW s \in IpRecords
  PROVE  ipset_is_singleton(s) <=> Cardinality(Elements(s.ranges)) = 1
<1> DEFINE r == s.ranges
<1>1. Max32 \in Nat /\ r \in Arrays(Max32)
  BY AddrsAre DEF IpRecords, IpArrays
<1>2. IsFiniteSet(Elements(r))
  BY AreaIs
<1>3. ipset_is_singleton(s) <=> Len(r) = 1 /\ r[1].lower = r[1].upper
  BY DEF ipset_is_singleton
<1> HIDE DEF r
<1>4. /\ r \in Seq(RangesTo(Max32)) /\ Len(r) \in Nat
      /\ \A k \in 1 .. Len(r) : r[k].lower \in Nat /\ r[k].upper \in Nat /\ r[k].lower <= r[k].upper
      /\ \A j, k \in 1 .. Len(r) : j < k => r[j].upper + 1 < r[k].lower
  BY <1>1, ArrayIs
<1>5. \A x : x \in Elements(r) <=> x \in Nat /\ \E k \in 1 .. Len(r) : r[k].lower <= x /\ x <= r[k].upper
  BY <1>1, <1>4, ElementsAre
<1>6. \A k \in 1 .. Len(r) : r[k].lower \in Elements(r) /\ r[k].upper \in Elements(r)
  BY <1>4, <1>5
<1>7. ASSUME Len(r) = 1, r[1].lower = r[1].upper
      PROVE  Elements(r) = {r[1].lower}
  <2>1. 1 \in 1 .. Len(r) /\ \A k \in 1 .. Len(r) : k = 1
    BY <1>7
  <2> QED
    BY <1>4, <1>5, <1>7, <2>1
<1>8. ASSUME NEW x, Elements(r) = {x}
      PROVE  Len(r) = 1 /\ r[1].lower = r[1].upper
  <2>1. Len(r) # 0
    BY <1>4, <1>5, <1>8
  <2>2. ~(Len(r) >= 2)
    <3> SUFFICES ASSUME Len(r) >= 2
                 PROVE  FALSE
      OBVIOUS
    <3>1. 1 \in 1 .. Len(r) /\ 2 \in 1 .. Len(r) /\ 1 < 2
      BY <1>4
    <3>2. r[1].upper = r[2].lower /\ r[1].upper + 1 < r[2].lower /\ r[1].upper \in Nat
      BY <1>4, <1>6, <1>8, <3>1
    <3> QED
      BY <3>2
  <2>3. Len(r) = 1 /\ 1 \in 1 .. Len(r)
    <3>1. \A m \in Nat : m # 0 /\ ~(m >= 2) => m = 1 /\ 1 \in 1 .. m
      OBVIOUS
    <3>2. Len(r) \in Nat
      BY <1>4
    <3> QED
      BY <2>1, <2>2, <3>1, <3>2, Zenon
  <2> QED
    BY <1>6, <1>8, <2>3
<1>9. Cardinality(Elements(r)) = 1 <=> \E x : Elements(r) = {x}
  BY <1>2, FS_Singleton DEF r
<1> QED
  BY <1>3, <1>7, <1>8, <1>9 DEF r

LEMMA ClashIs ==
  ASSUME NEW s \in IpRecords, NEW t \in IpRecords
  PROVE  ipsets_clash(s, t) <=> Elements(s.ranges) \cap Elements(t.ranges) # {}
<1> DEFINE r == s.ranges
           q == t.ranges
<1>1. Max32 \in Nat /\ r \in Arrays(Max32) /\ q \in Arrays(Max32)
  BY AddrsAre DEF IpRecords, IpArrays
<1>2. ipsets_clash(s, t) <=>
        \E k \in DOMAIN q : \E j \in DOMAIN r :
          \/ q[k].upper <= r[j].upper /\ q[k].upper >= r[j].lower
          \/ q[k].lower <= r[j].upper /\ q[k].lower >= r[j].lower
          \/ q[k].lower <= r[j].lower /\ q[k].upper >= r[j].upper
  BY DEF ipsets_clash, iprange_clashes
<1> HIDE DEF r, q
<1>3. /\ DOMAIN r = 1 .. Len(r) /\ r \in Seq(RangesTo(Max32))
      /\ \A k \in 1 .. Len(r) : r[k].lower \in Nat /\ r[k].upper \in Nat /\ r[k].lower <= r[k].upper
  BY <1>1, ArrayIs
<1>4. /\ DOMAIN q = 1 .. Len(q) /\ q \in Seq(RangesTo(Max32))
      /\ \A k \in 1 .. Len(q) : q[k].lower \in Nat /\ q[k].upper \in Nat /\ q[k].lower <= q[k].upper
  BY <1>1, ArrayIs
<1>5. \A x : x \in Elements(r) <=> x \in Nat /\ \E k \in 1 .. Len(r) : r[k].lower <= x /\ x <= r[k].upper
  BY <1>1, <1>3, ElementsAre
<1>6. \A x : x \in Elements(q) <=> x \in Nat /\ \E k \in 1 .. Len(q) : q[k].lower <= x /\ x <= q[k].upper
  BY <1>1, <1>4, ElementsAre
<1>7. \A a, b, c, d \in Nat : a <= b /\ c <= d =>
        ((\/ b <= d /\ b >= c
          \/ a <= d /\ a >= c
          \/ a <= c /\ b >= d) <=> \E x \in Nat : a <= x /\ x <= b /\ c <= x /\ x <= d)
  <2> TAKE a, b, c, d \in Nat
  <2> HAVE a <= b /\ c <= d
  <2>1. ASSUME NEW x \in Nat, a <= x, x <= b, c <= x, x <= d
        PROVE  \/ b <= d /\ b >= c
               \/ a <= d /\ a >= c
               \/ a <= c /\ b >= d
    BY <2>1
  <2>2. ASSUME b <= d /\ b >= c
        PROVE  \E x \in Nat : a <= x /\ x <= b /\ c <= x /\ x <= d
    <3>1. a <= b /\ b <= b /\ c <= b /\ b <= d
      BY <2>2
    <3> QED
      BY <3>1
  <2>3. ASSUME a <= d /\ a >= c
        PROVE  \E x \in Nat : a <= x /\ x <= b /\ c <= x /\ x <= d
    <3>1. a <= a /\ a <= b /\ c <= a /\ a <= d
      BY <2>3
    <3> QED
      BY <3>1
  <2>4. ASSUME a <= c /\ b >= d
        PROVE  \E x \in Nat : a <= x /\ x <= b /\ c <= x /\ x <= d
    <3>1. a <= c /\ c <= b /\ c <= c /\ c <= d
      BY <2>4
    <3> QED
      BY <3>1
  <2> QED
    BY <2>1, <2>2, <2>3, <2>4
<1>8. \A k \in 1 .. Len(q), j \in 1 .. Len(r) :
        (\/ q[k].upper <= r[j].upper /\ q[k].upper >= r[j].lower
         \/ q[k].lower <= r[j].upper /\ q[k].lower >= r[j].lower
         \/ q[k].lower <= r[j].lower /\ q[k].upper >= r[j].upper)
          <=> \E x \in Nat : /\ q[k].lower <= x /\ x <= q[k].upper
                             /\ r[j].lower <= x /\ x <= r[j].upper
  <2> TAKE k \in 1 .. Len(q), j \in 1 .. Len(r)
  <2> DEFINE a == q[k].lower
             b == q[k].upper
             c == r[j].lower
             d == r[j].upper
  <2>1. a \in Nat /\ b \in Nat /\ c \in Nat /\ d \in Nat /\ a <= b /\ c <= d
    BY <1>3, <1>4
  <2> HIDE DEF a, b, c, d
  <2>2. (\/ b <= d /\ b >= c
         \/ a <= d /\ a >= c
         \/ a <= c /\ b >= d) <=> \E x \in Nat : a <= x /\ x <= b /\ c <= x /\ x <= d
    BY <1>7, <2>1
  <2> QED
    BY <2>2 DEF a, b, c, d
<1>9. ipsets_clash(s, t) <=> \E x \in Nat : x \in Elements(r) /\ x \in Elements(q)
  <2> DEFINE Meets(k, j) == \/ q[k].upper <= r[j].upper /\ q[k].upper >= r[j].lower
                            \/ q[k].lower <= r[j].upper /\ q[k].lower >= r[j].lower
                            \/ q[k].lower <= r[j].lower /\ q[k].upper >= r[j].upper
             InQ(x, k) == q[k].lower <= x /\ x <= q[k].upper
             InR(x, j) == r[j].lower <= x /\ x <= r[j].upper
  <2>1. ipsets_clash(s, t) <=> \E k \in 1 .. Len(q) : \E j \in 1 .. Len(r) : Meets(k, j)
    BY <1>2, <1>3, <1>4
  <2>2. \A k \in 1 .. Len(q), j \in 1 .. Len(r) : Meets(k, j) <=> \E x \in Nat : InQ(x, k) /\ InR(x, j)
    BY <1>8
  <2>3. \A x : x \in Elements(r) <=> x \in Nat /\ \E k \in 1 .. Len(r) : InR(x, k)
    BY <1>5
  <2>4. \A x : x \in Elements(q) <=> x \in Nat /\ \E k \in 1 .. Len(q) : InQ(x, k)
    BY <1>6
  <2> HIDE DEF Meets, InQ, InR
  <2> QED
    BY <2>1, <2>2, <2>3, <2>4
<1> QED
  BY <1>5, <1>9 DEF r, q

LEMMA EnclosesIs ==
  ASSUME NEW s \in IpRecords, NEW t \in IpRecords
  PROVE  ipset_encloses(s, t) <=> Elements(t.ranges) \subseteq Elements(s.ranges)
<1> DEFINE r == s.ranges
           q == t.ranges
           First(k) == Least({z \in DOMAIN r : ip_in_range(r[z], q[k].lower)} \cup {Len(r) + 1})
           In(x, c) == c.lower <= x /\ x <= c.upper
<1>1. Max32 \in Nat /\ r \in Arrays(Max32) /\ q \in Arrays(Max32)
  BY AddrsAre DEF IpRecords, IpArrays
<1>2. ipset_encloses(s, t) <=>
        \A k \in DOMAIN q : First(k) <= Len(r) /\ ip_in_range(r[First(k)], q[k].upper)
  BY DEF ipset_encloses
<1> HIDE DEF r, q
<1>3. /\ DOMAIN r = 1 .. Len(r) /\ r \in Seq(RangesTo(Max32)) /\ Len(r) \in Nat
      /\ \A k \in 1 .. Len(r) : r[k].lower \in Nat /\ r[k].upper \in Nat /\ r[k].lower <= r[k].upper
  BY <1>1, ArrayIs
<1>4. /\ DOMAIN q = 1 .. Len(q) /\ q \in Seq(RangesTo(Max32))
      /\ \A k \in 1 .. Len(q) : /\ q[k] \in RangesTo(Max32) /\ q[k].lower \in Nat /\ q[k].upper \in Nat
                                /\ q[k].lower <= q[k].upper
  BY <1>1, ArrayIs
<1>5. \A x : x \in Elements(r) <=> x \in Nat /\ \E k \in 1 .. Len(r) : r[k].lower <= x /\ x <= r[k].upper
  BY <1>1, <1>3, ElementsAre
<1>6. \A x : x \in Elements(q) <=> x \in Nat /\ \E k \in 1 .. Len(q) : q[k].lower <= x /\ x <= q[k].upper
  BY <1>1, <1>4, ElementsAre
<1>7. ASSUME NEW k \in 1 .. Len(q)
      PROVE  /\ First(k) \in 1 .. Len(r) + 1
             /\ First(k) <= Len(r) =>
                  /\ First(k) \in 1 .. Len(r)
                  /\ r[First(k)].lower <= q[k].lower /\ q[k].lower <= r[First(k)].upper
             /\ q[k].lower \in Elements(r) => First(k) <= Len(r)
  <2> DEFINE found == {z \in DOMAIN r : ip_in_range(r[z], q[k].lower)} \cup {Len(r) + 1}
             f == Least(found)
  <2>1. f \in found /\ \A y \in found : f <= y
    <3>1. found \in SUBSET Nat /\ found # {}
      BY <1>3
    <3> HIDE DEF found
    <3> QED
      BY <3>1, LeastIs
  <2>2. f \in 1 .. Len(r) + 1
    BY <1>3, <2>1
  <2>3. f <= Len(r) => /\ f \in 1 .. Len(r)
                       /\ r[f].lower <= q[k].lower /\ q[k].lower <= r[f].upper
    <3> HAVE f <= Len(r)
    <3>1. f \in 1 .. Len(r) /\ f # Len(r) + 1
      BY <1>3, <2>2
    <3>2. ip_in_range(r[f], q[k].lower)
      BY <2>1, <3>1
    <3>3. r[f].lower \in Nat /\ q[k].lower \in Nat
      BY <1>3, <1>4, <3>1
    <3> HIDE DEF f
    <3>4. q[k].lower >= r[f].lower /\ q[k].lower <= r[f].upper
      BY <3>2 DEF ip_in_range
    <3> QED
      BY <3>1, <3>3, <3>4
  <2>4. ASSUME q[k].lower \in Elements(r)
        PROVE  f <= Len(r)
    <3>1. PICK z \in 1 .. Len(r) : r[z].lower <= q[k].lower /\ q[k].lower <= r[z].upper
      BY <1>5, <2>4
    <3>2. q[k].lower >= r[z].lower
      BY <1>3, <1>4, <3>1
    <3>3. ip_in_range(r[z], q[k].lower)
      BY <3>1, <3>2 DEF ip_in_range
    <3>4. z \in found
      BY <1>3, <3>3
    <3>5. f <= z /\ f \in Nat /\ z \in Nat /\ z <= Len(r)
      BY <1>3, <2>1, <2>2, <3>4
    <3> HIDE DEF f
    <3> QED
      BY <1>3, <3>5
  <2> QED
    BY <2>2, <2>3, <2>4
<1> HIDE DEF First
<1>8. ASSUME ipset_encloses(s, t), NEW x \in Elements(q)
      PROVE  x \in Elements(r)
  <2>1. PICK k \in 1 .. Len(q) : x \in Nat /\ q[k].lower <= x /\ x <= q[k].upper
    BY <1>6
  <2> DEFINE f == First(k)
  <2>2. f <= Len(r) /\ ip_in_range(r[f], q[k].upper)
    BY <1>2, <1>4, <1>8
  <2>3. f \in 1 .. Len(r) /\ r[f].lower <= q[k].lower /\ q[k].upper <= r[f].upper
    BY <1>7, <2>2 DEF ip_in_range
  <2>4. /\ r[f].lower \in Nat /\ r[f].upper \in Nat /\ q[k].lower \in Nat /\ q[k].upper \in Nat
    BY <1>3, <1>4, <2>3
  <2>5. r[f].lower <= x /\ x <= r[f].upper
    <3> HIDE DEF f
    <3> QED
      BY <2>1, <2>3, <2>4
  <2> QED
    BY <1>5, <2>1, <2>3, <2>5
<1>9. ASSUME Elements(q) \subseteq Elements(r), NEW k \in 1 .. Len(q)
      PROVE  First(k) <= Len(r) /\ ip_in_range(r[First(k)], q[k].upper)
  <2> DEFINE f == First(k)
  <2>1. q[k].lower \in Elements(r)
    BY <1>4, <1>6, <1>9
  <2>2. f \in 1 .. Len(r) /\ f <= Len(r) /\ r[f].lower <= q[k].lower /\ q[k].lower <= r[f].upper
    BY <1>7, <2>1
  <2>3. Span(q[k]) \subseteq Elements(r)
    <3>1. Span(q[k]) \subseteq Elements(q)
      BY <1>4 DEF Elements
    <3> QED
      BY <1>9, <3>1
  <2>4. q[k].upper <= r[f].upper
    <3> HIDE DEF f
    <3> QED
      BY <1>1, <1>4, <2>2, <2>3, UpperMeets
  <2>5. q[k].upper >= r[f].lower
    <3>1. r[f].lower \in Nat /\ q[k].lower \in Nat /\ q[k].upper \in Nat /\ q[k].lower <= q[k].upper
      BY <1>3, <1>4, <2>2
    <3> HIDE DEF f
    <3> QED
      BY <2>2, <3>1
  <2> QED
    BY <2>2, <2>4, <2>5 DEF ip_in_range
<1> QED
  BY <1>2, <1>4, <1>8, <1>9 DEF r, q

-------------------------------------------------------------------------------
(* Texts. *)

LEMMA Scaled ==
  ASSUME NEW p \in Nat \ {0}, NEW q \in Nat, NEW r \in Nat, q < r
  PROVE  q * p + p <= r * p /\ q * p \in Nat /\ r * p \in Nat
<1>1. PICK d \in Nat : r = q + d + 1
  <2>1. r - q - 1 \in Nat /\ r = q + (r - q - 1) + 1
    OBVIOUS
  <2> QED
    BY <2>1
<1>2. (q + d + 1) * p = q * p + d * p + p
  OBVIOUS
<1>3. d * p \in Nat /\ q * p \in Nat /\ r * p \in Nat
  OBVIOUS
<1> QED
  BY <1>1, <1>2, <1>3

LEMMA Divided ==
  ASSUME NEW p \in Nat \ {0}, NEW i \in Nat
  PROVE  i \div p \in Nat /\ i % p \in 0 .. p - 1 /\ i = (i \div p) * p + (i % p)
  OBVIOUS

\* The digits of an address change places.
LEMMA NtohlIs ==
  ASSUME NEW x \in Addrs
  PROVE  ntohl(x) \in Addrs
<1> DEFINE d == x \div Half
           e == x % Half
<1>1. Max32 \in Nat /\ Max32 + 1 = Half * Half /\ Addrs = 0 .. Max32 /\ Half \in Nat \ {0}
  BY AddrsAre, IpAssumption
<1>2. x \in Nat /\ x < Half * Half
  BY <1>1
<1>3. d \in Nat /\ e \in 0 .. Half - 1 /\ x = d * Half + e
  BY <1>1, <1>2, Divided
<1> HIDE DEF d, e
<1>4. d < Half
  <2> SUFFICES ASSUME ~(d < Half)
               PROVE  FALSE
    OBVIOUS
  <2>1. Half = d \/ Half < d
    BY <1>1, <1>3
  <2>2. Half * Half <= d * Half
    <3>1. CASE Half = d
      BY <1>1, <3>1
    <3>2. CASE Half < d
      <4>1. Half * Half + Half <= d * Half /\ Half * Half \in Nat /\ d * Half \in Nat
        BY <1>1, <1>3, <3>2, Scaled
      <4> QED
        BY <1>1, <4>1
    <3> QED
      BY <2>1, <3>1, <3>2
  <2>3. Half * Half \in Nat /\ d * Half \in Nat
    BY <1>1, <1>3
  <2> QED
    BY <1>2, <1>3, <2>2, <2>3
<1>5. e * Half + Half <= Half * Half /\ e * Half \in Nat
  <2>1. e \in Nat /\ e < Half
    BY <1>1, <1>3
  <2> QED
    BY <1>1, <2>1, Scaled
<1>6. e * Half + d \in 0 .. Max32
  <2> DEFINE f == e * Half
             n == Half * Half
  <2>1. f \in Nat /\ f + Half <= n /\ n = Max32 + 1 /\ n \in Nat
    BY <1>1, <1>5
  <2> HIDE DEF f, n
  <2>2. f + d \in 0 .. Max32
    BY <1>1, <1>3, <1>4, <2>1
  <2> QED
    BY <2>2 DEF f
<1> QED
  BY <1>1, <1>6 DEF ntohl, d, e

LEMMA RouteIs ==
  ASSUME NEW dst \in Addrs, NEW bits \in 0 .. Bits
  PROVE  iprange_from_route(dst, bits) \in IpRanges
<1> DEFINE p == 2 ^ (Bits - bits)
           n == Half * Half
           d == dst \div p
           e == dst % p
           c == n \div p
<1>1. /\ Max32 \in Nat /\ Max32 + 1 = n /\ Addrs = 0 .. Max32 /\ n \in Nat /\ Bits \in Nat
      /\ dst \in Nat /\ dst < n
  <2>1. Max32 \in Nat /\ Max32 + 1 = n /\ Addrs = 0 .. Max32 /\ Bits \in Nat
    BY AddrsAre, IpAssumption
  <2> HIDE DEF n
  <2> QED
    BY <2>1
<1>2. p \in Nat \ {0} /\ n % p = 0
  <2>1. Bits - bits \in 0 .. Bits
    BY <1>1
  <2> QED
    BY <2>1, IpAssumption
<1> HIDE DEF p, n
<1>3. d \in Nat /\ e \in 0 .. p - 1 /\ dst = d * p + e /\ d * p \in Nat
  <2>1. d \in Nat /\ e \in 0 .. p - 1 /\ dst = d * p + e
    BY <1>1, <1>2, Divided
  <2> HIDE DEF d
  <2> QED
    BY <1>2, <2>1
<1>4. c \in Nat /\ n = c * p
  <2>1. c \in Nat /\ n = c * p + (n % p)
    BY <1>1, <1>2, Divided
  <2> HIDE DEF c
  <2>2. c * p \in Nat
    BY <1>2, <2>1
  <2> QED
    BY <1>2, <2>1, <2>2
<1> HIDE DEF d, e, c
<1>5. d < c
  <2> SUFFICES ASSUME ~(d < c)
               PROVE  FALSE
    OBVIOUS
  <2>1. c = d \/ c < d
    BY <1>3, <1>4
  <2>2. n <= d * p
    <3>1. CASE c = d
      BY <1>1, <1>4, <3>1
    <3>2. CASE c < d
      <4>1. c * p + p <= d * p /\ c * p \in Nat /\ d * p \in Nat
        BY <1>2, <1>3, <1>4, <3>2, Scaled
      <4> QED
        BY <1>2, <1>4, <4>1
    <3> QED
      BY <2>1, <3>1, <3>2
  <2> DEFINE f == d * p
  <2>3. f \in Nat /\ n <= f /\ dst = f + e /\ e \in Nat
    BY <1>2, <1>3, <2>2
  <2> HIDE DEF f
  <2> QED
    BY <1>1, <2>3
<1>6. d * p + p <= n
  BY <1>2, <1>3, <1>4, <1>5, Scaled
<1> DEFINE low == d * p
<1>7. low \in Nat /\ low + p <= n /\ dst - e = low
  <2>1. low \in Nat /\ low + p <= n /\ dst = low + e
    BY <1>3, <1>6
  <2> HIDE DEF low
  <2> QED
    BY <1>2, <1>3, <2>1
<1> HIDE DEF low
<1>8. low + p - 1 \in Nat /\ low <= low + p - 1 /\ low + p - 1 <= Max32
  BY <1>1, <1>2, <1>7
<1>9. iprange_from_route(dst, bits) = [lower |-> low, upper |-> low + p - 1]
  BY <1>7 DEF iprange_from_route, p, e
<1>10. [lower |-> low, upper |-> low + p - 1] \in RangesTo(Max32)
  BY <1>1, <1>7, <1>8, ARange
<1> QED
  BY <1>9, <1>10 DEF IpRanges

IpItems == [form : {"upto", "from", "block", "span", "one", "bad"}, a : Addrs, b : Addrs]

LEMMA ParsedIs ==
  ASSUME NEW item \in IpItems, item.form # "bad", item.form = "block" => item.b <= Bits
  PROVE  parse_ipv4range(item) \in IpRanges
<1>1. /\ Max32 \in Nat /\ Addrs = 0 .. Max32 /\ item.a \in 0 .. Max32 /\ item.b \in 0 .. Max32
      /\ item.form \in {"upto", "from", "block", "span", "one"}
  BY AddrsAre DEF IpItems
<1>2. CASE item.form = "upto"
  <2>1. ntohl(item.a) \in 0 .. Max32
    BY <1>1, NtohlIs
  <2>2. [lower |-> 0, upper |-> ntohl(item.a)] \in RangesTo(Max32)
    BY <1>1, <2>1, ARange
  <2> QED
    BY <1>2, <2>2 DEF parse_ipv4range, IpRanges
<1>3. CASE item.form = "from"
  <2>1. [lower |-> item.a, upper |-> Max32] \in RangesTo(Max32)
    BY <1>1, ARange
  <2> QED
    BY <1>3, <2>1 DEF parse_ipv4range, IpRanges
<1>4. CASE item.form = "block"
  <2>1. Bits \in Nat /\ item.b \in 0 .. Bits
    BY <1>1, <1>4, IpAssumption
  <2>2. iprange_from_route(item.a, item.b) \in IpRanges
    BY <1>1, <2>1, RouteIs
  <2> QED
    BY <1>4, <2>2 DEF parse_ipv4range
<1>5. CASE item.form = "span"
  <2>1. Ordered(item.a, item.b) \in RangesTo(Max32)
    BY <1>1, ARange DEF Ordered
  <2> QED
    BY <1>5, <2>1 DEF parse_ipv4range, IpRanges
<1>6. CASE item.form = "one"
  <2>1. [lower |-> item.a, upper |-> item.a] \in RangesTo(Max32)
    BY <1>1, ARange
  <2> QED
    BY <1>6, <2>1 DEF parse_ipv4range, IpRanges
<1> QED
  BY <1>1, <1>2, <1>3, <1>4, <1>5, <1>6

\* The addresses of a block are those that share its first bits.
LEMMA BlockSaid ==
  ASSUME NEW a \in Addrs, NEW bits \in 0 .. Bits
  PROVE  Span(iprange_from_route(a, bits))
           = {x \in Addrs : x \div 2 ^ (Bits - bits) = a \div 2 ^ (Bits - bits)}
<1> DEFINE p == 2 ^ (Bits - bits)
           d == a \div p
           e == a % p
           low == d * p
           r == iprange_from_route(a, bits)
<1>1. p \in Nat \ {0} /\ Addrs \subseteq Nat
  BY AddrsAre, IpAssumption
<1>2. r \in IpRanges /\ Span(r) \subseteq Addrs
  <2>1. r \in IpRanges
    BY RouteIs
  <2> HIDE DEF r
  <2> QED
    BY <2>1, AddrsAre, RangeIs DEF IpRanges, Span
<1>3. r = [lower |-> a - e, upper |-> a - e + p - 1]
  BY DEF iprange_from_route
<1> HIDE DEF p, r
<1>4. d \in Nat /\ e \in 0 .. p - 1 /\ a = d * p + e /\ d * p \in Nat
  <2>1. d \in Nat /\ e \in 0 .. p - 1 /\ a = d * p + e
    BY <1>1, Divided
  <2> HIDE DEF d
  <2> QED
    BY <1>1, <2>1
<1> HIDE DEF d, e, low
<1>5. low \in Nat /\ Span(r) = low .. low + p - 1
  <2>1. a = low + e /\ low \in Nat
    BY <1>4 DEF low
  <2>2. a - e = low
    BY <1>1, <1>4, <2>1
  <2> QED
    BY <1>3, <2>1, <2>2 DEF Span
<1>6. ASSUME NEW x \in Addrs
      PROVE  x \in Span(r) <=> x \div p = d
  <2> DEFINE q == x \div p
             y == x % p
             under == q * p
  <2>1. q \in Nat /\ y \in 0 .. p - 1 /\ x = q * p + y /\ x \in Nat
    BY <1>1, Divided
  <2> HIDE DEF q, y
  <2>2. under \in Nat
    BY <1>1, <2>1
  <2>3. q < d => under + p <= low
    BY <1>1, <1>4, <2>1, Scaled DEF low
  <2>4. d < q => low + p <= under
    BY <1>1, <1>4, <2>1, Scaled DEF low
  <2>5. q = d => under = low
    BY DEF low
  <2>6. x = under + y
    BY <2>1
  <2> HIDE DEF under
  <2>7. x \in Span(r) <=> q = d
    BY <1>1, <1>4, <1>5, <2>1, <2>2, <2>3, <2>4, <2>5, <2>6
  <2> QED
    BY <2>7 DEF q
<1> QED
  BY <1>2, <1>6 DEF p, r, d

\* The range an item is read as holds the addresses it says.
LEMMA SaidIs ==
  ASSUME NEW item \in IpItems, item.form # "bad", item.form = "block" => item.b <= Bits
  PROVE  Span(parse_ipv4range(item)) = Says(Taken(item))
<1>1. /\ Max32 \in Nat /\ Addrs = 0 .. Max32 /\ item.a \in Addrs /\ item.b \in Addrs
      /\ item.form \in {"upto", "from", "block", "span", "one"}
  BY AddrsAre DEF IpItems
<1>2. item.form # "upto" => Taken(item) = item
  BY DEF Taken
<1>3. CASE item.form = "upto"
  <2>1. Taken(item).form = "upto" /\ Taken(item).a = ntohl(item.a) /\ ntohl(item.a) \in Addrs
    BY <1>1, <1>3, NtohlIs DEF Taken, IpItems
  <2>2. Says(Taken(item)) = {x \in Addrs : x <= ntohl(item.a)}
    BY <2>1 DEF Says
  <2>3. Span(parse_ipv4range(item)) = 0 .. ntohl(item.a)
    BY <1>3 DEF parse_ipv4range, Span
  <2> QED
    BY <1>1, <2>1, <2>2, <2>3
<1>4. CASE item.form = "from"
  <2>1. Says(item) = {x \in Addrs : x >= item.a}
    BY <1>4 DEF Says
  <2>2. Span(parse_ipv4range(item)) = item.a .. Max32
    BY <1>4 DEF parse_ipv4range, Span
  <2>3. \A x : x \in Says(item) <=> x \in item.a .. Max32
    BY <1>1, <2>1
  <2> QED
    BY <1>2, <1>4, <2>2, <2>3
<1>5. CASE item.form = "block"
  <2>1. item.b \in 0 .. Bits
    BY <1>1, <1>5, IpAssumption
  <2>2. Says(item) = {x \in Addrs : x \div 2 ^ (Bits - item.b) = item.a \div 2 ^ (Bits - item.b)}
    BY <1>5 DEF Says
  <2>3. parse_ipv4range(item) = iprange_from_route(item.a, item.b)
    BY <1>5 DEF parse_ipv4range
  <2> QED
    BY <1>1, <1>2, <1>5, <2>1, <2>2, <2>3, BlockSaid
<1>6. CASE item.form = "span"
  <2>1. \A x : x \in Says(item) <=> x \in Addrs /\ (\/ item.a <= x /\ x <= item.b
                                                    \/ item.b <= x /\ x <= item.a)
    BY <1>6 DEF Says
  <2>2. parse_ipv4range(item) = Ordered(item.a, item.b)
    BY <1>6 DEF parse_ipv4range
  <2>3. Span(Ordered(item.a, item.b))
          = IF item.a > item.b THEN item.b .. item.a ELSE item.a .. item.b
    BY DEF Span, Ordered
  <2>4. \A x : x \in Says(item) <=> x \in Span(Ordered(item.a, item.b))
    BY <1>1, <2>1, <2>3
  <2> QED
    BY <1>2, <1>6, <2>2, <2>4
<1>7. CASE item.form = "one"
  <2>1. Says(item) = {item.a}
    BY <1>7 DEF Says
  <2>2. Span(parse_ipv4range(item)) = item.a .. item.a
    BY <1>7 DEF parse_ipv4range, Span
  <2> QED
    BY <1>1, <1>2, <1>7, <2>1, <2>2
<1> QED
  BY <1>1, <1>3, <1>4, <1>5, <1>6, <1>7

IpText == [invert : BOOLEAN, bracket : BOOLEAN, closed : BOOLEAN, any : BOOLEAN, items : Seq(IpItems)]

\* A text whose blocks have no more bits than an address.
Readable(t) == /\ t \in IpText
               /\ \A k \in DOMAIN t.items : t.items[k].form = "block" => t.items[k].b <= Bits

IpListed(t) == [k \in DOMAIN WellFormed(t) |-> parse_ipv4range(WellFormed(t)[k])]

LEMMA WellFormedIs ==
  ASSUME NEW t, Readable(t)
  PROVE  /\ WellFormed(t) \in Seq(IpItems) /\ IpListed(t) \in Seq(IpRanges)
         /\ DOMAIN IpListed(t) = 1 .. Len(WellFormed(t)) /\ DOMAIN WellFormed(t) = 1 .. Len(WellFormed(t))
         /\ ~Malformed(t) => WellFormed(t) = t.items
         /\ \A k \in DOMAIN WellFormed(t) :
              Span(parse_ipv4range(WellFormed(t)[k])) = Says(Taken(WellFormed(t)[k]))
<1> DEFINE q == t.items
           bad == {k \in DOMAIN q : q[k].form = "bad"} \cup {Len(q) + 1}
           z == Least(bad)
           w == SubSeq(q, 1, z - 1)
<1>1. /\ q \in Seq(IpItems) /\ Len(q) \in Nat /\ DOMAIN q = 1 .. Len(q)
      /\ \A k \in 1 .. Len(q) : q[k] \in IpItems /\ (q[k].form = "block" => q[k].b <= Bits)
  BY DEF Readable, IpText
<1>2. WellFormed(t) = w /\ (Malformed(t) <=> \E k \in DOMAIN q : q[k].form = "bad")
  BY DEF WellFormed, Malformed
<1> HIDE DEF q
<1>3. z \in bad /\ \A k \in bad : z <= k
  <2>1. bad \in SUBSET Nat /\ bad # {}
    BY <1>1
  <2> HIDE DEF bad
  <2> QED
    BY <2>1, LeastIs
<1>4. z \in 1 .. Len(q) + 1 /\ z - 1 \in Nat
  BY <1>1, <1>3
<1>5. \A k \in 1 .. z - 1 : k \in 1 .. Len(q) /\ q[k].form # "bad"
  <2> TAKE k \in 1 .. z - 1
  <2>1. k \in 1 .. Len(q) /\ ~(z <= k)
    BY <1>1, <1>4
  <2>2. k \notin bad
    <3> HIDE DEF bad, z
    <3> QED
      BY <1>3, <2>1
  <2> QED
    BY <1>1, <2>1, <2>2
<1> HIDE DEF z
<1>6. w \in Seq(IpItems) /\ Len(w) = z - 1 /\ \A k \in 1 .. z - 1 : w[k] = q[k]
  <2>1. \A k \in 1 .. z - 1 : q[k] \in IpItems
    BY <1>1, <1>5
  <2>2. /\ w \in Seq(IpItems) /\ Len(w) = IF 1 <= z - 1 THEN z - 1 - 1 + 1 ELSE 0
        /\ \A k \in 1 .. z - 1 - 1 + 1 : w[k] = q[1 + k - 1]
    BY <1>4, <2>1, SubSeqProperties
  <2> QED
    BY <1>4, <2>2
<1> HIDE DEF w
<1>7. DOMAIN w = 1 .. Len(w) /\ Len(w) \in Nat
  BY <1>6
<1>8. IpListed(t) \in Seq(IpRanges) /\ DOMAIN IpListed(t) = 1 .. Len(w)
  <2>1. \A k \in 1 .. Len(w) : parse_ipv4range(w[k]) \in IpRanges
    BY <1>1, <1>5, <1>6, ParsedIs
  <2>2. IpListed(t) = [k \in 1 .. Len(w) |-> parse_ipv4range(w[k])]
    BY <1>2, <1>7 DEF IpListed
  <2> QED
    BY <1>7, <2>1, <2>2, IsASeq
<1>9. ASSUME ~Malformed(t)
      PROVE  w = q
  <2>1. z = Len(q) + 1
    BY <1>1, <1>2, <1>3, <1>9
  <2> QED
    BY <1>1, <1>6, <2>1, SeqEqual
<1>10. \A k \in DOMAIN w : Span(parse_ipv4range(w[k])) = Says(Taken(w[k]))
  BY <1>1, <1>5, <1>6, <1>7, SaidIs
<1> QED
  BY <1>2, <1>6, <1>7, <1>8, <1>9, <1>10 DEF q

LEMMA NoIpsIs ==
  NoIps \in IpRecords /\ Elements(NoIps.ranges) = {} /\ IPRANGE_ALL \in IpRanges /\ Span(IPRANGE_ALL) = Addrs
<1>1. Max32 \in Nat /\ Addrs = 0 .. Max32
  BY AddrsAre
<1>2. <<>> \in Arrays(Max32) /\ Elements(<<>>) = {}
  BY <1>1, EmptyArray
<1>3. NoIps \in IpRecords /\ NoIps.ranges = <<>>
  BY <1>2 DEF NoIps, IpRecords, IpArrays
<1>4. IPRANGE_ALL \in IpRanges
  BY <1>1, ARange DEF IPRANGE_ALL, IpRanges
<1>5. Span(IPRANGE_ALL) = Addrs
  BY <1>1 DEF Span, IPRANGE_ALL
<1> QED
  BY <1>2, <1>3, <1>4, <1>5

LEMMA CloneIs ==
  ASSUME NEW s \in IpRecords
  PROVE  clone_ipset(s) \in IpRecords /\ clone_ipset(s).ranges = s.ranges
BY NoIpsIs DEF clone_ipset, NoIps

LEMMA RecordIs ==
  ASSUME NEW s \in IpRecords
  PROVE  s.ranges \in Seq(IpRanges) /\ s.ranges \in Arrays(Max32) /\ Max32 \in Nat
         /\ Elements(s.ranges) \in SUBSET Addrs
<1>1. Max32 \in Nat /\ Addrs = 0 .. Max32 /\ s.ranges \in Arrays(Max32)
  BY AddrsAre DEF IpRecords, IpArrays
<1>2. s.ranges \in Seq(RangesTo(Max32))
  BY <1>1, ArrayIs
<1>3. Elements(s.ranges) \in SUBSET (0 .. Max32)
  BY <1>1, <1>2, ElementsAre
<1> QED
  BY <1>1, <1>2, <1>3 DEF IpRanges

LEMMA MergeIs ==
  ASSUME NEW s \in IpRecords, NEW t \in IpRecords
  PROVE  /\ merge_ipsets(s, t) \in IpRecords
         /\ Elements(merge_ipsets(s, t).ranges) = Elements(s.ranges) \cup Elements(t.ranges)
BY CloneIs, RecordIs, AddAllIs DEF merge_ipsets

LEMMA PurgeIs ==
  ASSUME NEW s \in IpRecords, NEW t \in IpRecords
  PROVE  /\ purge_ipsets(s, t) \in IpRecords
         /\ Elements(purge_ipsets(s, t).ranges) = Elements(s.ranges) \ Elements(t.ranges)
BY CloneIs, RecordIs, DelAllIs DEF purge_ipsets

Plain(t) == IF t.any THEN Addrs
            ELSE UNION {Says(Taken(item)) : item \in ToSet(WellFormed(t))}

LEMMA ListedAre ==
  ASSUME NEW t, Readable(t)
  PROVE  Elements(IpListed(t)) = UNION {Says(Taken(item)) : item \in ToSet(WellFormed(t))}
<1> DEFINE w == WellFormed(t)
<1>1. DOMAIN IpListed(t) = DOMAIN w
  BY WellFormedIs
<1>2. \A k \in DOMAIN w : IpListed(t)[k] = parse_ipv4range(w[k])
  BY DEF IpListed
<1>3. ToSet(w) = {w[k] : k \in DOMAIN w}
  BY DEF ToSet
<1>4. \A k \in DOMAIN w : Span(parse_ipv4range(w[k])) = Says(Taken(w[k]))
  BY WellFormedIs
<1> HIDE DEF w
<1>5. \A x : x \in Elements(IpListed(t)) <=> \E k \in DOMAIN w : x \in Span(parse_ipv4range(w[k]))
  BY <1>1, <1>2 DEF Elements
<1>6. \A x : x \in UNION {Says(Taken(item)) : item \in ToSet(w)}
               <=> \E k \in DOMAIN w : x \in Says(Taken(w[k]))
  BY <1>3
<1> QED
  BY <1>4, <1>5, <1>6 DEF w

LEMMA ReadIs ==
  ASSUME NEW s \in IpRecords, NEW t, Readable(t), t.any => t.items = <<>>
  PROVE  LET p == parse_initialized_ipset(s, t)
         IN /\ p.set \in IpRecords
            /\ \/ p.set = NoIps
               \/ Elements(p.set.ranges) = Denotes(t)
<1> DEFINE start == [s EXCEPT !.ranges = <<>>]
           read == IF t.any THEN add_iprange(start, IPRANGE_ALL) ELSE parse_ipranges(start, t)
           all == add_iprange(NoIps, IPRANGE_ALL)
           last == postparse_ipset(read, t.invert)
<1>1. start \in IpRecords /\ Elements(start.ranges) = {}
  <2>1. <<>> \in IpArrays /\ Elements(<<>>) = {}
    BY AddrsAre, EmptyArray DEF IpArrays
  <2> QED
    BY <2>1 DEF IpRecords
<1> HIDE DEF start
<1>2. read \in IpRecords /\ Elements(read.ranges) = Plain(t)
  <2>1. CASE t.any
    <3>1. /\ add_iprange(start, IPRANGE_ALL) \in IpRecords
          /\ Elements(add_iprange(start, IPRANGE_ALL).ranges) = {} \cup Addrs
      BY <1>1, NoIpsIs, AddIs
    <3> QED
      BY <2>1, <3>1 DEF Plain
  <2>2. CASE ~t.any
    <3>1. parse_ipranges(start, t) = add_ipranges(start, IpListed(t))
      BY DEF parse_ipranges, IpListed
    <3>2. IpListed(t) \in Seq(IpRanges)
      BY WellFormedIs
    <3>3. /\ add_ipranges(start, IpListed(t)) \in IpRecords
          /\ Elements(add_ipranges(start, IpListed(t)).ranges) = {} \cup Elements(IpListed(t))
      BY <1>1, <3>2, AddAllIs
    <3> QED
      BY <2>2, <3>1, <3>3, ListedAre DEF Plain
  <2> QED
    BY <2>1, <2>2
<1> HIDE DEF read
<1>3. all \in IpRecords /\ Elements(all.ranges) = Addrs
  <2>1. all \in IpRecords /\ Elements(all.ranges) = {} \cup Addrs
    BY NoIpsIs, AddIs
  <2> QED
    BY <2>1
<1>4. last \in IpRecords /\ Elements(last.ranges) = IF t.invert THEN Addrs \ Plain(t) ELSE Plain(t)
  <2>1. purge_ipsets(all, read) \in IpRecords /\ Elements(purge_ipsets(all, read).ranges) = Addrs \ Plain(t)
    BY <1>2, <1>3, PurgeIs
  <2> HIDE DEF all
  <2>2. last = IF t.invert THEN purge_ipsets(all, read) ELSE read
    BY DEF postparse_ipset, all
  <2> QED
    BY <1>2, <2>1, <2>2
<1>5. Denotes(t) = IF t.invert /\ ~Malformed(t) THEN Addrs \ Plain(t) ELSE Plain(t)
  BY DEF Denotes, Plain
<1>6. t.any => ~Malformed(t)
  BY DEF Malformed
<1>7. parse_initialized_ipset(s, t) =
        IF ~t.any /\ Malformed(t) THEN [set |-> read, ok |-> FALSE]
        ELSE IF t.bracket /\ ~t.closed THEN [set |-> NoIps, ok |-> FALSE]
        ELSE [set |-> last, ok |-> last.ranges # <<>>]
  BY DEF parse_initialized_ipset, start, read
<1> HIDE DEF last
<1>8. CASE ~t.any /\ Malformed(t)
  <2>1. parse_initialized_ipset(s, t).set = read
    BY <1>7, <1>8
  <2> QED
    BY <1>2, <1>5, <1>8, <2>1
<1>9. CASE ~(~t.any /\ Malformed(t)) /\ t.bracket /\ ~t.closed
  <2>1. parse_initialized_ipset(s, t).set = NoIps
    BY <1>7, <1>9
  <2> QED
    BY <2>1, NoIpsIs
<1>10. CASE ~(~t.any /\ Malformed(t)) /\ ~(t.bracket /\ ~t.closed)
  <2>1. parse_initialized_ipset(s, t).set = last
    BY <1>7, <1>10
  <2> QED
    BY <1>4, <1>5, <1>6, <1>10, <2>1
<1> QED
  BY <1>8, <1>9, <1>10

\* A set is read back from the text it is written as.
LEMMA ReadBackIs ==
  ASSUME NEW s \in IpRecords
  PROVE  LET back == parse_initialized_ipset(NoIps, stringize_ipset(s))
         IN IF Elements(s.ranges) = {} THEN ~back.ok ELSE back.ok /\ back.set.ranges = s.ranges
<1> DEFINE r == s.ranges
           t == stringize_ipset(s)
<1>1. Max32 \in Nat /\ Addrs = 0 .. Max32 /\ r \in Arrays(Max32) /\ r \in Seq(IpRanges)
  BY AddrsAre, RecordIs
<1>2. /\ t.invert = FALSE /\ t.bracket = TRUE /\ t.closed = TRUE /\ t.any = FALSE
      /\ t.items = [k \in DOMAIN r |-> stringize_iprange(r[k])]
  BY DEF stringize_ipset
<1>3. /\ Len(r) \in Nat /\ DOMAIN r = 1 .. Len(r)
      /\ \A k \in 1 .. Len(r) : /\ r[k] \in RangesTo(Max32)
                                /\ r[k].lower \in Nat /\ r[k].upper \in Nat
                                /\ r[k].lower <= r[k].upper /\ r[k].upper <= Max32
  BY <1>1, ArrayIs
<1> HIDE DEF r
<1>4. ASSUME NEW k \in 1 .. Len(r)
      PROVE  /\ stringize_iprange(r[k]) \in IpItems
             /\ stringize_iprange(r[k]).form \in {"one", "span"}
             /\ parse_ipv4range(stringize_iprange(r[k])) = r[k]
  <2> DEFINE i == stringize_iprange(r[k])
             v == r[k]
  <2>1. /\ v.lower \in Nat /\ v.upper \in Nat /\ v.lower <= v.upper /\ v.upper <= Max32
        /\ v = [lower |-> v.lower, upper |-> v.upper]
    BY <1>1, <1>3, RangeIs
  <2>2. i = [form |-> IF v.lower = v.upper THEN "one" ELSE "span", a |-> v.lower, b |-> v.upper]
    BY DEF stringize_iprange
  <2> HIDE DEF v, i
  <2>3. v.lower \in Addrs /\ v.upper \in Addrs
    BY <1>1, <2>1
  <2>4. i \in IpItems /\ i.form \in {"one", "span"} /\ i.a = v.lower /\ i.b = v.upper
    BY <2>2, <2>3 DEF IpItems
  <2>5. CASE v.lower = v.upper
    <3>1. i.form = "one"
      BY <2>2, <2>5
    <3>2. parse_ipv4range(i) = [lower |-> i.a, upper |-> i.a]
      BY <3>1 DEF parse_ipv4range
    <3> QED
      BY <2>1, <2>4, <2>5, <3>2 DEF v, i
  <2>6. CASE v.lower # v.upper
    <3>1. i.form = "span"
      BY <2>2, <2>6
    <3>2. parse_ipv4range(i) = Ordered(i.a, i.b)
      BY <3>1 DEF parse_ipv4range
    <3>3. ~(v.lower > v.upper)
      BY <2>1
    <3>4. Ordered(v.lower, v.upper) = v
      BY <2>1, <3>3 DEF Ordered
    <3> QED
      BY <2>4, <3>2, <3>4 DEF v, i
  <2> QED
    BY <2>5, <2>6
<1>5. t.items \in Seq(IpItems) /\ DOMAIN t.items = 1 .. Len(r)
      /\ \A k \in 1 .. Len(r) : t.items[k] = stringize_iprange(r[k])
  <2>1. t.items = [k \in 1 .. Len(r) |-> stringize_iprange(r[k])]
    BY <1>2, <1>3
  <2> HIDE DEF t
  <2>2. t.items \in [1 .. Len(r) -> IpItems]
    BY <1>4, <2>1
  <2> QED
    BY <1>3, <2>1, <2>2, IsASeq
<1>6. t \in IpText
  <2> DEFINE i == t.items
  <2>1. t = [invert |-> FALSE, bracket |-> TRUE, closed |-> TRUE, any |-> FALSE, items |-> i]
    BY DEF stringize_ipset
  <2>2. i \in Seq(IpItems)
    BY <1>5
  <2> HIDE DEF t, i
  <2> QED
    BY <2>1, <2>2 DEF IpText
<1> HIDE DEF t
<1>7. \A k \in DOMAIN t.items : t.items[k].form # "bad" /\ t.items[k].form # "block"
  BY <1>4, <1>5
<1>8. Readable(t) /\ ~Malformed(t)
  BY <1>6, <1>7 DEF Readable, Malformed
<1>9. WellFormed(t) = t.items
  BY <1>8, WellFormedIs
<1>10. IpListed(t) = r
  <2>1. IpListed(t) = [k \in 1 .. Len(r) |-> parse_ipv4range(t.items[k])]
    BY <1>5, <1>9 DEF IpListed
  <2>2. \A k \in 1 .. Len(r) : parse_ipv4range(t.items[k]) = r[k]
    BY <1>4, <1>5
  <2>3. r = [k \in 1 .. Len(r) |-> r[k]]
    BY <1>1, <1>3
  <2> QED
    BY <2>1, <2>2, <2>3
<1>11. [NoIps EXCEPT !.ranges = <<>>] = NoIps
  BY DEF NoIps
<1> DEFINE last == add_ipranges(NoIps, r)
<1>12. last \in IpRecords /\ Elements(last.ranges) = Elements(r)
  <2>1. last \in IpRecords /\ Elements(last.ranges) = {} \cup Elements(r)
    BY <1>1, NoIpsIs, AddAllIs
  <2> QED
    BY <2>1
<1>13. last.ranges = r
  <2>1. last.ranges \in Arrays(Max32)
    BY <1>12, RecordIs
  <2> QED
    BY <1>1, <1>12, <2>1, SameArray
<1>14. parse_ipranges(NoIps, t) = last
  BY <1>10 DEF parse_ipranges, IpListed
<1> HIDE DEF last
<1>15. parse_initialized_ipset(NoIps, t) = [set |-> last, ok |-> last.ranges # <<>>]
  BY <1>2, <1>8, <1>11, <1>14 DEF parse_initialized_ipset, postparse_ipset
<1>16. r = <<>> <=> Elements(r) = {}
  <2>1. <<>> \in Arrays(Max32) /\ Elements(<<>>) = {}
    BY <1>1, EmptyArray
  <2> QED
    BY <1>1, <2>1, SameArray
<1> DEFINE back == parse_initialized_ipset(NoIps, t)
<1>17. back.ok = (r # <<>>) /\ back.set.ranges = r
  BY <1>13, <1>15
<1> HIDE DEF back
<1>18. IF Elements(r) = {} THEN ~back.ok ELSE back.ok /\ back.set.ranges = r
  BY <1>16, <1>17
<1> QED
  BY <1>18 DEF r, t, back

-------------------------------------------------------------------------------
(* The program. *)

\* What the sets of the program stay: arrays in order and apart, of addresses.
IpInv == ips \in [Ids -> IpRecords]

NumbersOf == [i \in Ids |-> Elements(ips[i].ranges)]

\* Every question is answered by the lemma about the walk that answers it.
LEMMA IpAnswers == IpInv => IpQueries
<1> SUFFICES ASSUME IpInv, NEW i \in Ids, NEW j \in Ids
             PROVE  LET s == ips[i]
                        t == ips[j]
                        S == Elements(s.ranges)
                        T == Elements(t.ranges)
                    IN /\ Canonical(s.ranges)
                       /\ \A a \in Addrs : Has(s.ranges, a) <=> a \in S
                       /\ ipsets_equal(s, t) <=> S = T
                       /\ Compare(s.ranges, t.ranges) = 0 <=> S = T
                       /\ ipsets_clash(s, t) <=> S \cap T # {}
                       /\ ipset_encloses(s, t) <=> T \subseteq S
                       /\ ipset_area(s) = Cardinality(S)
                       /\ ipset_is_singleton(s) <=> Cardinality(S) = 1
                       /\ LET back == parse_initialized_ipset(NoIps, stringize_ipset(s))
                          IN IF S = {} THEN ~back.ok ELSE back.ok /\ back.set.ranges = s.ranges
  BY DEF IpQueries
<1> DEFINE s == ips[i]
           t == ips[j]
<1>1. s \in IpRecords /\ t \in IpRecords
  BY DEF IpInv
<1>2. Max32 \in Nat /\ Addrs = 0 .. Max32 /\ s.ranges \in Arrays(Max32) /\ t.ranges \in Arrays(Max32)
  BY <1>1, AddrsAre, RecordIs
<1> HIDE DEF s, t
<1>3. Canonical(s.ranges)
  BY <1>2 DEF Arrays
<1>4. \A a \in Addrs : Has(s.ranges, a) <=> a \in Elements(s.ranges)
  <2>1. \A a \in Addrs : a \in Nat
    BY <1>2
  <2> QED
    BY <1>2, <2>1, HasIs
<1>5. s.ranges = t.ranges <=> Elements(s.ranges) = Elements(t.ranges)
  BY <1>2, SameArray
<1>6. ipsets_equal(s, t) <=> Elements(s.ranges) = Elements(t.ranges)
  BY <1>5 DEF ipsets_equal
<1>7. Compare(s.ranges, t.ranges) = 0 <=> Elements(s.ranges) = Elements(t.ranges)
  BY <1>2, <1>5, CompareIs
<1>8. ipsets_clash(s, t) <=> Elements(s.ranges) \cap Elements(t.ranges) # {}
  BY <1>1, ClashIs
<1>9. ipset_encloses(s, t) <=> Elements(t.ranges) \subseteq Elements(s.ranges)
  BY <1>1, EnclosesIs
<1>10. /\ ipset_area(s) = Cardinality(Elements(s.ranges))
       /\ ipset_is_singleton(s) <=> Cardinality(Elements(s.ranges)) = 1
  BY <1>1, AreaIs, SingletonIs
<1>11. LET back == parse_initialized_ipset(NoIps, stringize_ipset(s))
       IN IF Elements(s.ranges) = {} THEN ~back.ok ELSE back.ok /\ back.set.ranges = s.ranges
  BY <1>1, ReadBackIs
<1> QED
  BY <1>3, <1>4, <1>6, <1>7, <1>8, <1>9, <1>10, <1>11 DEF s, t

\* An object that is given a set holds the numbers of it.
LEMMA BecomesIs ==
  ASSUME IpInv, NEW i \in Ids, NEW s \in IpRecords, IpBecomes(i, s)
  PROVE  IpInv' /\ NumbersOf' = [NumbersOf EXCEPT ![i] = Elements(s.ranges)]
<1>1. ips \in [Ids -> IpRecords] /\ ips' = [ips EXCEPT ![i] = s]
  BY DEF IpInv, IpBecomes
<1>2. ips' \in [Ids -> IpRecords]
  BY <1>1
<1>3. ips'[i] = s /\ \A j \in Ids : j # i => ips'[j] = ips[j]
  BY <1>1
<1>4. NumbersOf' = [j \in Ids |-> Elements(ips'[j].ranges)]
  BY DEF NumbersOf
<1>5. [NumbersOf EXCEPT ![i] = Elements(s.ranges)]
        = [j \in Ids |-> IF j = i THEN Elements(s.ranges) ELSE Elements(ips[j].ranges)]
  BY DEF NumbersOf
<1>6. \A j \in Ids : Elements(ips'[j].ranges)
                       = IF j = i THEN Elements(s.ranges) ELSE Elements(ips[j].ranges)
  BY <1>3
<1> QED
  BY <1>2, <1>4, <1>5, <1>6 DEF IpInv

LEMMA NumbersOfIs ==
  ASSUME IpInv, NEW i \in Ids
  PROVE  NumbersOf[i] = Elements(ips[i].ranges) /\ ips[i] \in IpRecords
BY DEF IpInv, NumbersOf

\* Exchanging the arrays exchanges the numbers.
LEMMA SwapIs ==
  ASSUME IpInv, NEW i \in Ids, NEW j \in Ids, SwapIps(i, j)
  PROVE  IpInv' /\ NumbersOf' = [NumbersOf EXCEPT ![i] = NumbersOf[j], ![j] = NumbersOf[i]]
<1>1. ips \in [Ids -> IpRecords] /\ ips[i] \in IpRecords /\ ips[j] \in IpRecords
  BY DEF IpInv
<1> DEFINE with(k, r) == [ranges |-> r, maxranges |-> ips[k].maxranges]
<1>2. ips' = [k \in Ids |-> IF k = j THEN with(j, ips[i].ranges)
                            ELSE IF k = i THEN with(i, ips[j].ranges) ELSE ips[k]]
  <2> DEFINE a == ips[j].ranges
             b == ips[i].ranges
             first == [ips EXCEPT ![i].ranges = a]
  <2>1. ips' = [first EXCEPT ![j].ranges = b]
    BY DEF SwapIps
  <2>2. \A k \in Ids : \A r : [ips[k] EXCEPT !.ranges = r] = with(k, r)
    BY <1>1 DEF IpRecords
  <2> HIDE DEF a, b, with
  <2>3. first = [k \in Ids |-> IF k = i THEN [ips[i] EXCEPT !.ranges = a] ELSE ips[k]]
    BY <1>1
  <2>4. first = [k \in Ids |-> IF k = i THEN with(i, a) ELSE ips[k]]
    BY <2>2, <2>3
  <2> HIDE DEF first
  <2>5. ips' = [k \in Ids |-> IF k = j THEN [first[j] EXCEPT !.ranges = b] ELSE first[k]]
    BY <2>1, <2>4
  <2>6. [first[j] EXCEPT !.ranges = b] = with(j, b)
    <3>1. CASE j = i
      <4>1. first[j] = with(i, a)
        BY <2>4, <3>1
      <4>2. [with(i, a) EXCEPT !.ranges = b] = with(i, b)
        BY DEF with
      <4> QED
        BY <3>1, <4>1, <4>2
    <3>2. CASE j # i
      BY <2>2, <2>4, <3>2
    <3> QED
      BY <3>1, <3>2
  <2>7. \A k \in Ids : (IF k = j THEN [first[j] EXCEPT !.ranges = b] ELSE first[k])
                        = IF k = j THEN with(j, b) ELSE IF k = i THEN with(i, a) ELSE ips[k]
    BY <2>4, <2>6
  <2> QED
    BY <2>5, <2>7 DEF a, b
<1>3. with(j, ips[i].ranges) \in IpRecords /\ with(i, ips[j].ranges) \in IpRecords
  BY <1>1 DEF IpRecords
<1>4. ips' \in [Ids -> IpRecords]
  <2> HIDE DEF with
  <2> QED
    BY <1>1, <1>2, <1>3
<1>5. \A k \in Ids : ips'[k].ranges = IF k = j THEN ips[i].ranges
                                      ELSE IF k = i THEN ips[j].ranges ELSE ips[k].ranges
  BY <1>2
<1>6. NumbersOf' = [k \in Ids |-> Elements(ips'[k].ranges)]
  BY DEF NumbersOf
<1>7. [NumbersOf EXCEPT ![i] = NumbersOf[j], ![j] = NumbersOf[i]]
        = [k \in Ids |-> IF k = j THEN Elements(ips[i].ranges)
                         ELSE IF k = i THEN Elements(ips[j].ranges) ELSE Elements(ips[k].ranges)]
  BY DEF NumbersOf
<1>8. \A k \in Ids : Elements(ips'[k].ranges)
                       = IF k = j THEN Elements(ips[i].ranges)
                         ELSE IF k = i THEN Elements(ips[j].ranges) ELSE Elements(ips[k].ranges)
  BY <1>5
<1> QED
  BY <1>4, <1>6, <1>7, <1>8 DEF IpInv

\* Reading clears an object or gives it what the text denotes.
LEMMA ReadingStep ==
  ASSUME IpInv, NEW i \in Ids, NEW s \in IpRecords, NEW t \in IpTexts,
         IpBecomes(i, parse_initialized_ipset(s, t).set)
  PROVE  /\ IpInv'
         /\ \/ NumbersOf' = [NumbersOf EXCEPT ![i] = {}]
            \/ NumbersOf' = [NumbersOf EXCEPT ![i] = Denotes(t)]
<1> DEFINE p == parse_initialized_ipset(s, t).set
<1>1. Readable(t) /\ (t.any => t.items = <<>>)
  BY IpTextsAssumption DEF Readable, IpText, IpItems
<1>2. p \in IpRecords /\ (p = NoIps \/ Elements(p.ranges) = Denotes(t))
  BY <1>1, ReadIs
<1> HIDE DEF p
<1>3. Elements(p.ranges) = {} \/ Elements(p.ranges) = Denotes(t)
  BY <1>2, NoIpsIs
<1>4. IpBecomes(i, p)
  BY DEF p
<1>5. IpInv' /\ NumbersOf' = [NumbersOf EXCEPT ![i] = Elements(p.ranges)]
  BY <1>2, <1>4, BecomesIs
<1> QED
  BY <1>3, <1>5

\* Every call does to the numbers what it says.
LEMMA IpSteps ==
  ASSUME IpInv, IpNext
  PROVE  IpInv' /\ IpAbs!Next
<1> USE DEF IpAbs!Next, IpAbs!Become
<1>1. PICK i \in Ids, j \in Ids :
        \/ MergeIps(i, j) \/ PurgeIps(i, j) \/ SwapIps(i, j) \/ FreeIps(i)
        \/ ParseInitialized(i) \/ ParseIps(i)
  BY DEF IpNext
<1>2. /\ NumbersOf[i] = Elements(ips[i].ranges) /\ ips[i] \in IpRecords
      /\ NumbersOf[j] = Elements(ips[j].ranges) /\ ips[j] \in IpRecords
  BY NumbersOfIs
<1>3. NumbersOf = [k \in Ids |-> Elements(ips[k].ranges)] /\ NumbersOf' = [k \in Ids |-> Elements(ips'[k].ranges)]
  BY DEF NumbersOf
<1>4. CASE MergeIps(i, j)
  <2> DEFINE s == merge_ipsets(ips[i], ips[j])
  <2>1. s \in IpRecords /\ Elements(s.ranges) = NumbersOf[i] \cup NumbersOf[j]
    BY <1>2, MergeIs
  <2>2. IpBecomes(i, s)
    BY <1>4 DEF MergeIps
  <2> HIDE DEF s
  <2>3. IpInv' /\ NumbersOf' = [NumbersOf EXCEPT ![i] = NumbersOf[i] \cup NumbersOf[j]]
    BY <2>1, <2>2, BecomesIs
  <2>4. IpAbs!Unite(i, j)
    BY <1>3, <2>3 DEF IpAbs!Unite
  <2> QED
    BY <2>3, <2>4
<1>5. CASE PurgeIps(i, j)
  <2> DEFINE s == purge_ipsets(ips[i], ips[j])
  <2>1. s \in IpRecords /\ Elements(s.ranges) = NumbersOf[i] \ NumbersOf[j]
    BY <1>2, PurgeIs
  <2>2. IpBecomes(i, s)
    BY <1>5 DEF PurgeIps
  <2> HIDE DEF s
  <2>3. IpInv' /\ NumbersOf' = [NumbersOf EXCEPT ![i] = NumbersOf[i] \ NumbersOf[j]]
    BY <2>1, <2>2, BecomesIs
  <2>4. IpAbs!Subtract(i, j)
    BY <1>3, <2>3 DEF IpAbs!Subtract
  <2> QED
    BY <2>3, <2>4
<1>6. CASE SwapIps(i, j)
  <2>1. IpInv' /\ NumbersOf' = [NumbersOf EXCEPT ![i] = NumbersOf[j], ![j] = NumbersOf[i]]
    BY <1>6, SwapIs
  <2>2. IpAbs!Swap(i, j)
    BY <1>3, <2>1 DEF IpAbs!Swap
  <2> QED
    BY <2>1, <2>2
<1>7. CASE FreeIps(i)
  <2>1. IpInv' /\ NumbersOf' = [NumbersOf EXCEPT ![i] = {}]
    BY <1>7, NoIpsIs, BecomesIs DEF FreeIps
  <2>2. IpAbs!Clear(i)
    BY <1>3, <2>1 DEF IpAbs!Clear
  <2> QED
    BY <2>1, <2>2
<1>8. ASSUME NEW s \in IpRecords, NEW t \in IpTexts, IpBecomes(i, parse_initialized_ipset(s, t).set)
      PROVE  IpInv' /\ IpAbs!Next
  <2>1. IpInv' /\ (NumbersOf' = [NumbersOf EXCEPT ![i] = {}] \/ NumbersOf' = [NumbersOf EXCEPT ![i] = Denotes(t)])
    BY <1>8, ReadingStep
  <2>2. IpAbs!Clear(i) \/ IpAbs!Read(i)
    BY <1>3, <2>1 DEF IpAbs!Clear, IpAbs!Read
  <2> QED
    BY <2>1, <2>2
<1>9. CASE ParseInitialized(i)
  BY <1>2, <1>8, <1>9 DEF ParseInitialized
<1>10. CASE ParseIps(i)
  BY <1>8, <1>10, NoIpsIs DEF ParseIps
<1> QED
  BY <1>1, <1>4, <1>5, <1>6, <1>7, <1>9, <1>10

LEMMA IpStutters ==
  ASSUME IpInv, UNCHANGED ipvars
  PROVE  IpInv' /\ UNCHANGED NumbersOf
BY DEF IpInv, NumbersOf, ipvars

LEMMA IpStart == IpInit => IpInv /\ IpAbs!Init
<1> SUFFICES ASSUME IpInit
             PROVE  IpInv /\ IpAbs!Init
  OBVIOUS
<1>1. IpInv
  BY NoIpsIs DEF IpInv, IpInit
<1>2. \A i \in Ids : Elements(ips[i].ranges) = {}
  BY NoIpsIs DEF IpInit
<1>3. [i \in Ids |-> Elements(ips[i].ranges)] = [i \in Ids |-> {}]
  BY <1>2
<1> QED
  BY <1>1, <1>3 DEF IpAbs!Init

\* Address sets are sets of addresses: whatever is united, subtracted, exchanged,
\* read or freed, the numbers change as the call says, a text giving what its
\* items say but for the bound of "-a.b.c.d", which is read with its bytes turned
\* (ipset.c:83-90), and all that is asked of the arrays is answered as the
\* numbers would answer it, up to a call that writes behind its array (549, 576).
THEOREM IpsCorrect == IpSpec => IpsAreSets
<1>1. IpInit => IpInv /\ IpAbs!Init
  BY IpStart
<1>2. IpInv /\ [IpNext]_ipvars => IpInv' /\ [IpAbs!Next]_NumbersOf
  BY IpSteps, IpStutters
<1>3. IpInv /\ [IpNext]_ipvars => IpInv' /\ [IpAbs!Next]_[i \in Ids |-> Elements(ips[i].ranges)]
  BY <1>2 DEF NumbersOf
<1>4. IpInv => IpQueries
  BY IpAnswers
<1> QED
  BY <1>1, <1>3, <1>4, PTL DEF IpSpec, IpsAreSets, IpAbs!Spec

-------------------------------------------------------------------------------
(* Port sets: PortSets.                                                     *)

\* The ranges merge_portset() handles, and the arrays that hold only those: a
\* range that ends at port 0 is the one it puts in the wrong place.
PortRanges == {r \in RangesTo(MaxPort) : r.upper # 0}
PortArrays == {p \in Arrays(MaxPort) : 0 \in Elements(p) <=> 1 \in Elements(p)}

LEMMA PortsAre ==
  /\ MaxPort \in Nat /\ MaxPort >= 1 /\ 0 \in 0 .. MaxPort /\ 1 \in 0 .. MaxPort
  /\ PORTRANGE_ALL \in PortRanges /\ Span(PORTRANGE_ALL) = 0 .. MaxPort
  /\ <<>> \in PortArrays /\ Elements(<<>>) = {}
<1>1. MaxPort \in Nat /\ MaxPort >= 1 /\ MaxPort # 0
  BY PortAssumption
<1>2. PORTRANGE_ALL \in RangesTo(MaxPort) /\ Span(PORTRANGE_ALL) = 0 .. MaxPort /\ PORTRANGE_ALL.upper = MaxPort
  <2>1. PORTRANGE_ALL = [lower |-> 0, upper |-> MaxPort]
    BY DEF PORTRANGE_ALL
  <2>2. 0 \in Nat /\ 0 <= MaxPort /\ MaxPort <= MaxPort
    BY <1>1
  <2>3. PORTRANGE_ALL \in RangesTo(MaxPort)
    BY <1>1, <2>1, <2>2 DEF RangesTo
  <2> QED
    BY <2>1, <2>3 DEF Span
<1>3. <<>> \in Arrays(MaxPort) /\ Elements(<<>>) = {}
  BY <1>1, EmptyArray
<1> QED
  BY <1>1, <1>2, <1>3 DEF PortRanges, PortArrays

\* A set that holds both or neither of the ports 0 and 1 has no range {0}.
LEMMA PortRangesOf ==
  ASSUME NEW p \in PortArrays
  PROVE  p \in Seq(PortRanges) /\ p \in Arrays(MaxPort)
<1>1. MaxPort \in Nat /\ p \in Arrays(MaxPort) /\ (0 \in Elements(p) <=> 1 \in Elements(p))
  BY PortsAre DEF PortArrays
<1>2. /\ p \in Seq(RangesTo(MaxPort)) /\ Len(p) \in Nat /\ DOMAIN p = 1 .. Len(p)
      /\ \A k \in 1 .. Len(p) : /\ p[k] \in RangesTo(MaxPort)
                                /\ p[k].lower \in Nat /\ p[k].upper \in Nat /\ p[k].lower <= p[k].upper
      /\ \A j, k \in 1 .. Len(p) : j < k => p[j].upper + 1 < p[k].lower
  BY <1>1, ArrayIs
<1>3. \A x : x \in Elements(p) <=> x \in Nat /\ \E k \in 1 .. Len(p) : p[k].lower <= x /\ x <= p[k].upper
  BY <1>1, <1>2, ElementsAre
<1>4. ASSUME NEW k \in 1 .. Len(p), p[k].upper = 0
      PROVE  FALSE
  <2>1. p[k].lower = 0
    BY <1>2, <1>4
  <2>2. 0 \in Elements(p)
    BY <1>3, <1>4, <2>1
  <2>3. PICK j \in 1 .. Len(p) : p[j].lower <= 1 /\ 1 <= p[j].upper
    BY <1>1, <1>3, <2>2
  <2>4. j # k
    BY <1>4, <2>3
  <2>5. j < k \/ k < j
    BY <1>2, <2>4
  <2>6. ~(j < k)
    BY <1>2, <2>1, <2>3
  <2>7. ~(k < j)
    BY <1>2, <1>4, <2>3
  <2> QED
    BY <2>5, <2>6, <2>7
<1>5. \A k \in 1 .. Len(p) : p[k] \in PortRanges
  BY <1>2, <1>4 DEF PortRanges
<1> QED
  BY <1>1, <1>2, <1>5

LEMMA MergePortIs ==
  ASSUME NEW p \in Arrays(MaxPort), NEW m \in PortRanges
  PROVE  merge_portset(p, m) \in Arrays(MaxPort) /\ Elements(merge_portset(p, m)) = Elements(p) \cup Span(m)
<1> DEFINE found == {k \in DOMAIN p : m.lower <= p[k].upper + 1 \/ p[k].upper = MaxPort} \cup {Len(p) + 1}
           z == Least(found)
<1>1. MaxPort \in Nat /\ m \in RangesTo(MaxPort) /\ m.upper # 0
  BY PortsAre DEF PortRanges
<1>2. /\ p \in Seq(RangesTo(MaxPort)) /\ Len(p) \in Nat /\ DOMAIN p = 1 .. Len(p)
      /\ \A k \in 1 .. Len(p) : p[k].lower \in Nat /\ p[k].upper \in Nat
  BY <1>1, ArrayIs
<1>3. m.lower \in Nat /\ m.upper \in Nat /\ m.lower <= m.upper /\ m.upper <= MaxPort
  BY <1>1, RangeIs
<1>4. z \in found /\ \A k \in found : z <= k
  <2>1. found \in SUBSET Nat /\ found # {}
    BY <1>2
  <2> HIDE DEF found
  <2> QED
    BY <2>1, LeastIs
<1>5. z \in 1 .. Len(p) + 1
  BY <1>2, <1>4
<1>6. Place(p, m, z)
  <2>1. ASSUME NEW k \in 1 .. z - 1
        PROVE  p[k].upper + 1 < m.lower
    <3>1. k \in 1 .. Len(p) /\ k < z /\ k \in Nat /\ z \in Nat
      BY <1>2, <1>5
    <3>2. k \notin found
      <4> HIDE DEF found, z
      <4> QED
        BY <1>4, <3>1
    <3>3. ~(m.lower <= p[k].upper + 1)
      BY <1>2, <3>1, <3>2
    <3> QED
      BY <1>2, <1>3, <3>1, <3>3
  <2>2. z <= Len(p) => m.lower <= p[z].upper + 1
    <3> SUFFICES ASSUME z <= Len(p)
                 PROVE  m.lower <= p[z].upper + 1
      OBVIOUS
    <3>1. z \in 1 .. Len(p) /\ z # Len(p) + 1
      BY <1>2, <1>5
    <3>2. m.lower <= p[z].upper + 1 \/ p[z].upper = MaxPort
      BY <1>4, <3>1
    <3> HIDE DEF z
    <3> QED
      BY <1>1, <1>2, <1>3, <3>1, <3>2
  <2> QED
    BY <2>1, <2>2 DEF Place
<1>7. z = Reaching(p, m)
  BY DEF Reaching
<1> HIDE DEF z
<1>8. merge_portset(p, m) = IF z = Len(p) + 1 THEN Append(p, m)
                            ELSE IF m.upper + 1 < p[z].lower THEN InsertAt(p, z, m)
                            ELSE Grow(p, z, m)
  BY <1>1, <1>7 DEF merge_portset
<1>9. z # Len(p) + 1 => z <= Len(p)
  BY <1>2, <1>5
<1> QED
  BY <1>1, <1>5, <1>6, <1>8, <1>9, Admitted

LEMMA MergePortsIs ==
  ASSUME NEW s \in Arrays(MaxPort), NEW q \in Seq(PortRanges)
  PROVE  /\ merge_portsets(s, q) \in Arrays(MaxPort)
         /\ Elements(merge_portsets(s, q)) = Elements(s) \cup Elements(q)
<1> DEFINE n == Len(q)
           D == Arrays(MaxPort)
           Run(i) == i = [w \in SUBSET DOMAIN q |->
                            IF w = {} THEN s ELSE merge_portset(i[w \ {Max(w)}], q[Max(w)])]
           iter == CHOOSE i : Run(i)
           g == [p \in D \X PortRanges |-> merge_portset(p[1], p[2])]
<1>1. n \in Nat /\ DOMAIN q = 1 .. n /\ \A k \in 1 .. n : q[k] \in PortRanges
  OBVIOUS
<1>2. /\ g \in [D \X PortRanges -> D]
      /\ \A a \in D, b \in PortRanges : g[<<a, b>>] = merge_portset(a, b)
  BY MergePortIs
<1> HIDE DEF n, g
<1>3. \E i : Run(i)
  <2>1. PICK h \in [SUBSET (1 .. n) -> D] : Runs(h, g, s, q, n)
    <3>1. Steps(g, D, PortRanges) /\ Items(q, PortRanges, n) /\ n \in Nat
      BY <1>1, <1>2 DEF Steps, Items
    <3> QED
      BY <3>1, FoldRun
  <2>2. \A w \in SUBSET (1 .. n) :
          h[w] = IF w = {} THEN s ELSE merge_portset(h[w \ {Max(w)}], q[Max(w)])
    BY <1>1, <1>2, <2>1, MaxIs DEF Runs
  <2>3. h = [w \in SUBSET (1 .. n) |-> h[w]]
    OBVIOUS
  <2>4. Run(h)
    BY <1>1, <2>2, <2>3, Zenon
  <2> QED
    BY <2>4
<1>4. Run(iter)
  BY <1>3
<1>5. merge_portsets(s, q) = iter[DOMAIN q]
  BY DEF merge_portsets, FoldLeft, MapThenFoldSet
<1> HIDE DEF iter
<1>6. \A w \in SUBSET (1 .. n) :
        iter[w] = IF w = {} THEN s ELSE merge_portset(iter[w \ {Max(w)}], q[Max(w)])
  BY <1>1, <1>4
<1> DEFINE Good(k) == /\ iter[1 .. k] \in D
                      /\ \A x : x \in Elements(iter[1 .. k]) <=>
                                  x \in Elements(s) \/ \E j \in 1 .. k : x \in Span(q[j])
           T == {k \in Nat : k <= n => Good(k)}
<1>7. 0 \in T
  <2>1. 1 .. 0 = {} /\ {} \in SUBSET (1 .. n)
    OBVIOUS
  <2>2. iter[1 .. 0] = s
    BY <1>6, <2>1
  <2> QED
    BY <2>1, <2>2
<1>8. ASSUME NEW k \in 0 .. n - 1, k \in T
      PROVE  k + 1 \in T
  <2>1. /\ k \in Nat /\ k <= n /\ k + 1 \in Nat /\ k + 1 > 0 /\ k + 1 \in 1 .. n /\ (k + 1) - 1 = k
        /\ 1 .. k + 1 \in SUBSET (1 .. n)
    BY <1>1
  <2>2. 1 .. k + 1 # {} /\ Max(1 .. k + 1) = k + 1 /\ (1 .. k + 1) \ {k + 1} = 1 .. k
    BY <2>1, MaxUpTo
  <2>3. iter[1 .. k + 1] = merge_portset(iter[1 .. k], q[k + 1])
    BY <1>6, <2>1, <2>2
  <2>4. Good(k)
    BY <1>8, <2>1
  <2>5. /\ iter[1 .. k + 1] \in D
        /\ Elements(iter[1 .. k + 1]) = Elements(iter[1 .. k]) \cup Span(q[k + 1])
    BY <1>1, <2>1, <2>3, <2>4, MergePortIs
  <2>6. \A j : j \in 1 .. k + 1 <=> j \in 1 .. k \/ j = k + 1
    BY <2>1
  <2>7. Good(k + 1)
    BY <2>4, <2>5, <2>6
  <2> HIDE DEF Good
  <2> QED
    BY <2>1, <2>7
<1> HIDE DEF T
<1>9. 0 .. n \subseteq T
  BY <1>1, <1>7, <1>8, CountUp
<1>10. Good(n)
  <2>1. n \in T /\ n <= n
    BY <1>1, <1>9
  <2> HIDE DEF Good
  <2> QED
    BY <2>1 DEF T
<1>11. merge_portsets(s, q) = iter[1 .. n]
  BY <1>1, <1>5
<1>12. \A x : x \in Elements(q) <=> \E j \in 1 .. n : x \in Span(q[j])
  BY <1>1 DEF Elements
<1> QED
  BY <1>10, <1>11, <1>12

LEMMA CutPortsIs ==
  ASSUME NEW s \in Arrays(MaxPort), NEW q \in Seq(PortRanges)
  PROVE  /\ cut_portsets(s, q) \in Arrays(MaxPort)
         /\ Elements(cut_portsets(s, q)) = Elements(s) \ Elements(q)
<1> DEFINE n == Len(q)
           D == Arrays(MaxPort)
           Run(i) == i = [w \in SUBSET DOMAIN q |->
                            IF w = {} THEN s ELSE cut_portset(i[w \ {Max(w)}], q[Max(w)])]
           iter == CHOOSE i : Run(i)
           g == [p \in D \X PortRanges |-> cut_portset(p[1], p[2])]
<1>0. \A a \in D, b \in PortRanges : cut_portset(a, b) \in D /\ Elements(cut_portset(a, b)) = Elements(a) \ Span(b)
  <2> TAKE a \in D, b \in PortRanges
  <2>1. b \in RangesTo(MaxPort) /\ MaxPort \in Nat
    BY PortsAre DEF PortRanges
  <2> QED
    BY <2>1, CutIs DEF cut_portset
<1>1. n \in Nat /\ DOMAIN q = 1 .. n /\ \A k \in 1 .. n : q[k] \in PortRanges
  OBVIOUS
<1>2. /\ g \in [D \X PortRanges -> D]
      /\ \A a \in D, b \in PortRanges : g[<<a, b>>] = cut_portset(a, b)
  BY <1>0
<1> HIDE DEF n, g
<1>3. \E i : Run(i)
  <2>1. PICK h \in [SUBSET (1 .. n) -> D] : Runs(h, g, s, q, n)
    <3>1. Steps(g, D, PortRanges) /\ Items(q, PortRanges, n) /\ n \in Nat
      BY <1>1, <1>2 DEF Steps, Items
    <3> QED
      BY <3>1, FoldRun
  <2>2. \A w \in SUBSET (1 .. n) :
          h[w] = IF w = {} THEN s ELSE cut_portset(h[w \ {Max(w)}], q[Max(w)])
    BY <1>1, <1>2, <2>1, MaxIs DEF Runs
  <2>3. h = [w \in SUBSET (1 .. n) |-> h[w]]
    OBVIOUS
  <2>4. Run(h)
    BY <1>1, <2>2, <2>3, Zenon
  <2> QED
    BY <2>4
<1>4. Run(iter)
  BY <1>3
<1>5. cut_portsets(s, q) = iter[DOMAIN q]
  BY DEF cut_portsets, FoldLeft, MapThenFoldSet
<1> HIDE DEF iter
<1>6. \A w \in SUBSET (1 .. n) :
        iter[w] = IF w = {} THEN s ELSE cut_portset(iter[w \ {Max(w)}], q[Max(w)])
  BY <1>1, <1>4
<1> DEFINE Good(k) == /\ iter[1 .. k] \in D
                      /\ \A x : x \in Elements(iter[1 .. k]) <=>
                                  x \in Elements(s) /\ ~ \E j \in 1 .. k : x \in Span(q[j])
           T == {k \in Nat : k <= n => Good(k)}
<1>7. 0 \in T
  <2>1. 1 .. 0 = {} /\ {} \in SUBSET (1 .. n)
    OBVIOUS
  <2>2. iter[1 .. 0] = s
    BY <1>6, <2>1
  <2> QED
    BY <2>1, <2>2
<1>8. ASSUME NEW k \in 0 .. n - 1, k \in T
      PROVE  k + 1 \in T
  <2>1. /\ k \in Nat /\ k <= n /\ k + 1 \in Nat /\ k + 1 > 0 /\ k + 1 \in 1 .. n /\ (k + 1) - 1 = k
        /\ 1 .. k + 1 \in SUBSET (1 .. n)
    BY <1>1
  <2>2. 1 .. k + 1 # {} /\ Max(1 .. k + 1) = k + 1 /\ (1 .. k + 1) \ {k + 1} = 1 .. k
    BY <2>1, MaxUpTo
  <2>3. iter[1 .. k + 1] = cut_portset(iter[1 .. k], q[k + 1])
    BY <1>6, <2>1, <2>2
  <2>4. Good(k)
    BY <1>8, <2>1
  <2>5. /\ iter[1 .. k + 1] \in D
        /\ Elements(iter[1 .. k + 1]) = Elements(iter[1 .. k]) \ Span(q[k + 1])
    BY <1>0, <1>1, <2>1, <2>3, <2>4
  <2>6. \A j : j \in 1 .. k + 1 <=> j \in 1 .. k \/ j = k + 1
    BY <2>1
  <2>7. Good(k + 1)
    BY <2>4, <2>5, <2>6
  <2> HIDE DEF Good
  <2> QED
    BY <2>1, <2>7
<1> HIDE DEF T
<1>9. 0 .. n \subseteq T
  BY <1>1, <1>7, <1>8, CountUp
<1>10. Good(n)
  <2>1. n \in T /\ n <= n
    BY <1>1, <1>9
  <2> HIDE DEF Good
  <2> QED
    BY <2>1 DEF T
<1>11. cut_portsets(s, q) = iter[1 .. n]
  BY <1>1, <1>5
<1>12. \A x : x \in Elements(q) <=> \E j \in 1 .. n : x \in Span(q[j])
  BY <1>1 DEF Elements
<1> QED
  BY <1>10, <1>11, <1>12

\* The size is counted in a type that has no room for all ports.
LEMMA PortCountIs ==
  ASSUME NEW q \in Arrays(MaxPort)
  PROVE  portset_portcount(q) = Cardinality(Elements(q)) % (MaxPort + 1)
<1> DEFINE n == Len(q)
           P == RangesTo(MaxPort)
           step(a, b) == (a + b.upper - b.lower + 1) % (MaxPort + 1)
           Run(i) == i = [w \in SUBSET DOMAIN q |->
                            IF w = {} THEN 0 ELSE step(i[w \ {Max(w)}], q[Max(w)])]
           iter == CHOOSE i : Run(i)
           g == [p \in Int \X P |-> step(p[1], p[2])]
           S == [k \in 0 .. n |-> {x \in Nat : \E j \in 1 .. k : q[j].lower <= x /\ x <= q[j].upper}]
<1>1. /\ MaxPort \in Nat /\ q \in Seq(P)
      /\ n \in Nat /\ DOMAIN q = 1 .. n /\ \A k \in 1 .. n : q[k] \in P
      /\ \A k \in 1 .. n : /\ q[k].lower \in Nat /\ q[k].upper \in Nat
                           /\ q[k].lower <= q[k].upper /\ q[k].upper <= MaxPort
  BY PortsAre, ArrayIs
<1>2. /\ g \in [Int \X P -> Int]
      /\ \A a \in Int, b \in P : g[<<a, b>>] = step(a, b)
  <2>1. \A b \in P : b.upper \in Nat /\ b.lower \in Nat
    BY <1>1, RangeIs
  <2>2. \A x \in Int, m \in Nat : x % (m + 1) \in Int
    OBVIOUS
  <2>3. \A a \in Int, b \in P : step(a, b) \in Int
    BY <1>1, <2>1, <2>2
  <2> HIDE DEF step
  <2> QED
    BY <2>3
<1>3. portset_portcount(q) = iter[DOMAIN q]
  BY DEF portset_portcount, FoldLeft, MapThenFoldSet
<1> HIDE DEF n, g, step
<1>4. \E i : Run(i)
  <2>1. PICK h \in [SUBSET (1 .. n) -> Int] : Runs(h, g, 0, q, n)
    <3>1. Steps(g, Int, P) /\ Items(q, P, n) /\ n \in Nat /\ 0 \in Int
      BY <1>1, <1>2 DEF Steps, Items
    <3> QED
      BY <3>1, FoldRun
  <2>2. \A w \in SUBSET (1 .. n) :
          h[w] = IF w = {} THEN 0 ELSE step(h[w \ {Max(w)}], q[Max(w)])
    BY <1>1, <1>2, <2>1, MaxIs DEF Runs
  <2>3. h = [w \in SUBSET (1 .. n) |-> h[w]]
    OBVIOUS
  <2>4. Run(h)
    BY <1>1, <2>2, <2>3, Zenon
  <2> QED
    BY <2>4
<1>5. Run(iter)
  BY <1>4
<1> HIDE DEF iter
<1>6. \A w \in SUBSET (1 .. n) :
        iter[w] = IF w = {} THEN 0 ELSE step(iter[w \ {Max(w)}], q[Max(w)])
  BY <1>1, <1>5
<1>7. /\ S \in [0 .. n -> SUBSET Nat]
      /\ \A i \in 0 .. n : \A x : x \in S[i] <=>
           x \in Nat /\ \E j \in 1 .. i : q[j].lower <= x /\ x <= q[j].upper
  OBVIOUS
<1> HIDE DEF S
<1>8. \A k \in 0 .. n : IsFiniteSet(S[k]) /\ Cardinality(S[k]) \in Nat /\ Cardinality(S[k]) <= MaxPort + 1
  <2> TAKE k \in 0 .. n
  <2>1. S[k] \subseteq 0 .. MaxPort
    BY <1>1, <1>7
  <2>2. IsFiniteSet(0 .. MaxPort) /\ Cardinality(0 .. MaxPort) = MaxPort + 1
    <3>1. Cardinality(0 .. MaxPort) = IF 0 > MaxPort THEN 0 ELSE MaxPort - 0 + 1
      BY <1>1, FS_Interval
    <3>2. IsFiniteSet(0 .. MaxPort)
      BY <1>1, FS_Interval
    <3> QED
      BY <1>1, <3>1, <3>2
  <2> QED
    BY <2>1, <2>2, FS_Subset, FS_CardinalityType
<1> DEFINE Good(k) == iter[1 .. k] = Cardinality(S[k]) % (MaxPort + 1)
           T == {k \in Nat : k <= n => Good(k)}
<1>9. \A c \in Nat : c < MaxPort + 1 => c % (MaxPort + 1) = c
  <2>1. \A m \in Nat : \A c \in 0 .. m : c % (m + 1) = c
    OBVIOUS
  <2>2. \A c \in Nat : c < MaxPort + 1 => c \in 0 .. MaxPort
    BY <1>1
  <2>3. MaxPort \in Nat
    BY <1>1
  <2> QED
    BY <2>1, <2>2, <2>3, Zenon
<1>10. 0 \in T
  <2>1. 1 .. 0 = {} /\ {} \in SUBSET (1 .. n) /\ 0 \in 0 .. n
    BY <1>1
  <2>2. iter[1 .. 0] = 0
    BY <1>6, <2>1
  <2>3. S[0] = {}
    BY <1>7, <2>1
  <2>4. Cardinality(S[0]) = 0 /\ 0 % (MaxPort + 1) = 0
    BY <1>1, <1>9, <2>3, FS_EmptySet
  <2> QED
    BY <2>2, <2>4
<1>11. ASSUME NEW k \in 0 .. n - 1, k \in T
       PROVE  k + 1 \in T
  <2>1. /\ k \in Nat /\ k <= n /\ k + 1 \in Nat /\ k + 1 > 0 /\ k + 1 \in 1 .. n /\ (k + 1) - 1 = k
        /\ 1 .. k + 1 \in SUBSET (1 .. n) /\ k \in 0 .. n /\ k < n /\ k + 1 \in 0 .. n
    BY <1>1
  <2>2. 1 .. k + 1 # {} /\ Max(1 .. k + 1) = k + 1 /\ (1 .. k + 1) \ {k + 1} = 1 .. k
    BY <2>1, MaxUpTo
  <2>3. iter[1 .. k + 1] = step(iter[1 .. k], q[k + 1])
    BY <1>6, <2>1, <2>2
  <2>4. Good(k)
    BY <1>11, <2>1
  <2>5. /\ Cardinality(S[k]) \in Nat
        /\ Cardinality(S[k + 1]) = Cardinality(S[k]) + q[k + 1].upper - q[k + 1].lower + 1
    BY <1>1, <1>7, <1>8, <2>1, CountIs DEF n
  <2>6. Cardinality(S[k + 1]) <= MaxPort + 1
    BY <1>8, <2>1
  <2>7. Cardinality(S[k]) < MaxPort + 1
    <3>1. /\ q[k + 1].upper \in Nat /\ q[k + 1].lower \in Nat /\ q[k + 1].lower <= q[k + 1].upper
          /\ MaxPort \in Nat
      BY <1>1, <2>1
    <3> QED
      BY <2>5, <2>6, <3>1
  <2>8. iter[1 .. k] = Cardinality(S[k])
    BY <1>9, <2>4, <2>5, <2>7
  <2>9. Good(k + 1)
    BY <2>3, <2>5, <2>8 DEF step
  <2> HIDE DEF Good
  <2> QED
    BY <2>1, <2>9
<1> HIDE DEF T
<1>12. 0 .. n \subseteq T
  BY <1>1, <1>10, <1>11, CountUp
<1>13. Good(n)
  <2>1. n \in T /\ n <= n
    BY <1>1, <1>12
  <2> HIDE DEF Good
  <2> QED
    BY <2>1 DEF T
<1>14. S[n] = Elements(q)
  <2>1. n \in 0 .. n
    BY <1>1
  <2>2. \A x : x \in Elements(q) <=> x \in Nat /\ \E j \in 1 .. n : q[j].lower <= x /\ x <= q[j].upper
    BY <1>1, ElementsAre DEF n
  <2> QED
    BY <1>7, <2>1, <2>2
<1> QED
  BY <1>1, <1>3, <1>13, <1>14

\* Texts.
PortItems == [form : {"upto", "from", "span", "one", "bad"},
              a : 0 .. MaxPort, b : 0 .. MaxPort, sep : {",", " ", "end"}]

PortText == [invert : BOOLEAN, word : {"any", "none", "ranges"}, items : Seq(PortItems)]

LEMMA ParsedPortIs ==
  ASSUME NEW item \in PortItems, item.form # "bad"
  PROVE  parse_portrange(item) \in RangesTo(MaxPort)
<1>1. /\ MaxPort \in Nat /\ item.a \in 0 .. MaxPort /\ item.b \in 0 .. MaxPort
      /\ item.form \in {"upto", "from", "span", "one"}
  BY PortsAre DEF PortItems
<1>2. \A l, u \in 0 .. MaxPort : l <= u => [lower |-> l, upper |-> u] \in RangesTo(MaxPort)
  BY <1>1 DEF RangesTo
<1>3. CASE item.form = "upto"
  BY <1>1, <1>2, <1>3 DEF parse_portrange
<1>4. CASE item.form = "from"
  BY <1>1, <1>2, <1>4 DEF parse_portrange
<1>5. CASE item.form = "one"
  BY <1>1, <1>2, <1>5 DEF parse_portrange
<1>6. CASE item.form = "span"
  <2>1. parse_portrange(item) = Ordered(item.a, item.b)
    BY <1>6 DEF parse_portrange
  <2>2. \A l, u \in 0 .. MaxPort : Ordered(l, u) \in RangesTo(MaxPort)
    <3> TAKE l, u \in 0 .. MaxPort
    <3>1. CASE l > u
      BY <1>1, <1>2, <3>1 DEF Ordered
    <3>2. CASE ~(l > u)
      BY <1>1, <1>2, <3>2 DEF Ordered
    <3> QED
      BY <3>1, <3>2
  <2> QED
    BY <1>1, <2>1, <2>2
<1> QED
  BY <1>1, <1>3, <1>4, <1>5, <1>6

LEMMA NumericIs ==
  ASSUME NEW q \in Seq(PortItems)
  PROVE  /\ Numeric(q) \in Seq(PortItems) /\ Listed(q) \in Seq(RangesTo(MaxPort))
         /\ DOMAIN Listed(q) = 1 .. Len(Numeric(q)) /\ DOMAIN Numeric(q) = 1 .. Len(Numeric(q))
         /\ (\A k \in DOMAIN q : q[k].form # "bad") => Numeric(q) = q
<1> DEFINE bad == {k \in DOMAIN q : q[k].form = "bad"} \cup {Len(q) + 1}
           z == Least(bad)
           w == SubSeq(q, 1, z - 1)
<1>1. Len(q) \in Nat /\ DOMAIN q = 1 .. Len(q) /\ \A k \in 1 .. Len(q) : q[k] \in PortItems
  OBVIOUS
<1>2. Numeric(q) = w
  BY DEF Numeric
<1>3. z \in bad /\ \A k \in bad : z <= k
  <2>1. bad \in SUBSET Nat /\ bad # {}
    BY <1>1
  <2> HIDE DEF bad
  <2> QED
    BY <2>1, LeastIs
<1>4. z \in 1 .. Len(q) + 1 /\ z - 1 \in Nat
  BY <1>1, <1>3
<1>5. \A k \in 1 .. z - 1 : k \in 1 .. Len(q) /\ q[k].form # "bad"
  <2> TAKE k \in 1 .. z - 1
  <2>1. k \in 1 .. Len(q) /\ ~(z <= k)
    BY <1>1, <1>4
  <2>2. k \notin bad
    <3> HIDE DEF bad, z
    <3> QED
      BY <1>3, <2>1
  <2> QED
    BY <1>1, <2>1, <2>2
<1> HIDE DEF z
<1>6. w \in Seq(PortItems) /\ Len(w) = z - 1 /\ \A k \in 1 .. z - 1 : w[k] = q[k]
  <2>1. \A k \in 1 .. z - 1 : q[k] \in PortItems
    BY <1>1, <1>5
  <2>2. /\ w \in Seq(PortItems) /\ Len(w) = IF 1 <= z - 1 THEN z - 1 - 1 + 1 ELSE 0
        /\ \A k \in 1 .. z - 1 - 1 + 1 : w[k] = q[1 + k - 1]
    BY <1>4, <2>1, SubSeqProperties
  <2> QED
    BY <1>4, <2>2
<1> HIDE DEF w
<1>7. DOMAIN w = 1 .. Len(w) /\ Len(w) \in Nat
  BY <1>6
<1>8. Listed(q) \in Seq(RangesTo(MaxPort)) /\ DOMAIN Listed(q) = 1 .. Len(w)
  <2>1. \A k \in 1 .. Len(w) : parse_portrange(w[k]) \in RangesTo(MaxPort)
    BY <1>1, <1>5, <1>6, ParsedPortIs
  <2>2. Listed(q) = [k \in 1 .. Len(w) |-> parse_portrange(w[k])]
    BY <1>2, <1>7 DEF Listed
  <2> QED
    BY <1>7, <2>1, <2>2, IsASeq
<1>9. ASSUME \A k \in DOMAIN q : q[k].form # "bad"
      PROVE  w = q
  <2>1. z = Len(q) + 1
    BY <1>1, <1>3, <1>9
  <2> QED
    BY <1>1, <1>6, <2>1, SeqEqual
<1> QED
  BY <1>2, <1>6, <1>7, <1>8, <1>9

LEMMA ListedPortsAre ==
  ASSUME NEW q \in Seq(PortItems)
  PROVE  Elements(Listed(q)) = UNION {Span(parse_portrange(item)) : item \in ToSet(Numeric(q))}
<1> DEFINE w == Numeric(q)
<1>1. DOMAIN Listed(q) = DOMAIN w
  BY NumericIs
<1>2. \A k \in DOMAIN w : Listed(q)[k] = parse_portrange(w[k])
  BY DEF Listed
<1>3. ToSet(w) = {w[k] : k \in DOMAIN w}
  BY DEF ToSet
<1> HIDE DEF w
<1>4. \A x : x \in Elements(Listed(q)) <=> \E k \in DOMAIN w : x \in Span(parse_portrange(w[k]))
  BY <1>1, <1>2 DEF Elements
<1>5. \A x : x \in UNION {Span(parse_portrange(item)) : item \in ToSet(w)}
               <=> \E k \in DOMAIN w : x \in Span(parse_portrange(w[k]))
  BY <1>3
<1> QED
  BY <1>4, <1>5 DEF w

\* What ZeroIsNeverAlone says of one text.
Tame(t) == /\ \A item \in ToSet(Numeric(t.items)) : parse_portrange(item).upper # 0
           /\ 0 \in PortDenotes(t) <=> 1 \in PortDenotes(t)

LEMMA PortReadIs ==
  ASSUME NEW p \in PortArrays, NEW t \in PortText, Tame(t)
  PROVE  LET s == parse_portset(p, t).set
         IN s \in PortArrays /\ (s = <<>> \/ s = p \/ Elements(s) = PortDenotes(t))
<1> DEFINE q == t.items
           list == Listed(q)
           all == merge_portset(p, PORTRANGE_ALL)
           read == merge_portsets(<<>>, list)
           cut == cut_portsets(all, read)
           s == parse_portset(p, t).set
<1>1. q \in Seq(PortItems) /\ t.invert \in BOOLEAN /\ t.word \in {"any", "none", "ranges"}
  BY DEF PortText
<1>2. /\ MaxPort \in Nat /\ <<>> \in PortArrays /\ PORTRANGE_ALL \in PortRanges
      /\ Span(PORTRANGE_ALL) = 0 .. MaxPort /\ 0 \in 0 .. MaxPort /\ 1 \in 0 .. MaxPort
      /\ <<>> \in Arrays(MaxPort) /\ Elements(<<>>) = {}
  BY PortsAre, PortRangesOf
<1>3. list \in Seq(PortRanges)
  <2>1. list \in Seq(RangesTo(MaxPort)) /\ DOMAIN list = DOMAIN Numeric(q)
    BY <1>1, NumericIs
  <2>2. \A k \in DOMAIN list : list[k] = parse_portrange(Numeric(q)[k])
    BY <2>1 DEF Listed
  <2>3. \A k \in DOMAIN list : Numeric(q)[k] \in ToSet(Numeric(q))
    BY <2>1 DEF ToSet
  <2>4. \A k \in DOMAIN list : list[k].upper # 0
    BY <2>2, <2>3 DEF Tame
  <2> HIDE DEF list
  <2>5. \A k \in 1 .. Len(list) : list[k] \in PortRanges
    BY <2>1, <2>4 DEF PortRanges
  <2> QED
    BY <2>1, <2>5
<1>4. Elements(list) = UNION {Span(parse_portrange(item)) : item \in ToSet(Numeric(q))}
  BY <1>1, ListedPortsAre
<1>5. PortDenotes(t) = IF t.word = "any" THEN 0 .. MaxPort
                       ELSE IF t.invert THEN (0 .. MaxPort) \ Elements(list) ELSE Elements(list)
  BY <1>4 DEF PortDenotes
<1>6. p \in Arrays(MaxPort) /\ Elements(p) \subseteq 0 .. MaxPort
  <2>1. p \in Arrays(MaxPort) /\ p \in Seq(RangesTo(MaxPort))
    BY <1>2, PortRangesOf, ArrayIs
  <2> QED
    BY <1>2, <2>1, ElementsAre
<1> HIDE DEF q, list
<1>7. all \in Arrays(MaxPort) /\ Elements(all) = 0 .. MaxPort
  <2>1. all \in Arrays(MaxPort) /\ Elements(all) = Elements(p) \cup (0 .. MaxPort)
    BY <1>2, <1>6, MergePortIs
  <2> HIDE DEF all
  <2> QED
    BY <1>6, <2>1
<1>8. read \in Arrays(MaxPort) /\ Elements(read) = Elements(list)
  <2>1. read \in Arrays(MaxPort) /\ Elements(read) = {} \cup Elements(list)
    BY <1>2, <1>3, MergePortsIs
  <2> HIDE DEF read
  <2> QED
    BY <2>1
<1>9. ASSUME t.word # "any"
      PROVE  cut \in Arrays(MaxPort) /\ Elements(cut) = (0 .. MaxPort) \ Elements(list)
  <2>1. 0 \in Elements(list) <=> 1 \in Elements(list)
    BY <1>2, <1>5, <1>9 DEF Tame
  <2> HIDE DEF all, read
  <2>2. read \in Seq(PortRanges)
    BY <1>8, <2>1, PortRangesOf DEF PortArrays
  <2> QED
    BY <1>7, <1>8, <2>2, CutPortsIs
<1>10. \/ s = <<>> \/ s = p
       \/ t.word = "any" /\ s = all
       \/ t.word # "any" /\ s = IF t.invert THEN cut ELSE read
  <2>1. parse_numeric_ports(q).set = read
    BY DEF parse_numeric_ports, list
  <2> DEFINE owed == parse_numeric_ports(q).owed
             made == IF t.invert THEN cut ELSE read
             outcome == IF t.word # "ranges" /\ t.invert THEN [set |-> <<>>, ok |-> FALSE]
                       ELSE IF t.word = "any" THEN [set |-> all, ok |-> TRUE]
                       ELSE IF t.word = "none" THEN [set |-> p, ok |-> TRUE]
                       ELSE IF owed THEN [set |-> <<>>, ok |-> FALSE]
                       ELSE [set |-> made, ok |-> made # <<>>]
  <2>2. parse_portset(p, t) = outcome
    <3> DEFINE num == parse_numeric_ports(q)
               same == IF t.invert THEN cut_portsets(all, num.set) ELSE num.set
    <3>1. parse_portset(p, t) =
            IF t.word # "ranges" /\ t.invert THEN [set |-> <<>>, ok |-> FALSE]
            ELSE IF t.word = "any" THEN [set |-> all, ok |-> TRUE]
            ELSE IF t.word = "none" THEN [set |-> p, ok |-> TRUE]
            ELSE IF num.owed THEN [set |-> <<>>, ok |-> FALSE]
            ELSE [set |-> same, ok |-> same # <<>>]
      BY DEF parse_portset, q
    <3>2. num.set = read
      BY <2>1
    <3>3. same = made
      <4> HIDE DEF num, all, read
      <4> QED
        BY <3>2
    <3> HIDE DEF same, made, all
    <3> QED
      BY <3>1, <3>3
  <2> HIDE DEF owed, made, all
  <2>3. CASE t.word # "ranges" /\ t.invert
    BY <2>2, <2>3
  <2>4. CASE ~(t.word # "ranges" /\ t.invert) /\ t.word = "any"
    BY <2>2, <2>4
  <2>5. CASE ~(t.word # "ranges" /\ t.invert) /\ t.word = "none"
    BY <2>2, <2>5
  <2>6. CASE t.word = "ranges" /\ owed
    BY <2>2, <2>6
  <2>7. CASE t.word = "ranges" /\ ~owed
    <3>1. s = made
      BY <2>2, <2>7
    <3> QED
      BY <2>7, <3>1 DEF made
  <2> QED
    BY <1>1, <2>3, <2>4, <2>5, <2>6, <2>7
<1> HIDE DEF all, read, cut, s
<1>11. s = <<>> \/ s = p \/ (s \in Arrays(MaxPort) /\ Elements(s) = PortDenotes(t))
  <2>1. CASE t.word = "any" /\ s = all
    BY <1>5, <1>7, <2>1
  <2>2. CASE t.word # "any" /\ t.invert /\ s = cut
    BY <1>5, <1>9, <2>2
  <2>3. CASE t.word # "any" /\ ~t.invert /\ s = read
    BY <1>5, <1>8, <2>3
  <2>4. CASE t.word # "any" /\ s = IF t.invert THEN cut ELSE read
    <3>1. CASE t.invert
      BY <2>2, <2>4, <3>1
    <3>2. CASE ~t.invert
      BY <2>3, <2>4, <3>2
    <3> QED
      BY <3>1, <3>2
  <2> QED
    BY <1>10, <2>1, <2>4
<1>12. s \in Arrays(MaxPort) /\ Elements(s) = PortDenotes(t) => s \in PortArrays
  BY DEF Tame, PortArrays
<1>13. s \in PortArrays /\ (s = <<>> \/ s = p \/ Elements(s) = PortDenotes(t))
  BY <1>2, <1>11, <1>12
<1> QED
  BY <1>13 DEF s

\* A set is read back from the text it is written as.
LEMMA PortReadBackIs ==
  ASSUME NEW p \in PortArrays
  PROVE  LET back == parse_portset(<<>>, stringize_portset(p))
         IN back.ok /\ back.set = p
<1> DEFINE t == stringize_portset(p)
           back == parse_portset(<<>>, t)
           all == merge_portset(<<>>, PORTRANGE_ALL)
           n == Len(p)
<1>1. /\ MaxPort \in Nat /\ p \in Seq(PortRanges) /\ p \in Arrays(MaxPort)
      /\ <<>> \in Arrays(MaxPort) /\ Elements(<<>>) = {}
      /\ PORTRANGE_ALL \in PortRanges /\ PORTRANGE_ALL \in RangesTo(MaxPort)
  BY PortsAre, PortRangesOf DEF PortRanges
<1>2. /\ n \in Nat /\ DOMAIN p = 1 .. n
      /\ \A k \in 1 .. n : /\ p[k] \in RangesTo(MaxPort)
                           /\ p[k].lower \in Nat /\ p[k].upper \in Nat
                           /\ p[k].lower <= p[k].upper /\ p[k].upper <= MaxPort
  BY <1>1, ArrayIs
<1>3. /\ t.invert = FALSE
      /\ t.word = IF p = <<>> THEN "none" ELSE IF portset_complete(p) THEN "any" ELSE "ranges"
      /\ t.items = [k \in DOMAIN p |-> stringize_portrange(p[k], IF k = Len(p) THEN "end" ELSE ",")]
  BY DEF stringize_portset
<1> HIDE DEF t, n
<1> SUFFICES back.ok /\ back.set = p
  BY DEF t
<1>4. CASE p = <<>>
  <2>1. back = [set |-> <<>>, ok |-> TRUE]
    BY <1>3, <1>4 DEF parse_portset
  <2>2. back.ok /\ back.set = p
    BY <1>4, <2>1
  <2> HIDE DEF back
  <2> QED
    BY <2>2
<1>5. CASE p # <<>> /\ portset_complete(p)
  <2>1. back = [set |-> all, ok |-> TRUE]
    BY <1>3, <1>5 DEF parse_portset
  <2>2. p = <<PORTRANGE_ALL>>
    BY <1>5 DEF portset_complete
  <2>3. Elements(p) = Span(PORTRANGE_ALL)
    BY <1>1, <2>2, OneRange
  <2>4. all \in Arrays(MaxPort) /\ Elements(all) = {} \cup Span(PORTRANGE_ALL)
    BY <1>1, MergePortIs
  <2> HIDE DEF all
  <2>5. all = p
    BY <1>1, <2>3, <2>4, SameArray
  <2>6. back.ok /\ back.set = p
    BY <2>1, <2>5
  <2> HIDE DEF back
  <2> QED
    BY <2>6
<1>6. CASE p # <<>> /\ ~portset_complete(p)
  <2> DEFINE q == t.items
             i(k) == stringize_portrange(p[k], IF k = n THEN "end" ELSE ",")
  <2>1. q = [k \in 1 .. n |-> i(k)]
    BY <1>2, <1>3 DEF n
  <2>2. ASSUME NEW k \in 1 .. n
        PROVE  /\ i(k) \in PortItems /\ i(k).form # "bad" /\ i(k).sep = (IF k = n THEN "end" ELSE ",")
               /\ parse_portrange(i(k)) = p[k]
    <3> DEFINE v == p[k]
               e == i(k)
               sep == IF k = n THEN "end" ELSE ","
    <3>1. /\ v.lower \in Nat /\ v.upper \in Nat /\ v.lower <= v.upper /\ v.upper <= MaxPort
          /\ v = [lower |-> v.lower, upper |-> v.upper]
      BY <1>1, <1>2, RangeIs
    <3>2. e = [form |-> IF v.lower = v.upper THEN "one" ELSE "span", a |-> v.lower, b |-> v.upper, sep |-> sep]
      BY DEF stringize_portrange
    <3>3. sep \in {",", " ", "end"} /\ v.lower \in 0 .. MaxPort /\ v.upper \in 0 .. MaxPort
      BY <1>1, <3>1
    <3> HIDE DEF v, e, sep
    <3>4. e \in PortItems /\ e.form \in {"one", "span"} /\ e.a = v.lower /\ e.b = v.upper /\ e.sep = sep
      BY <3>2, <3>3 DEF PortItems
    <3>5. CASE v.lower = v.upper
      <4>1. e.form = "one"
        BY <3>2, <3>5
      <4>2. parse_portrange(e) = [lower |-> e.a, upper |-> e.a]
        BY <4>1 DEF parse_portrange
      <4>3. parse_portrange(e) = v
        BY <3>1, <3>4, <3>5, <4>2
      <4> QED
        BY <3>4, <4>1, <4>3 DEF v, e, sep
    <3>6. CASE v.lower # v.upper
      <4>1. e.form = "span"
        BY <3>2, <3>6
      <4>2. parse_portrange(e) = Ordered(e.a, e.b)
        BY <4>1 DEF parse_portrange
      <4>3. ~(v.lower > v.upper)
        BY <3>1
      <4>4. Ordered(v.lower, v.upper) = v
        BY <3>1, <4>3 DEF Ordered
      <4>5. parse_portrange(e) = v
        BY <3>4, <4>2, <4>4
      <4> QED
        BY <3>4, <4>1, <4>5 DEF v, e, sep
    <3> QED
      BY <3>5, <3>6
  <2> HIDE DEF q, i
  <2>3. q \in Seq(PortItems) /\ DOMAIN q = 1 .. n /\ \A k \in 1 .. n : q[k] = i(k)
    <3>1. q \in [1 .. n -> PortItems]
      BY <2>1, <2>2
    <3> QED
      BY <1>2, <2>1, <3>1, IsASeq
  <2>4. Numeric(q) = q
    <3>1. \A k \in DOMAIN q : q[k].form # "bad"
      BY <2>2, <2>3
    <3> QED
      BY <2>3, <3>1, NumericIs
  <2>5. Listed(q) = p
    <3>1. Listed(q) = [k \in 1 .. n |-> parse_portrange(q[k])]
      BY <2>3, <2>4 DEF Listed
    <3>2. \A k \in 1 .. n : parse_portrange(q[k]) = p[k]
      BY <2>2, <2>3
    <3>3. p = [k \in 1 .. n |-> p[k]]
      BY <1>1, <1>2
    <3> QED
      BY <3>1, <3>2, <3>3
  <2>6. ~(\A k \in DOMAIN q : q[k].sep = ",")
    <3>1. n \in 1 .. n
      BY <1>1, <1>2, <1>6 DEF n
    <3>2. q[n].sep = "end"
      BY <2>2, <2>3, <3>1
    <3> QED
      BY <2>3, <3>1, <3>2
  <2> DEFINE made == merge_portsets(<<>>, p)
  <2>7. made = p
    <3>1. made \in Arrays(MaxPort) /\ Elements(made) = {} \cup Elements(p)
      BY <1>1, MergePortsIs
    <3> HIDE DEF made
    <3> QED
      BY <1>1, <3>1, SameArray
  <2>8. parse_numeric_ports(q).set = p /\ ~parse_numeric_ports(q).owed
    BY <2>4, <2>5, <2>6, <2>7 DEF parse_numeric_ports
  <2>9. t.word = "ranges" /\ t.invert = FALSE
    BY <1>3, <1>6
  <2>10. back = [set |-> p, ok |-> p # <<>>]
    BY <2>8, <2>9 DEF parse_portset, q
  <2>11. (p # <<>>) = TRUE
    BY <1>6
  <2> HIDE DEF back
  <2>12. back.set = p /\ back.ok = (p # <<>>)
    BY <2>10
  <2> QED
    BY <2>11, <2>12
<1> HIDE DEF back
<1>7. back.ok /\ back.set = p
  BY <1>4, <1>5, <1>6
<1> QED
  BY <1>7 DEF back, t

-------------------------------------------------------------------------------
(* The program, port sets. *)

\* What the port sets of the program stay.
PortInv == ports \in [PortIds -> PortArrays]

PortsOf == [i \in PortIds |-> Elements(ports[i])]

LEMMA PortAnswers == PortInv => PortQueries
<1> SUFFICES ASSUME PortInv, NEW i \in PortIds, NEW j \in PortIds
             PROVE  LET p == ports[i]
                        q == ports[j]
                        S == Elements(p)
                        back == parse_portset(<<>>, stringize_portset(p))
                    IN /\ Canonical(p)
                       /\ \A x \in 0 .. MaxPort : contains_port(p, x) <=> x \in S
                       /\ portsets_equal(p, q) <=> S = Elements(q)
                       /\ portset_cmp(p, q) = 0 <=> S = Elements(q)
                       /\ portset_complete(p) <=> S = 0 .. MaxPort
                       /\ portset_portcount(p) = Cardinality(S) % (MaxPort + 1)
                       /\ back.ok /\ back.set = p
  BY DEF PortQueries
<1> DEFINE p == ports[i]
           q == ports[j]
<1>1. p \in PortArrays /\ q \in PortArrays
  BY DEF PortInv
<1>2. /\ MaxPort \in Nat /\ p \in Arrays(MaxPort) /\ q \in Arrays(MaxPort)
      /\ PORTRANGE_ALL \in RangesTo(MaxPort) /\ Span(PORTRANGE_ALL) = 0 .. MaxPort
  BY <1>1, PortsAre DEF PortArrays, PortRanges
<1> HIDE DEF p, q
<1>3. Canonical(p)
  BY <1>2 DEF Arrays
<1>4. \A x \in 0 .. MaxPort : contains_port(p, x) <=> x \in Elements(p)
  <2>1. \A x \in 0 .. MaxPort : x \in Nat
    BY <1>2
  <2> QED
    BY <1>2, <2>1, HasIs DEF contains_port
<1>5. p = q <=> Elements(p) = Elements(q)
  BY <1>2, SameArray
<1>6. portsets_equal(p, q) <=> Elements(p) = Elements(q)
  BY <1>5 DEF portsets_equal
<1>7. portset_cmp(p, q) = 0 <=> Elements(p) = Elements(q)
  BY <1>2, <1>5, CompareIs DEF portset_cmp
<1>8. portset_complete(p) <=> Elements(p) = 0 .. MaxPort
  <2> DEFINE whole == <<PORTRANGE_ALL>>
  <2>1. whole \in Arrays(MaxPort) /\ Elements(whole) = 0 .. MaxPort
    BY <1>2, OneRange
  <2>2. portset_complete(p) <=> p = whole
    BY DEF portset_complete
  <2> HIDE DEF whole
  <2> QED
    BY <1>2, <2>1, <2>2, SameArray
<1>9. portset_portcount(p) = Cardinality(Elements(p)) % (MaxPort + 1)
  BY <1>2, PortCountIs
<1>10. LET back == parse_portset(<<>>, stringize_portset(p)) IN back.ok /\ back.set = p
  BY <1>1, PortReadBackIs
<1> QED
  BY <1>3, <1>4, <1>6, <1>7, <1>8, <1>9, <1>10 DEF p, q

LEMMA PortsBecomeIs ==
  ASSUME PortInv, NEW i \in PortIds, NEW p \in PortArrays, PortsBecome(i, p)
  PROVE  PortInv' /\ PortsOf' = [PortsOf EXCEPT ![i] = Elements(p)]
<1>1. ports \in [PortIds -> PortArrays] /\ ports' = [ports EXCEPT ![i] = p]
  BY DEF PortInv, PortsBecome
<1>2. ports' \in [PortIds -> PortArrays]
  BY <1>1
<1>3. ports'[i] = p /\ \A j \in PortIds : j # i => ports'[j] = ports[j]
  BY <1>1
<1>4. PortsOf' = [j \in PortIds |-> Elements(ports'[j])]
  BY DEF PortsOf
<1>5. [PortsOf EXCEPT ![i] = Elements(p)]
        = [j \in PortIds |-> IF j = i THEN Elements(p) ELSE Elements(ports[j])]
  BY DEF PortsOf
<1>6. \A j \in PortIds : Elements(ports'[j]) = IF j = i THEN Elements(p) ELSE Elements(ports[j])
  BY <1>3
<1> QED
  BY <1>2, <1>4, <1>5, <1>6 DEF PortInv

\* Uniting and subtracting sets in which ports 0 and 1 come together gives such sets.
LEMMA PortsCombined ==
  ASSUME NEW p \in PortArrays, NEW q \in PortArrays
  PROVE  /\ merge_portsets(p, q) \in PortArrays
         /\ Elements(merge_portsets(p, q)) = Elements(p) \cup Elements(q)
         /\ cut_portsets(p, q) \in PortArrays
         /\ Elements(cut_portsets(p, q)) = Elements(p) \ Elements(q)
<1>1. p \in Arrays(MaxPort) /\ q \in Seq(PortRanges)
  BY PortRangesOf
<1>2. (0 \in Elements(p) <=> 1 \in Elements(p)) /\ (0 \in Elements(q) <=> 1 \in Elements(q))
  BY DEF PortArrays
<1>3. /\ merge_portsets(p, q) \in Arrays(MaxPort)
      /\ Elements(merge_portsets(p, q)) = Elements(p) \cup Elements(q)
  BY <1>1, MergePortsIs
<1>4. /\ cut_portsets(p, q) \in Arrays(MaxPort)
      /\ Elements(cut_portsets(p, q)) = Elements(p) \ Elements(q)
  BY <1>1, CutPortsIs
<1> QED
  BY <1>2, <1>3, <1>4 DEF PortArrays

\* Every call does to the ports what it says.
LEMMA PortSteps ==
  ASSUME ZeroIsNeverAlone, PortInv, PortNext
  PROVE  PortInv' /\ [PortAbs!Next]_PortsOf
<1> USE DEF PortAbs!Next, PortAbs!Become
<1>1. PICK i \in PortIds, j \in PortIds :
        \/ MergePorts(i, j) \/ CutPorts(i, j) \/ ClonePorts(i, j)
        \/ SwapPorts(i, j) \/ FreePorts(i) \/ ParsePorts(i)
  BY DEF PortNext
<1>2. /\ PortsOf[i] = Elements(ports[i]) /\ ports[i] \in PortArrays
      /\ PortsOf[j] = Elements(ports[j]) /\ ports[j] \in PortArrays
  BY DEF PortInv, PortsOf
<1>3. /\ PortsOf = [k \in PortIds |-> Elements(ports[k])]
      /\ PortsOf' = [k \in PortIds |-> Elements(ports'[k])]
  BY DEF PortsOf
<1>4. CASE MergePorts(i, j)
  <2> DEFINE p == merge_portsets(ports[i], ports[j])
  <2>1. p \in PortArrays /\ Elements(p) = PortsOf[i] \cup PortsOf[j]
    BY <1>2, PortsCombined
  <2>2. PortsBecome(i, p)
    BY <1>4 DEF MergePorts
  <2> HIDE DEF p
  <2>3. PortInv' /\ PortsOf' = [PortsOf EXCEPT ![i] = PortsOf[i] \cup PortsOf[j]]
    BY <2>1, <2>2, PortsBecomeIs
  <2>4. PortAbs!Unite(i, j)
    BY <1>3, <2>3 DEF PortAbs!Unite
  <2> QED
    BY <2>3, <2>4
<1>5. CASE CutPorts(i, j)
  <2> DEFINE p == cut_portsets(ports[i], ports[j])
  <2>1. p \in PortArrays /\ Elements(p) = PortsOf[i] \ PortsOf[j]
    BY <1>2, PortsCombined
  <2>2. PortsBecome(i, p)
    BY <1>5 DEF CutPorts
  <2> HIDE DEF p
  <2>3. PortInv' /\ PortsOf' = [PortsOf EXCEPT ![i] = PortsOf[i] \ PortsOf[j]]
    BY <2>1, <2>2, PortsBecomeIs
  <2>4. PortAbs!Subtract(i, j)
    BY <1>3, <2>3 DEF PortAbs!Subtract
  <2> QED
    BY <2>3, <2>4
<1>6. CASE ClonePorts(i, j)
  <2>1. PortInv' /\ PortsOf' = [PortsOf EXCEPT ![i] = PortsOf[j]]
    BY <1>2, <1>6, PortsBecomeIs DEF ClonePorts
  <2>2. PortAbs!Copy(i, j)
    BY <1>3, <2>1 DEF PortAbs!Copy
  <2> QED
    BY <2>1, <2>2
<1>7. CASE SwapPorts(i, j)
  <2>1. PortInv' /\ \A k \in PortIds : ports'[k] = IF k = j THEN ports[i] ELSE IF k = i THEN ports[j] ELSE ports[k]
    BY <1>2, <1>7 DEF SwapPorts, PortInv
  <2>2. PortsOf' = [PortsOf EXCEPT ![i] = PortsOf[j], ![j] = PortsOf[i]]
    <3>1. \A k \in PortIds : Elements(ports'[k]) = IF k = j THEN Elements(ports[i])
                                                   ELSE IF k = i THEN Elements(ports[j]) ELSE Elements(ports[k])
      BY <2>1
    <3>2. [PortsOf EXCEPT ![i] = PortsOf[j], ![j] = PortsOf[i]]
            = [k \in PortIds |-> IF k = j THEN Elements(ports[i])
                                 ELSE IF k = i THEN Elements(ports[j]) ELSE Elements(ports[k])]
      BY DEF PortsOf
    <3> QED
      BY <1>3, <3>1, <3>2
  <2>3. PortAbs!Swap(i, j)
    BY <1>3, <2>2 DEF PortAbs!Swap
  <2> QED
    BY <2>1, <2>3
<1>8. CASE FreePorts(i)
  <2>1. PortInv' /\ PortsOf' = [PortsOf EXCEPT ![i] = {}]
    BY <1>8, PortsAre, PortsBecomeIs DEF FreePorts
  <2>2. PortAbs!Clear(i)
    BY <1>3, <2>1 DEF PortAbs!Clear
  <2> QED
    BY <2>1, <2>2
<1>9. CASE ParsePorts(i)
  <2>1. PICK t \in PortTexts : PortsBecome(i, parse_portset(ports[i], t).set)
    BY <1>9 DEF ParsePorts
  <2> DEFINE p == parse_portset(ports[i], t).set
  <2>2. t \in PortText /\ Tame(t)
    BY PortTextsAssumption DEF PortText, PortItems, ZeroIsNeverAlone, Tame
  <2>3. p \in PortArrays /\ (p = <<>> \/ p = ports[i] \/ Elements(p) = PortDenotes(t))
    BY <1>2, <2>2, PortReadIs
  <2>4. PortsBecome(i, p)
    BY <2>1
  <2> HIDE DEF p
  <2>5. PortInv' /\ PortsOf' = [PortsOf EXCEPT ![i] = Elements(p)]
    BY <2>3, <2>4, PortsBecomeIs
  <2>6. CASE p = <<>>
    <3>1. PortAbs!Clear(i)
      BY <1>3, <2>5, <2>6, PortsAre DEF PortAbs!Clear
    <3> QED
      BY <2>5, <3>1
  <2>7. CASE p = ports[i]
    <3>1. PortsOf' = PortsOf
      BY <1>2, <1>3, <2>5, <2>7
    <3> QED
      BY <2>5, <3>1
  <2>8. CASE Elements(p) = PortDenotes(t)
    <3>1. PortAbs!Read(i)
      BY <1>3, <2>5, <2>8 DEF PortAbs!Read
    <3> QED
      BY <2>5, <3>1
  <2> QED
    BY <2>3, <2>6, <2>7, <2>8
<1> QED
  BY <1>1, <1>4, <1>5, <1>6, <1>7, <1>8, <1>9

LEMMA PortStutters ==
  ASSUME PortInv, UNCHANGED portvars
  PROVE  PortInv' /\ UNCHANGED PortsOf
BY DEF PortInv, PortsOf, portvars

LEMMA PortStart == PortInit => PortInv /\ PortAbs!Init
<1> SUFFICES ASSUME PortInit
             PROVE  PortInv /\ PortAbs!Init
  OBVIOUS
<1>1. PortInv
  BY PortsAre DEF PortInv, PortInit
<1>2. \A i \in PortIds : Elements(ports[i]) = {}
  BY PortsAre DEF PortInit
<1>3. [i \in PortIds |-> Elements(ports[i])] = [i \in PortIds |-> {}]
  BY <1>2
<1> QED
  BY <1>1, <1>3 DEF PortAbs!Init

\* Port sets are sets of ports, for every number of ports, as long as no text
\* tells port 0 from port 1 (with such a text it is false: portset.c:195): whatever
\* is merged, cut, copied, exchanged, read or freed, the ports change as the call
\* says, and all that is asked of the arrays is answered as the ports would.
THEOREM PortsCorrect == ZeroIsNeverAlone => (PortSpec => PortsAreSets)
<1> SUFFICES ASSUME ZeroIsNeverAlone
             PROVE  PortSpec => PortsAreSets
  OBVIOUS
<1>1. PortInit => PortInv /\ PortAbs!Init
  BY PortStart
<1>2. PortInv /\ [PortNext]_portvars => PortInv' /\ [PortAbs!Next]_PortsOf
  BY PortSteps, PortStutters
<1>3. PortInv /\ [PortNext]_portvars => PortInv' /\ [PortAbs!Next]_[i \in PortIds |-> Elements(ports[i])]
  BY <1>2 DEF PortsOf
<1>4. PortInv => PortQueries
  BY PortAnswers
<1> QED
  BY <1>1, <1>3, <1>4, PTL DEF PortSpec, PortsAreSets, PortAbs!Spec

-------------------------------------------------------------------------------
(* The netlink cache: Netlink.                                              *)

\* How often something stands in a sequence.
LEMMA TimesIs ==
  ASSUME NEW X, NEW s \in Seq(X), NEW x
  PROVE  /\ Times(s, x) \in Nat
         /\ Times(s, x) = 0 <=> \A k \in 1 .. Len(s) : s[k] # x
<1> DEFINE A == {k \in DOMAIN s : s[k] = x}
<1>1. DOMAIN s = 1 .. Len(s) /\ Len(s) \in Nat
  OBVIOUS
<1>2. IsFiniteSet(A)
  <2>1. IsFiniteSet(1 .. Len(s)) /\ A \in SUBSET (1 .. Len(s))
    BY <1>1, FS_Interval
  <2> QED
    BY <2>1, FS_Subset
<1>3. Cardinality(A) \in Nat /\ (Cardinality(A) = 0 <=> A = {})
  BY <1>2, FS_CardinalityType, FS_EmptySet
<1> QED
  BY <1>1, <1>3 DEF Times

LEMMA TimesNone ==
  ASSUME NEW x
  PROVE  Times(<<>>, x) = 0
<1>1. <<>> \in Seq({}) /\ Len(<<>>) = 0
  OBVIOUS
<1>2. \A k \in 1 .. 0 : <<>>[k] # x
  OBVIOUS
<1> QED
  BY <1>1, <1>2, TimesIs

LEMMA TimesOnce ==
  ASSUME NEW a, NEW x
  PROVE  Times(<<a>>, x) = IF x = a THEN 1 ELSE 0
<1> DEFINE A == {k \in DOMAIN <<a>> : <<a>>[k] = x}
<1>1. DOMAIN <<a>> = {1} /\ <<a>>[1] = a
  OBVIOUS
<1>2. A = IF x = a THEN {1} ELSE {}
  BY <1>1
<1>3. Cardinality({1}) = 1 /\ Cardinality({}) = 0
  BY FS_Singleton, FS_EmptySet
<1> QED
  BY <1>2, <1>3 DEF Times

LEMMA TimesBoth ==
  ASSUME NEW X, NEW s \in Seq(X), NEW t \in Seq(X), NEW x
  PROVE  Times(s \o t, x) = Times(s, x) + Times(t, x)
<1> DEFINE m == Len(s)
           n == Len(t)
           A == {k \in DOMAIN s : s[k] = x}
           B == {k \in DOMAIN t : t[k] = x}
           D == {k \in m + 1 .. m + n : (s \o t)[k] = x}
           C == {k \in DOMAIN (s \o t) : (s \o t)[k] = x}
           f == [k \in B |-> m + k]
<1>1. /\ m \in Nat /\ n \in Nat /\ DOMAIN s = 1 .. m /\ DOMAIN t = 1 .. n /\ DOMAIN (s \o t) = 1 .. m + n
      /\ \A i \in 1 .. m + n : (s \o t)[i] = IF i <= m THEN s[i] ELSE t[i - m]
  BY ConcatProperties, LenProperties
<1> HIDE DEF m, n
<1>2. IsFiniteSet(A) /\ IsFiniteSet(B) /\ IsFiniteSet(D)
  <2>1. IsFiniteSet(1 .. m) /\ IsFiniteSet(1 .. n) /\ IsFiniteSet(m + 1 .. m + n)
    BY <1>1, FS_Interval
  <2>2. A \in SUBSET (1 .. m) /\ B \in SUBSET (1 .. n) /\ D \in SUBSET (m + 1 .. m + n)
    BY <1>1
  <2> HIDE DEF A, B, D
  <2> QED
    BY <2>1, <2>2, FS_Subset
<1>3. C = A \cup D /\ A \cap D = {}
  <2>1. \A i \in 1 .. m : (s \o t)[i] = s[i]
    BY <1>1
  <2>2. 1 .. m + n = (1 .. m) \cup (m + 1 .. m + n) /\ (1 .. m) \cap (m + 1 .. m + n) = {}
    BY <1>1
  <2> QED
    BY <1>1, <2>1, <2>2
<1>4. f \in Bijection(B, D)
  <2>1. \A k \in B : m + k \in D
    <3> SUFFICES ASSUME NEW k \in B
                 PROVE  m + k \in D
      OBVIOUS
    <3>1. k \in 1 .. n /\ t[k] = x
      BY <1>1
    <3>2. m + k \in m + 1 .. m + n /\ ~(m + k <= m) /\ (m + k) - m = k /\ m + k \in 1 .. m + n
      BY <1>1, <3>1
    <3> QED
      BY <1>1, <3>1, <3>2
  <2>2. \A k \in D : k - m \in B /\ m + (k - m) = k
    <3> SUFFICES ASSUME NEW k \in D
                 PROVE  k - m \in B /\ m + (k - m) = k
      OBVIOUS
    <3>1. k \in m + 1 .. m + n /\ (s \o t)[k] = x
      OBVIOUS
    <3>2. k \in 1 .. m + n /\ ~(k <= m) /\ k - m \in 1 .. n /\ m + (k - m) = k
      BY <1>1, <3>1
    <3>3. t[k - m] = x
      BY <1>1, <3>1, <3>2
    <3> QED
      BY <1>1, <3>2, <3>3
  <2>3. \A j, k \in B : m + j = m + k => j = k
    BY <1>1
  <2>4. f \in [B -> D] /\ \A j \in B : f[j] = m + j
    BY <2>1
  <2>5. f \in Injection(B, D)
    BY <2>3, <2>4 DEF Injection, IsInjective
  <2>6. \A d \in D : \E b \in B : f[b] = d
    BY <2>2, <2>4
  <2> QED
    BY <2>4, <2>5, <2>6 DEF Bijection, Surjection
<1>5. Cardinality(B) = Cardinality(D)
  <2>1. ExistsBijection(B, D)
    BY <1>4 DEF ExistsBijection
  <2> QED
    BY <1>2, <2>1, FS_Bijection
<1>6. Cardinality(C) = Cardinality(A) + Cardinality(D)
  <2> HIDE DEF A, D, C
  <2>1. Cardinality(A \cup D) = Cardinality(A) + Cardinality(D) - Cardinality(A \cap D)
    BY <1>2, FS_Union
  <2>2. Cardinality({}) = 0 /\ Cardinality(A) \in Nat /\ Cardinality(D) \in Nat
    BY <1>2, FS_EmptySet, FS_CardinalityType
  <2>3. Cardinality(A \cap D) = Cardinality({}) /\ Cardinality(A \cup D) = Cardinality(C)
    BY <1>3, Zenon
  <2> QED
    BY <2>1, <2>2, <2>3
<1> QED
  BY <1>5, <1>6 DEF Times

\* A piece comes first.
LEMMA TimesFirst ==
  ASSUME NEW X, NEW n \in Nat, NEW q \in Seq(Seq(X)), Len(q) = n, NEW a \in Seq(X), NEW x
  PROVE  Times(FlattenSeq(<<a>> \o q), x) = Times(a, x) + Times(FlattenSeq(q), x)
<1> DEFINE r == <<a>> \o q
<1>1. /\ r \in [1 .. n + 1 -> Seq(X)] /\ Len(r) = n + 1 /\ r[1] = a
      /\ \A i \in 1 .. n : r[i + 1] = q[i]
  <2>1. <<a>> \in Seq(Seq(X)) /\ Len(<<a>>) = 1 /\ <<a>>[1] = a
    OBVIOUS
  <2>2. /\ r \in Seq(Seq(X)) /\ Len(r) = 1 + n
        /\ \A i \in 1 .. 1 + n : r[i] = IF i <= 1 THEN <<a>>[i] ELSE q[i - 1]
    BY <2>1, ConcatProperties
  <2>3. r \in [1 .. 1 + n -> Seq(X)]
    BY <2>2, LenProperties
  <2> HIDE DEF r
  <2> QED
    BY <2>1, <2>2, <2>3
<1> HIDE DEF r
<1>2. PICK g \in [1 .. n + 1 -> Seq(X)] : Pieces(g, r, n + 1)
  BY <1>1, FlattenIs
<1>3. g[1] = a /\ \A i \in 1 .. n : g[i + 1] = g[i] \o q[i]
  <2>1. \A i \in 1 .. n : i + 1 \in 2 .. n + 1 /\ (i + 1) - 1 = i
    OBVIOUS
  <2> QED
    BY <1>1, <1>2, <2>1 DEF Pieces
<1>4. FlattenSeq(r) = g[n + 1]
  BY <1>2 DEF Pieces
<1>5. CASE n = 0
  <2>1. FlattenSeq(q) = q /\ q = <<>>
    <3>1. q = <<>> /\ Len(q) = 0
      BY <1>5
    <3> QED
      BY <3>1 DEF FlattenSeq
  <2>2. Times(a, x) \in Nat
    BY TimesIs
  <2> QED
    BY <1>3, <1>4, <1>5, <2>1, <2>2, TimesNone DEF r
<1>6. CASE n # 0
  <2>1. q \in [1 .. n -> Seq(X)] /\ n \in Nat \ {0}
    BY <1>6, LenProperties
  <2>2. PICK f \in [1 .. n -> Seq(X)] : Pieces(f, q, n)
    BY <2>1, FlattenIs
  <2> DEFINE T == {i \in Nat : i + 1 <= n => Times(g[i + 2], x) = Times(a, x) + Times(f[i + 1], x)}
  <2>3. 0 \in T
    <3>1. g[2] = a \o q[1] /\ f[1] = q[1] /\ q[1] \in Seq(X)
      <4>1. 1 \in 1 .. n /\ 1 + 1 = 2
        BY <2>1
      <4> QED
        BY <1>3, <2>1, <2>2, <4>1 DEF Pieces
    <3>2. Times(g[2], x) = Times(a, x) + Times(f[1], x)
      BY <3>1, TimesBoth
    <3> QED
      BY <3>2
  <2>4. ASSUME NEW i \in 0 .. n - 1 - 1, i \in T
        PROVE  i + 1 \in T
    <3>1. /\ i \in Nat /\ i + 1 \in 1 .. n /\ i + 2 \in 1 .. n /\ i + 2 \in 1 .. n + 1 /\ i + 1 <= n
          /\ i + 2 \in 2 .. n /\ (i + 2) - 1 = i + 1 /\ (i + 2) + 1 = i + 3 /\ i + 3 \in 1 .. n + 1
          /\ (i + 1) + 2 = i + 3 /\ (i + 1) + 1 = i + 2
      BY <2>1
    <3>2. g[i + 3] = g[i + 2] \o q[i + 2] /\ f[i + 2] = f[i + 1] \o q[i + 2]
      BY <1>3, <2>2, <3>1 DEF Pieces
    <3>3. /\ g[i + 2] \in Seq(X) /\ q[i + 2] \in Seq(X) /\ f[i + 1] \in Seq(X)
      BY <2>1, <3>1
    <3>4. /\ Times(g[i + 3], x) = Times(g[i + 2], x) + Times(q[i + 2], x)
          /\ Times(f[i + 2], x) = Times(f[i + 1], x) + Times(q[i + 2], x)
          /\ Times(q[i + 2], x) \in Nat /\ Times(f[i + 1], x) \in Nat /\ Times(a, x) \in Nat
      <4>1. Times(g[i + 2] \o q[i + 2], x) = Times(g[i + 2], x) + Times(q[i + 2], x)
        BY <3>3, TimesBoth
      <4>2. Times(f[i + 1] \o q[i + 2], x) = Times(f[i + 1], x) + Times(q[i + 2], x)
        BY <3>3, TimesBoth
      <4>3. Times(q[i + 2], x) \in Nat /\ Times(f[i + 1], x) \in Nat /\ Times(a, x) \in Nat
        BY <3>3, TimesIs
      <4> QED
        BY <3>2, <4>1, <4>2, <4>3
    <3>5. Times(g[i + 2], x) = Times(a, x) + Times(f[i + 1], x)
      BY <2>4, <3>1
    <3>6. Times(g[i + 3], x) = Times(a, x) + Times(f[i + 2], x)
      BY <3>4, <3>5
    <3> QED
      BY <3>1, <3>6
  <2> HIDE DEF T
  <2>5. n - 1 \in T
    <3>1. n - 1 \in Nat
      BY <2>1
    <3>2. 0 .. n - 1 \subseteq T
      BY <2>3, <2>4, <3>1, CountUp
    <3> QED
      BY <3>1, <3>2
  <2>6. Times(g[n + 1], x) = Times(a, x) + Times(f[n], x)
    <3>1. (n - 1) + 2 = n + 1 /\ (n - 1) + 1 = n /\ n <= n
      BY <2>1
    <3> QED
      BY <2>5, <3>1 DEF T
  <2> QED
    BY <1>4, <2>2, <2>6 DEF Pieces, r
<1> QED
  BY <1>5, <1>6

\* A member is added to one piece.
SameBut(q, r, X, n, j) ==
  /\ n \in Nat \ {0} /\ q \in [1 .. n -> Seq(X)] /\ r \in [1 .. n -> Seq(X)]
  /\ j \in 1 .. n /\ \A i \in 1 .. n : i # j => r[i] = q[i]

LEMMA TimesWithin ==
  ASSUME NEW X, NEW n, NEW q, NEW r, NEW j, SameBut(q, r, X, n, j), NEW x, NEW d \in Nat,
         Times(r[j], x) = Times(q[j], x) + d
  PROVE  Times(FlattenSeq(r), x) = Times(FlattenSeq(q), x) + d
<1>b. /\ n \in Nat \ {0} /\ q \in [1 .. n -> Seq(X)] /\ r \in [1 .. n -> Seq(X)] /\ j \in 1 .. n
  BY DEF SameBut
<1> USE <1>b
<1>1. PICK f \in [1 .. n -> Seq(X)] : Pieces(f, q, n)
  BY FlattenIs
<1>2. PICK g \in [1 .. n -> Seq(X)] : Pieces(g, r, n)
  BY FlattenIs
<1> DEFINE D(i) == IF j <= i THEN d ELSE 0
           T == {i \in Nat : i + 1 <= n => Times(g[i + 1], x) = Times(f[i + 1], x) + D(i + 1)}
<1>3. \A i \in 1 .. n : Times(q[i], x) \in Nat /\ Times(f[i], x) \in Nat
  BY TimesIs
<1>a. \A i \in 1 .. n : i # j => r[i] = q[i]
  BY DEF SameBut
<1>0. \A s, t \in Seq(X) : Times(s \o t, x) = Times(s, x) + Times(t, x)
  BY TimesBoth
<1>4. 0 \in T
  <2>1. f[1] = q[1] /\ g[1] = r[1] /\ 1 \in 1 .. n
    BY <1>1, <1>2 DEF Pieces
  <2>2. CASE j = 1
    BY <2>1, <2>2
  <2>3. CASE j # 1
    <3>1. ~(j <= 1)
      BY <2>3
    <3> QED
      BY <1>3, <1>a, <2>1, <2>3, <3>1
  <2> QED
    BY <2>2, <2>3
<1>5. ASSUME NEW i \in 0 .. n - 1 - 1, i \in T
      PROVE  i + 1 \in T
  <2>1. /\ i \in Nat /\ i + 1 \in 1 .. n /\ i + 2 \in 1 .. n /\ i + 1 <= n
        /\ i + 2 \in 2 .. n /\ (i + 2) - 1 = i + 1 /\ (i + 1) + 1 = i + 2
    OBVIOUS
  <2>2. g[i + 2] = g[i + 1] \o r[i + 2] /\ f[i + 2] = f[i + 1] \o q[i + 2]
    BY <1>1, <1>2, <2>1 DEF Pieces
  <2>3. /\ Times(g[i + 2], x) = Times(g[i + 1], x) + Times(r[i + 2], x)
        /\ Times(f[i + 2], x) = Times(f[i + 1], x) + Times(q[i + 2], x)
    <3>1. g[i + 1] \in Seq(X) /\ f[i + 1] \in Seq(X) /\ q[i + 2] \in Seq(X) /\ r[i + 2] \in Seq(X)
      BY <2>1
    <3>2. Times(g[i + 1] \o r[i + 2], x) = Times(g[i + 1], x) + Times(r[i + 2], x)
      BY <1>0, <3>1
    <3>3. Times(f[i + 1] \o q[i + 2], x) = Times(f[i + 1], x) + Times(q[i + 2], x)
      BY <1>0, <3>1
    <3> QED
      BY <2>2, <3>2, <3>3
  <2>4. Times(g[i + 1], x) = Times(f[i + 1], x) + D(i + 1)
    BY <1>5, <2>1
  <2>5. CASE i + 2 = j
    <3>1. D(i + 1) = 0 /\ D(i + 2) = d
      BY <2>1, <2>5
    <3> HIDE DEF D
    <3>2. Times(r[i + 2], x) = Times(q[i + 2], x) + d
      BY <2>5, Zenon
    <3>3. Times(q[i + 2], x) \in Nat /\ Times(f[i + 1], x) \in Nat
      BY <1>3, <2>1
    <3>4. Times(g[i + 2], x) = Times(f[i + 2], x) + D(i + 2)
      BY <2>3, <2>4, <3>1, <3>2, <3>3
    <3> QED
      BY <2>1, <3>4
  <2>6. CASE i + 2 # j
    <3>1. Times(q[i + 2], x) \in Nat /\ Times(f[i + 1], x) \in Nat
      BY <1>3, <2>1
    <3>2. r[i + 2] = q[i + 2]
      BY <1>a, <2>1, <2>6
    <3>3. CASE j <= i + 1
      <4>1. D(i + 1) = d /\ D(i + 2) = d
        BY <2>1, <3>3
      <4> HIDE DEF D
      <4>2. Times(g[i + 2], x) = Times(f[i + 2], x) + d
        BY <2>3, <2>4, <3>1, <3>2, <4>1
      <4> QED
        BY <2>1, <4>1, <4>2
    <3>4. CASE ~(j <= i + 1)
      <4>1. D(i + 1) = 0 /\ D(i + 2) = 0
        BY <2>1, <2>6, <3>4
      <4> HIDE DEF D
      <4>2. Times(g[i + 2], x) = Times(f[i + 2], x) + 0
        BY <2>3, <2>4, <3>1, <3>2, <4>1
      <4> QED
        BY <2>1, <4>1, <4>2
    <3> QED
      BY <3>3, <3>4
  <2> QED
    BY <2>5, <2>6
<1> HIDE DEF T
<1>6. n - 1 \in T
  <2>1. n - 1 \in Nat
    OBVIOUS
  <2>2. 0 .. n - 1 \subseteq T
    BY <1>4, <1>5, <2>1, CountUp
  <2> QED
    BY <2>1, <2>2
<1>7. Times(g[n], x) = Times(f[n], x) + D(n)
  <2>1. (n - 1) + 1 = n /\ n <= n
    OBVIOUS
  <2> QED
    BY <1>6, <2>1 DEF T
<1> QED
  BY <1>1, <1>2, <1>7 DEF Pieces

\* What stands in the pieces stands in the whole.
LEMMA FlattenHolds ==
  ASSUME NEW X, NEW q \in Seq(Seq(X))
  PROVE  /\ FlattenSeq(q) \in Seq(X)
         /\ \A x : (\E k \in DOMAIN FlattenSeq(q) : FlattenSeq(q)[k] = x)
                   <=> \E i \in DOMAIN q : \E k \in DOMAIN q[i] : q[i][k] = x
<1>1. CASE Len(q) = 0
  <2>1. FlattenSeq(q) = q /\ q = <<>> /\ DOMAIN q = {}
    BY <1>1 DEF FlattenSeq
  <2> QED
    BY <2>1
<1>2. CASE Len(q) # 0
  <2> DEFINE n == Len(q)
             In(s, x) == \E k \in DOMAIN s : s[k] = x
  <2>1. n \in Nat \ {0} /\ q \in [1 .. n -> Seq(X)] /\ DOMAIN q = 1 .. n
    BY <1>2, LenProperties
  <2> HIDE DEF n
  <2>2. PICK f \in [1 .. n -> Seq(X)] : Pieces(f, q, n)
    BY <2>1, FlattenIs
  <2>3. \A s, t \in Seq(X) : \A x : In(s \o t, x) <=> In(s, x) \/ In(t, x)
    <3> SUFFICES ASSUME NEW s \in Seq(X), NEW t \in Seq(X), NEW x
                 PROVE  In(s \o t, x) <=> In(s, x) \/ In(t, x)
      OBVIOUS
    <3>1. /\ Len(s) \in Nat /\ Len(t) \in Nat /\ DOMAIN s = 1 .. Len(s) /\ DOMAIN t = 1 .. Len(t)
          /\ DOMAIN (s \o t) = 1 .. Len(s) + Len(t)
          /\ \A i \in 1 .. Len(s) + Len(t) : (s \o t)[i] = IF i <= Len(s) THEN s[i] ELSE t[i - Len(s)]
      BY ConcatProperties, LenProperties
    <3>2. ASSUME In(s \o t, x)
          PROVE  In(s, x) \/ In(t, x)
      <4>1. PICK k \in 1 .. Len(s) + Len(t) : (s \o t)[k] = x
        BY <3>1, <3>2
      <4>2. CASE k <= Len(s)
        <5>1. k \in DOMAIN s /\ s[k] = x
          BY <3>1, <4>1, <4>2
        <5> QED
          BY <5>1
      <4>3. CASE ~(k <= Len(s))
        <5>1. k - Len(s) \in DOMAIN t /\ t[k - Len(s)] = x
          BY <3>1, <4>1, <4>3
        <5> QED
          BY <5>1
      <4> QED
        BY <4>2, <4>3
    <3>3. ASSUME In(s, x)
          PROVE  In(s \o t, x)
      <4>1. PICK k \in 1 .. Len(s) : s[k] = x
        BY <3>1, <3>3
      <4>2. k \in 1 .. Len(s) + Len(t) /\ (s \o t)[k] = x
        BY <3>1, <4>1
      <4> QED
        BY <3>1, <4>2
    <3>4. ASSUME In(t, x)
          PROVE  In(s \o t, x)
      <4>1. PICK k \in 1 .. Len(t) : t[k] = x
        BY <3>1, <3>4
      <4>2. Len(s) + k \in 1 .. Len(s) + Len(t) /\ (s \o t)[Len(s) + k] = x
        BY <3>1, <4>1
      <4> QED
        BY <3>1, <4>2
    <3> HIDE DEF In
    <3> QED
      BY <3>2, <3>3, <3>4
  <2> HIDE DEF In
  <2> DEFINE T == {m \in Nat : m + 1 <= n => \A x : In(f[m + 1], x) <=> \E i \in 1 .. m + 1 : In(q[i], x)}
  <2>4. 0 \in T
    <3>1. f[1] = q[1] /\ 1 .. 1 = {1}
      BY <2>2 DEF Pieces
    <3> QED
      BY <3>1
  <2>5. ASSUME NEW m \in 0 .. n - 1 - 1, m \in T
        PROVE  m + 1 \in T
    <3>1. /\ m \in Nat /\ m + 1 \in 1 .. n /\ m + 2 \in 1 .. n /\ m + 1 <= n
          /\ m + 2 \in 2 .. n /\ (m + 2) - 1 = m + 1 /\ (m + 1) + 1 = m + 2
          /\ 1 .. m + 2 = (1 .. m + 1) \cup {m + 2}
      BY <2>1
    <3>2. f[m + 2] = f[m + 1] \o q[m + 2]
      BY <2>2, <3>1 DEF Pieces
    <3>3. f[m + 1] \in Seq(X) /\ q[m + 2] \in Seq(X)
      BY <2>1, <3>1
    <3>4. \A x : In(f[m + 2], x) <=> In(f[m + 1], x) \/ In(q[m + 2], x)
      BY <2>3, <3>2, <3>3
    <3>5. \A x : In(f[m + 1], x) <=> \E i \in 1 .. m + 1 : In(q[i], x)
      BY <2>5, <3>1
    <3>6. \A x : In(f[m + 2], x) <=> \E i \in 1 .. m + 2 : In(q[i], x)
      BY <3>1, <3>4, <3>5
    <3> QED
      BY <3>1, <3>6
  <2> HIDE DEF T
  <2>6. n - 1 \in T
    <3>1. n - 1 \in Nat
      BY <2>1
    <3>2. 0 .. n - 1 \subseteq T
      BY <2>4, <2>5, <3>1, CountUp
    <3> QED
      BY <3>1, <3>2
  <2>7. \A x : In(f[n], x) <=> \E i \in 1 .. n : In(q[i], x)
    <3>1. (n - 1) + 1 = n /\ n <= n
      BY <2>1
    <3> QED
      BY <2>6, <3>1 DEF T
  <2>8. f[n] \in Seq(X) /\ FlattenSeq(q) = f[n]
    BY <2>1, <2>2 DEF Pieces
  <2>9. \A x : In(FlattenSeq(q), x) <=> \E i \in DOMAIN q : In(q[i], x)
    BY <2>1, <2>7, <2>8
  <2> QED
    BY <2>8, <2>9 DEF In
<1> QED
  BY <1>1, <1>2

\* A block of numbers is what one quotient has.
LEMMA BlockIs ==
  ASSUME NEW p \in Nat \ {0}, NEW a \in Nat, NEW b \in Nat, a % p = 0
  PROVE  a <= b /\ b <= a + p - 1 <=> b \div p = a \div p
<1> DEFINE A == a \div p
           B == b \div p
           e == b % p
<1>1. A \in Nat /\ B \in Nat /\ e \in 0 .. p - 1 /\ b = B * p + e /\ a = A * p
  <2>1. A \in Nat /\ a % p \in 0 .. p - 1 /\ a = A * p + (a % p)
    BY Divided
  <2>2. B \in Nat /\ e \in 0 .. p - 1 /\ b = B * p + e
    BY Divided
  <2>3. A * p \in Nat /\ A * p + 0 = A * p
    BY <2>1
  <2> HIDE DEF A, B, e
  <2> QED
    BY <2>1, <2>2, <2>3
<1> HIDE DEF A, B, e
<1>2. A * p \in Nat /\ B * p \in Nat
  BY <1>1
<1>3. CASE A = B
  BY <1>1, <1>2, <1>3
<1>4. CASE B < A
  <2>1. B * p + p <= A * p
    BY <1>1, <1>4, Scaled
  <2> QED
    BY <1>1, <1>2, <1>4, <2>1
<1>5. CASE A < B
  <2>1. A * p + p <= B * p
    BY <1>1, <1>5, Scaled
  <2> QED
    BY <1>1, <1>2, <1>5, <2>1
<1>6. a <= b /\ b <= a + p - 1 <=> B = A
  BY <1>1, <1>3, <1>4, <1>5
<1> QED
  BY <1>6 DEF A, B

\* The parts of a dump, the interfaces and the lines of the print-out.
NlLinks == [what : {"link"}, idx : Nat \ {0}, mtu : Nat, was : Addrs]
NlNeighs == [what : {"neigh"}, idx : Nat \ {0}, lllen : Nat]
NlRoutes == {r \in [what : {"route"}, oif : Nat, dst : Addrs, bits : 0 .. Bits,
                    src : Addrs, sbits : 0 .. Bits, table : STRING, type : STRING] :
               r.dst % 2 ^ (Bits - r.bits) = 0 /\ r.src % 2 ^ (Bits - r.sbits) = 0}
NlParts == NlLinks \cup NlNeighs \cup NlRoutes
NlKept == [dst : Addrs, src : Addrs, bits : 0 .. Bits, table : STRING, type : STRING]
NlNics == [idx : Nat \ {0}, mtu : Nat, srcaddr : Addrs, routes : Seq(NlKept), neighbors : Seq(NlNeighs)]
NlLines == [idx : Nat, mtu : Nat] \cup [idx : Nat, route : NlKept] \cup [idx : Nat, neigh : NlNeighs]

\* What is divided by a multiple is divided by what it is a multiple of.
LEMMA DividesOn ==
  ASSUME NEW a \in Nat, NEW p \in Nat \ {0}, NEW h \in Nat \ {0}, a % p = 0, p % h = 0
  PROVE  a % h = 0
<1>1. PICK u \in Nat : a = u * p
  <2>1. a \div p \in Nat /\ a = (a \div p) * p + 0
    BY Divided
  <2> QED
    BY <2>1
<1>2. PICK v \in Nat : p = v * h
  <2>1. p \div h \in Nat /\ p = (p \div h) * h + 0
    BY Divided
  <2> QED
    BY <2>1
<1>3. a = (u * v) * h /\ u * v \in Nat
  BY <1>1, <1>2
<1>4. \A n \in Nat : (n * h) % h = 0
  OBVIOUS
<1> QED
  BY <1>3, <1>4

\* Of an address without bits below its prefix nothing is lost.
LEMMA CopiedIs ==
  ASSUME NEW a \in Addrs, NEW bits \in 0 .. Bits, a % 2 ^ (Bits - bits) = 0
  PROVE  Copied(a, bits) = a
<1> DEFINE c == Bits \div 2
           p == 2 ^ (Bits - bits)
           bytes == (bits + c - 1) \div c
<1>1. c \in Nat \ {0} /\ Bits = 2 * c /\ Bits \in Nat /\ Half \in Nat \ {0} /\ a \in Nat
  <2>1. Bits \in Nat /\ Bits = 2 * (Bits \div 2) /\ Bits \div 2 > 0 /\ Half \in Nat \ {0}
    BY IpAssumption, NetlinkAssumption
  <2> QED
    BY <2>1, AddrsAre
<1>2. p \in Nat \ {0} /\ a % p = 0
  <2>1. Bits - bits \in 0 .. Bits
    BY <1>1
  <2> QED
    BY <2>1, IpAssumption
<1>3. \A b \in c .. Bits : 2 ^ b % Half = 0
  BY NetlinkAssumption
<1>4. /\ Half ^ 0 = 1 /\ Half ^ 1 = Half /\ Half ^ 2 = Half * Half /\ 2 ^ Bits = Half * Half
  BY IpAssumption, NetlinkAssumption
<1> HIDE DEF c
<1>5. CASE bits = 0
  <2>1. bytes = 0
    <3>1. 0 + c - 1 = c - 1 /\ c - 1 \in 0 .. c - 1
      BY <1>1
    <3>2. \A n \in 0 .. c - 1 : n \div c = 0
      BY <1>1
    <3> QED
      BY <1>5, <3>1, <3>2
  <2>2. p = Half * Half /\ Half ^ (2 - bytes) = Half * Half
    BY <1>1, <1>4, <1>5, <2>1
  <2>3. a % (Half ^ (2 - bytes)) = 0
    BY <1>2, <2>2
  <2> QED
    BY <1>1, <2>3 DEF Copied, c
<1>6. CASE bits \in 1 .. c
  <2>1. bytes = 1
    <3>1. PICK d \in 0 .. c - 1 : bits = d + 1
      BY <1>1, <1>6
    <3>2. bits + c - 1 = 1 * c + d
      BY <1>1, <3>1
    <3>3. \A n \in 0 .. c - 1 : (1 * c + n) \div c = 1
      BY <1>1
    <3> QED
      BY <3>2, <3>3
  <2>2. Bits - bits \in c .. Bits
    BY <1>1, <1>6
  <2>3. p % Half = 0 /\ Half ^ (2 - bytes) = Half
    BY <1>3, <1>4, <2>1, <2>2
  <2>4. a % Half = 0
    <3> HIDE DEF p
    <3> QED
      BY <1>1, <1>2, <2>3, DividesOn
  <2>5. a % (Half ^ (2 - bytes)) = 0
    BY <2>3, <2>4
  <2> QED
    BY <1>1, <2>5 DEF Copied, c
<1>7. CASE bits \in c + 1 .. Bits
  <2>1. bytes = 2
    <3>1. PICK d \in 0 .. c - 1 : bits = c + d + 1
      <4>1. bits - c - 1 \in 0 .. c - 1 /\ bits = c + (bits - c - 1) + 1
        BY <1>1, <1>7
      <4> QED
        BY <4>1
    <3>2. bits + c - 1 = 2 * c + d
      BY <1>1, <3>1
    <3>3. \A n \in 0 .. c - 1 : (2 * c + n) \div c = 2
      BY <1>1
    <3> QED
      BY <3>2, <3>3
  <2>2. Half ^ (2 - bytes) = 1
    BY <1>4, <2>1
  <2>3. a % (Half ^ (2 - bytes)) = 0
    BY <1>1, <2>2
  <2> QED
    BY <1>1, <2>3 DEF Copied, c
<1> QED
  BY <1>1, <1>5, <1>6, <1>7

\* A route is kept as it was told.
LEMMA KeptIs ==
  ASSUME NEW r \in NlRoutes
  PROVE  /\ create_route(r) = [dst |-> r.dst, src |-> r.src, bits |-> r.bits, table |-> r.table, type |-> r.type]
         /\ create_route(r) \in NlKept
         /\ Hint(r) = r.src
         /\ iprange(create_route(r)) \in IpRanges
         /\ \A ip \in Addrs : ip_in_range(iprange(create_route(r)), ip) <=> Covers(r, ip)
<1>1. /\ r.dst \in Addrs /\ r.src \in Addrs /\ r.bits \in 0 .. Bits /\ r.sbits \in 0 .. Bits
      /\ r.table \in STRING /\ r.type \in STRING
      /\ r.dst % 2 ^ (Bits - r.bits) = 0 /\ r.src % 2 ^ (Bits - r.sbits) = 0
  BY DEF NlRoutes
<1>2. create_route(r) = [dst |-> r.dst, src |-> r.src, bits |-> r.bits, table |-> r.table, type |-> r.type]
  BY <1>1, CopiedIs DEF create_route
<1>3. /\ Bits \in Nat /\ r.dst \in Nat /\ r.src \in Nat
      /\ 2 ^ (Bits - r.bits) \in Nat \ {0} /\ 2 ^ (Bits - r.sbits) \in Nat \ {0}
  <2>1. Bits \in Nat
    BY IpAssumption
  <2>2. Bits - r.bits \in 0 .. Bits /\ Bits - r.sbits \in 0 .. Bits
    BY <1>1, <2>1
  <2>3. \A b \in 0 .. Bits : 2 ^ b \in Nat \ {0}
    BY IpAssumption
  <2>4. r.dst \in Nat /\ r.src \in Nat
    BY <1>1, AddrsAre
  <2> QED
    BY <2>1, <2>2, <2>3, <2>4
<1>4. Hint(r) = r.src
  <2> DEFINE p == 2 ^ (Bits - r.sbits)
  <2>1. r.src \div p \in Nat /\ r.src = (r.src \div p) * p + (r.src % p)
    BY <1>3, Divided
  <2>2. r.src = (r.src \div p) * p
    <3> HIDE DEF p
    <3>1. (r.src \div p) * p \in Nat
      BY <1>3, <2>1 DEF p
    <3>2. r.src % p = 0
      BY <1>1 DEF p
    <3> QED
      BY <2>1, <3>1, <3>2
  <2> QED
    BY <2>2 DEF Hint
<1>5. iprange(create_route(r)) = iprange_from_route(r.dst, r.bits)
  BY <1>2 DEF iprange
<1>6. iprange(create_route(r)) \in IpRanges
  BY <1>1, <1>5, RouteIs
<1>7. ASSUME NEW ip \in Addrs
      PROVE  ip_in_range(iprange(create_route(r)), ip) <=> Covers(r, ip)
  <2> DEFINE p == 2 ^ (Bits - r.bits)
  <2>1. iprange_from_route(r.dst, r.bits) = [lower |-> r.dst, upper |-> r.dst + p - 1]
    <3>1. r.dst - (r.dst % p) = r.dst
      BY <1>1, <1>3
    <3> QED
      BY <3>1 DEF iprange_from_route
  <2>2. ip \in Nat
    BY AddrsAre
  <2>3. r.dst <= ip /\ ip <= r.dst + p - 1 <=> ip \div p = r.dst \div p
    <3>1. p \in Nat \ {0} /\ r.dst \in Nat /\ r.dst % p = 0
      BY <1>1, <1>3
    <3> HIDE DEF p
    <3> QED
      BY <2>2, <3>1, BlockIs
  <2>4. ip_in_range(iprange(create_route(r)), ip) <=> r.dst <= ip /\ ip <= r.dst + p - 1
    <3>1. p \in Nat
      BY <1>3
    <3> HIDE DEF p
    <3> QED
      BY <1>3, <1>5, <2>1, <2>2, <3>1 DEF ip_in_range
  <2> QED
    BY <2>3, <2>4 DEF Covers
<1>8. create_route(r) \in NlKept
  BY <1>1, <1>2 DEF NlKept
<1> QED
  BY <1>2, <1>4, <1>6, <1>7, <1>8

\* The lines of an interface, and the line of a part.
RouteLines(nic) == [k \in DOMAIN nic.routes |-> [idx |-> nic.idx, route |-> nic.routes[k]]]
NeighLines(nic) == [k \in DOMAIN nic.neighbors |-> [idx |-> nic.idx, neigh |-> nic.neighbors[k]]]
NicLine(nic) == [idx |-> nic.idx, mtu |-> nic.mtu]

LEMMA NicLinesAre ==
  ASSUME NEW nic \in NlNics
  PROVE  /\ stringize_nic(nic) \in Seq(NlLines)
         /\ RouteLines(nic) \in Seq(NlLines) /\ NeighLines(nic) \in Seq(NlLines)
         /\ \A x : Times(stringize_nic(nic), x) =
                     (IF x = NicLine(nic) THEN 1 ELSE 0) + Times(RouteLines(nic), x) + Times(NeighLines(nic), x)
         /\ \A x : (\E k \in DOMAIN stringize_nic(nic) : stringize_nic(nic)[k] = x) <=>
                      \/ x = NicLine(nic)
                      \/ \E k \in DOMAIN nic.routes : x = [idx |-> nic.idx, route |-> nic.routes[k]]
                      \/ \E k \in DOMAIN nic.neighbors : x = [idx |-> nic.idx, neigh |-> nic.neighbors[k]]
<1> DEFINE a == <<NicLine(nic)>>
           b == RouteLines(nic)
           c == NeighLines(nic)
           m == Len(nic.routes)
           n == Len(nic.neighbors)
<1>1. /\ nic.idx \in Nat /\ nic.mtu \in Nat /\ nic.routes \in Seq(NlKept) /\ nic.neighbors \in Seq(NlNeighs)
  BY DEF NlNics
<1>2. /\ m \in Nat /\ DOMAIN nic.routes = 1 .. m /\ \A k \in 1 .. m : nic.routes[k] \in NlKept
      /\ n \in Nat /\ DOMAIN nic.neighbors = 1 .. n /\ \A k \in 1 .. n : nic.neighbors[k] \in NlNeighs
  BY <1>1
<1> HIDE DEF m, n
<1>3. b \in Seq(NlLines) /\ Len(b) = m
  <2>1. \A k \in 1 .. m : [idx |-> nic.idx, route |-> nic.routes[k]] \in NlLines
    BY <1>1, <1>2 DEF NlLines
  <2> QED
    BY <1>2, <2>1 DEF RouteLines
<1>4. c \in Seq(NlLines) /\ Len(c) = n
  <2>1. \A k \in 1 .. n : [idx |-> nic.idx, neigh |-> nic.neighbors[k]] \in NlLines
    BY <1>1, <1>2 DEF NlLines
  <2> QED
    BY <1>2, <2>1 DEF NeighLines
<1>5. a \in Seq(NlLines) /\ Len(a) = 1 /\ a[1] = NicLine(nic)
  <2>1. NicLine(nic) \in NlLines
    BY <1>1 DEF NlLines, NicLine
  <2> QED
    BY <2>1
<1>6. stringize_nic(nic) = a \o b \o c
  BY DEF stringize_nic, NicLine, RouteLines, NeighLines
<1>7. /\ \A k \in 1 .. m : b[k] = [idx |-> nic.idx, route |-> nic.routes[k]]
      /\ \A k \in 1 .. n : c[k] = [idx |-> nic.idx, neigh |-> nic.neighbors[k]]
  BY <1>2 DEF RouteLines, NeighLines
<1> HIDE DEF a, b, c
<1>8. a \o b \in Seq(NlLines) /\ (a \o b) \o c \in Seq(NlLines)
  BY <1>3, <1>4, <1>5
<1>9. ASSUME NEW x
      PROVE  Times(stringize_nic(nic), x) = (IF x = NicLine(nic) THEN 1 ELSE 0) + Times(b, x) + Times(c, x)
  <2>1. Times(a, x) = IF x = NicLine(nic) THEN 1 ELSE 0
    BY TimesOnce DEF a
  <2>2. Times(a \o b, x) = Times(a, x) + Times(b, x)
    BY <1>3, <1>5, TimesBoth
  <2>3. Times((a \o b) \o c, x) = Times(a \o b, x) + Times(c, x)
    BY <1>4, <1>8, TimesBoth
  <2> QED
    BY <1>6, <2>1, <2>2, <2>3
<1> DEFINE d == stringize_nic(nic)
<1>10. /\ DOMAIN d = 1 .. 1 + m + n
       /\ d[1] = NicLine(nic)
       /\ \A k \in 1 .. m : d[1 + k] = b[k]
       /\ \A k \in 1 .. n : d[1 + m + k] = c[k]
  <2>1. /\ Len(a \o b) = 1 + m
        /\ \A k \in 1 .. 1 + m : (a \o b)[k] = IF k <= 1 THEN a[k] ELSE b[k - 1]
    <3>1. /\ Len(a \o b) = Len(a) + Len(b)
          /\ \A k \in 1 .. Len(a) + Len(b) : (a \o b)[k] = IF k <= Len(a) THEN a[k] ELSE b[k - Len(a)]
      BY <1>3, <1>5, ConcatProperties
    <3> QED
      BY <1>3, <1>5, <3>1
  <2>2. /\ Len((a \o b) \o c) = 1 + m + n
        /\ \A k \in 1 .. 1 + m + n :
             ((a \o b) \o c)[k] = IF k <= 1 + m THEN (a \o b)[k] ELSE c[k - (1 + m)]
    <3> DEFINE e == a \o b
    <3>1. e \in Seq(NlLines) /\ Len(e) = 1 + m
      BY <1>8, <2>1
    <3> HIDE DEF e
    <3>2. /\ Len(e \o c) = Len(e) + Len(c)
          /\ \A k \in 1 .. Len(e) + Len(c) : (e \o c)[k] = IF k <= Len(e) THEN e[k] ELSE c[k - Len(e)]
      BY <1>4, <3>1, ConcatProperties
    <3>3. /\ Len(e \o c) = 1 + m + n
          /\ \A k \in 1 .. 1 + m + n : (e \o c)[k] = IF k <= 1 + m THEN e[k] ELSE c[k - (1 + m)]
      BY <1>4, <3>1, <3>2
    <3> QED
      BY <3>3 DEF e
  <2>3. d = (a \o b) \o c
    BY <1>6
  <2> HIDE DEF d
  <2>4. DOMAIN d = 1 .. 1 + m + n
    BY <1>8, <2>2, <2>3, LenProperties
  <2>5. d[1] = NicLine(nic)
    BY <1>2, <1>5, <2>1, <2>2, <2>3
  <2>6. \A k \in 1 .. m : d[1 + k] = b[k]
    <3> SUFFICES ASSUME NEW k \in 1 .. m
                 PROVE  d[1 + k] = b[k]
      OBVIOUS
    <3>1. /\ 1 + k \in 1 .. 1 + m + n /\ 1 + k <= 1 + m /\ 1 + k \in 1 .. 1 + m /\ ~(1 + k <= 1)
          /\ (1 + k) - 1 = k
      BY <1>2
    <3>2. d[1 + k] = (a \o b)[1 + k]
      BY <2>2, <2>3, <3>1
    <3> QED
      BY <2>1, <3>1, <3>2
  <2>7. \A k \in 1 .. n : d[1 + m + k] = c[k]
    BY <1>2, <2>2, <2>3
  <2> QED
    BY <2>4, <2>5, <2>6, <2>7
<1> HIDE DEF d
<1>11. ASSUME NEW x
       PROVE  (\E k \in DOMAIN d : d[k] = x) <=>
                 \/ x = NicLine(nic)
                 \/ \E k \in 1 .. m : x = b[k]
                 \/ \E k \in 1 .. n : x = c[k]
  <2>1. ASSUME NEW k \in DOMAIN d, d[k] = x
        PROVE  x = NicLine(nic) \/ (\E j \in 1 .. m : x = b[j]) \/ \E j \in 1 .. n : x = c[j]
    <3>1. k \in 1 .. 1 + m + n
      BY <1>10, <2>1
    <3>2. CASE k = 1
      BY <1>10, <2>1, <3>2
    <3>3. CASE k \in 2 .. 1 + m
      <4>1. k - 1 \in 1 .. m /\ k = 1 + (k - 1)
        BY <1>2, <3>3
      <4> QED
        BY <1>10, <2>1, <4>1
    <3>4. CASE k \in 2 + m .. 1 + m + n
      <4>1. k - 1 - m \in 1 .. n /\ k = 1 + m + (k - 1 - m)
        BY <1>2, <3>4
      <4> QED
        BY <1>10, <2>1, <4>1
    <3> QED
      BY <1>2, <3>1, <3>2, <3>3, <3>4
  <2>2. ASSUME x = NicLine(nic)
        PROVE  \E k \in DOMAIN d : d[k] = x
    BY <1>2, <1>10, <2>2
  <2>3. ASSUME NEW k \in 1 .. m, x = b[k]
        PROVE  \E j \in DOMAIN d : d[j] = x
    <3>1. 1 + k \in DOMAIN d /\ d[1 + k] = x
      BY <1>2, <1>10, <2>3
    <3> QED
      BY <3>1
  <2>4. ASSUME NEW k \in 1 .. n, x = c[k]
        PROVE  \E j \in DOMAIN d : d[j] = x
    <3>1. 1 + m + k \in DOMAIN d /\ d[1 + m + k] = x
      BY <1>2, <1>10, <2>4
    <3> QED
      BY <3>1
  <2> QED
    BY <2>1, <2>2, <2>3, <2>4
<1>12. \A x : (\E k \in DOMAIN d : d[k] = x) <=>
                 \/ x = NicLine(nic)
                 \/ \E k \in DOMAIN nic.routes : x = [idx |-> nic.idx, route |-> nic.routes[k]]
                 \/ \E k \in DOMAIN nic.neighbors : x = [idx |-> nic.idx, neigh |-> nic.neighbors[k]]
  <2> SUFFICES ASSUME NEW x
               PROVE  (\E k \in DOMAIN d : d[k] = x) <=>
                        \/ x = NicLine(nic)
                        \/ \E k \in 1 .. m : x = [idx |-> nic.idx, route |-> nic.routes[k]]
                        \/ \E k \in 1 .. n : x = [idx |-> nic.idx, neigh |-> nic.neighbors[k]]
    BY <1>2
  <2>1. (\E k \in 1 .. m : x = b[k]) <=> \E k \in 1 .. m : x = [idx |-> nic.idx, route |-> nic.routes[k]]
    BY <1>7
  <2>2. (\E k \in 1 .. n : x = c[k]) <=> \E k \in 1 .. n : x = [idx |-> nic.idx, neigh |-> nic.neighbors[k]]
    BY <1>7
  <2> QED
    BY <1>11, <2>1, <2>2, Zenon
<1>13. \A x : Times(d, x) =
                 (IF x = NicLine(nic) THEN 1 ELSE 0) + Times(RouteLines(nic), x) + Times(NeighLines(nic), x)
  BY <1>9 DEF b, c, d
<1> QED
  BY <1>3, <1>4, <1>6, <1>8, <1>12, <1>13 DEF b, c, d

LEMMA LineOfIs ==
  ASSUME NEW p \in NlParts
  PROVE  /\ LineOf(p) \in NlLines
         /\ p \in NlLinks => LineOf(p) = [idx |-> p.idx, mtu |-> p.mtu]
         /\ p \in NlNeighs => LineOf(p) = [idx |-> p.idx, neigh |-> p]
         /\ p \in NlRoutes => LineOf(p) = [idx |-> p.oif, route |-> create_route(p)]
         /\ (p.what = "link" <=> p \in NlLinks) /\ (p.what = "neigh" <=> p \in NlNeighs)
         /\ (p.what = "route" <=> p \in NlRoutes)
<1>1. /\ \A q \in NlLinks : q.what = "link" /\ q.idx \in Nat /\ q.mtu \in Nat
      /\ \A q \in NlNeighs : q.what = "neigh" /\ q.idx \in Nat
      /\ \A q \in NlRoutes : q.what = "route" /\ q.oif \in Nat
  BY DEF NlLinks, NlNeighs, NlRoutes
<1>2. p \in NlLinks \/ p \in NlNeighs \/ p \in NlRoutes
  BY DEF NlParts
<1>3. ASSUME p \in NlLinks
      PROVE  LineOf(p) = [idx |-> p.idx, mtu |-> p.mtu] /\ LineOf(p) \in NlLines
  <2>1. LineOf(p) = [idx |-> p.idx, mtu |-> p.mtu]
    BY <1>1, <1>3 DEF LineOf
  <2> QED
    BY <1>1, <1>3, <2>1 DEF NlLines
<1>4. ASSUME p \in NlNeighs
      PROVE  LineOf(p) = [idx |-> p.idx, neigh |-> p] /\ LineOf(p) \in NlLines
  <2>1. LineOf(p) = [idx |-> p.idx, neigh |-> p]
    BY <1>1, <1>4 DEF LineOf
  <2> QED
    BY <1>1, <1>4, <2>1 DEF NlLines
<1>5. ASSUME p \in NlRoutes
      PROVE  LineOf(p) = [idx |-> p.oif, route |-> create_route(p)] /\ LineOf(p) \in NlLines
  <2>1. LineOf(p) = [idx |-> p.oif, route |-> create_route(p)]
    BY <1>1, <1>5 DEF LineOf
  <2>2. create_route(p) \in NlKept
    BY <1>5, KeptIs
  <2> QED
    BY <1>1, <1>5, <2>1, <2>2 DEF NlLines
<1>6. /\ (p.what = "link" <=> p \in NlLinks) /\ (p.what = "neigh" <=> p \in NlNeighs)
      /\ (p.what = "route" <=> p \in NlRoutes)
  BY <1>1, <1>2
<1> QED
  BY <1>2, <1>3, <1>4, <1>5, <1>6

\* The cache against what was told.  Every line is there as often as it was told, and
\* every interface has the source that is due to it.
NicPieces(nics) == [k \in DOMAIN nics |-> stringize_nic(nics[k])]
CacheLines(nics) == FlattenSeq(NicPieces(nics))
ToldLines(told) == [k \in DOMAIN told |-> LineOf(told[k])]

Given(r) == IF Hint(r) = 0 /\ r.type = "local" THEN r.dst ELSE Hint(r)
Own(told, idx) == {l.was : l \in {l \in {part \in ToSet(told) : part.what = "link"} : l.idx = idx}}
Theirs(told, idx) ==
  {k \in DOMAIN told : told[k].what = "route" /\ told[k].oif = idx /\ Given(told[k]) # 0}
Due(told, idx) ==
  IF Own(told, idx) # {0} \/ Theirs(told, idx) = {} THEN Own(told, idx)
  ELSE {Given(told[Least(Theirs(told, idx))])}

CacheOK(nics, told) ==
  /\ nics \in Seq(NlNics) /\ told \in Seq(NlParts)
  /\ \A j, k \in DOMAIN nics : nics[j].idx = nics[k].idx => j = k
  /\ \A x : Times(CacheLines(nics), x) = Times(ToldLines(told), x)
  /\ \A k \in DOMAIN nics : Due(told, nics[k].idx) = {nics[k].srcaddr}

NlPhases == {"idle", "died", "ask links", "links", "ask neighs", "neighs", "ask routes", "routes"}
NlStates == [phase : NlPhases, sd : -1 .. MaxOpen, open : SUBSET (0 .. MaxOpen),
             nics : Seq(NlNics), told : Seq(NlParts)]

NlInv ==
  /\ nl \in NlStates
  /\ CacheOK(nl.nics, nl.told)
  /\ nl.sd # -1 => nl.sd \in nl.open
  /\ nl.sd = -1 => nl.phase = "idle" /\ nl.nics = <<>> /\ nl.told = <<>>

LEMMA PiecesAre ==
  ASSUME NEW nics \in Seq(NlNics)
  PROVE  /\ NicPieces(nics) \in Seq(Seq(NlLines)) /\ Len(NicPieces(nics)) = Len(nics)
         /\ NicPieces(nics) \in [1 .. Len(nics) -> Seq(NlLines)]
         /\ DOMAIN nics = 1 .. Len(nics) /\ Len(nics) \in Nat
         /\ \A k \in 1 .. Len(nics) : nics[k] \in NlNics /\ NicPieces(nics)[k] = stringize_nic(nics[k])
<1>1. DOMAIN nics = 1 .. Len(nics) /\ Len(nics) \in Nat /\ \A k \in 1 .. Len(nics) : nics[k] \in NlNics
  OBVIOUS
<1>2. \A k \in 1 .. Len(nics) : stringize_nic(nics[k]) \in Seq(NlLines)
  BY <1>1, NicLinesAre
<1>3. NicPieces(nics) = [k \in 1 .. Len(nics) |-> stringize_nic(nics[k])]
  BY <1>1 DEF NicPieces
<1>4. /\ NicPieces(nics) \in [1 .. Len(nics) -> Seq(NlLines)]
      /\ \A k \in 1 .. Len(nics) : NicPieces(nics)[k] = stringize_nic(nics[k])
  BY <1>2, <1>3
<1>5. NicPieces(nics) \in Seq(Seq(NlLines)) /\ Len(NicPieces(nics)) = Len(nics)
  BY <1>1, <1>4
<1> QED
  BY <1>1, <1>4, <1>5

LEMMA ToldLinesAre ==
  ASSUME NEW told \in Seq(NlParts)
  PROVE  /\ ToldLines(told) \in Seq(NlLines) /\ Len(ToldLines(told)) = Len(told)
         /\ DOMAIN told = 1 .. Len(told) /\ Len(told) \in Nat
         /\ \A k \in 1 .. Len(told) : told[k] \in NlParts /\ ToldLines(told)[k] = LineOf(told[k])
<1>1. DOMAIN told = 1 .. Len(told) /\ Len(told) \in Nat /\ \A k \in 1 .. Len(told) : told[k] \in NlParts
  OBVIOUS
<1>2. \A k \in 1 .. Len(told) : LineOf(told[k]) \in NlLines
  BY <1>1, LineOfIs
<1>3. ToldLines(told) = [k \in 1 .. Len(told) |-> LineOf(told[k])]
  BY <1>1 DEF ToldLines
<1> QED
  BY <1>1, <1>2, <1>3

\* What the cache holds was told, and what was told it holds.
LEMMA HeldIsTold ==
  ASSUME NEW nics, NEW told, CacheOK(nics, told)
  PROVE  /\ \A i, u : (\E k \in DOMAIN nics : nics[k].idx = i /\ nics[k].mtu = u)
                     <=> \E p \in ToSet(told) : p \in NlLinks /\ p.idx = i /\ p.mtu = u
         /\ \A i, rt : (\E k \in DOMAIN nics : nics[k].idx = i /\ rt \in ToSet(nics[k].routes))
                     <=> \E p \in ToSet(told) : p \in NlRoutes /\ p.oif = i /\ create_route(p) = rt
         /\ \A i, n : (\E k \in DOMAIN nics : nics[k].idx = i /\ n \in ToSet(nics[k].neighbors))
                     <=> n \in ToSet(told) /\ n \in NlNeighs /\ n.idx = i
<1> DEFINE In(nic, x) == \/ x = NicLine(nic)
                         \/ \E k \in DOMAIN nic.routes : x = [idx |-> nic.idx, route |-> nic.routes[k]]
                         \/ \E k \in DOMAIN nic.neighbors : x = [idx |-> nic.idx, neigh |-> nic.neighbors[k]]
           lines == CacheLines(nics)
           tells == ToldLines(told)
<1>1. nics \in Seq(NlNics) /\ told \in Seq(NlParts)
  BY DEF CacheOK
<1>2. /\ lines \in Seq(NlLines)
      /\ \A x : (\E k \in DOMAIN lines : lines[k] = x)
               <=> \E i \in DOMAIN NicPieces(nics) : \E k \in DOMAIN NicPieces(nics)[i] : NicPieces(nics)[i][k] = x
  BY <1>1, PiecesAre, FlattenHolds DEF CacheLines
<1>3. /\ DOMAIN NicPieces(nics) = DOMAIN nics
      /\ \A k \in DOMAIN nics : nics[k] \in NlNics /\ NicPieces(nics)[k] = stringize_nic(nics[k])
  <2>1. /\ NicPieces(nics) \in [1 .. Len(nics) -> Seq(NlLines)] /\ DOMAIN nics = 1 .. Len(nics)
        /\ \A k \in 1 .. Len(nics) : nics[k] \in NlNics /\ NicPieces(nics)[k] = stringize_nic(nics[k])
    BY <1>1, PiecesAre
  <2> QED
    BY <2>1
<1>4. \A i \in DOMAIN nics : \A x :
        (\E k \in DOMAIN NicPieces(nics)[i] : NicPieces(nics)[i][k] = x) <=> In(nics[i], x)
  <2> SUFFICES ASSUME NEW i \in DOMAIN nics, NEW x
               PROVE  (\E k \in DOMAIN NicPieces(nics)[i] : NicPieces(nics)[i][k] = x) <=> In(nics[i], x)
    OBVIOUS
  <2>1. (\E k \in DOMAIN stringize_nic(nics[i]) : stringize_nic(nics[i])[k] = x) <=> In(nics[i], x)
    <3>1. nics[i] \in NlNics
      BY <1>3
    <3> DEFINE nic == nics[i]
    <3> HIDE DEF nic
    <3>2. nic \in NlNics
      BY <3>1 DEF nic
    <3>3. (\E k \in DOMAIN stringize_nic(nic) : stringize_nic(nic)[k] = x) <=> In(nic, x)
      BY <3>2, NicLinesAre
    <3> QED
      BY <3>3 DEF nic
  <2> QED
    BY <1>3, <2>1, Zenon
<1> HIDE DEF In
<1>5. \A x : (\E k \in DOMAIN lines : lines[k] = x) <=> \E i \in DOMAIN nics : In(nics[i], x)
  BY <1>2, <1>3, <1>4, Zenon
<1>6. /\ tells \in Seq(NlLines) /\ DOMAIN told = 1 .. Len(told)
      /\ DOMAIN tells = DOMAIN told /\ \A k \in DOMAIN told : told[k] \in NlParts /\ tells[k] = LineOf(told[k])
  <2>1. /\ tells \in Seq(NlLines) /\ Len(tells) = Len(told)
        /\ DOMAIN told = 1 .. Len(told) /\ Len(told) \in Nat
        /\ \A k \in 1 .. Len(told) : told[k] \in NlParts /\ tells[k] = LineOf(told[k])
    BY <1>1, ToldLinesAre
  <2>2. DOMAIN tells = 1 .. Len(tells)
    BY <2>1, LenProperties
  <2> QED
    BY <2>1, <2>2
<1>7. \A p : p \in ToSet(told) <=> \E k \in DOMAIN told : told[k] = p
  BY DEF ToSet
<1>8. ASSUME NEW x
      PROVE  (\E k \in DOMAIN lines : lines[k] = x) <=> \E k \in DOMAIN tells : tells[k] = x
  <2>1. Times(lines, x) = Times(tells, x)
    BY DEF CacheOK
  <2>2. Times(lines, x) = 0 <=> \A k \in 1 .. Len(lines) : lines[k] # x
    BY <1>2, TimesIs
  <2>3. Times(tells, x) = 0 <=> \A k \in 1 .. Len(tells) : tells[k] # x
    BY <1>6, TimesIs
  <2>4. DOMAIN lines = 1 .. Len(lines) /\ DOMAIN tells = 1 .. Len(tells)
    BY <1>2, <1>6, LenProperties
  <2> QED
    BY <2>1, <2>2, <2>3, <2>4
<1> HIDE DEF lines, tells
<1>9. \A x : (\E i \in DOMAIN nics : In(nics[i], x)) <=> \E p \in ToSet(told) : LineOf(p) = x
  <2>1. \A x : (\E k \in DOMAIN tells : tells[k] = x) <=> \E p \in ToSet(told) : LineOf(p) = x
    BY <1>6, <1>7, Zenon
  <2> QED
    BY <1>5, <1>8, <2>1, Zenon
<1>10. \A p \in ToSet(told) : p \in NlParts
  BY <1>6, <1>7
\* Lines of different kinds are told apart.
<1>11. \A a, b, c, d : /\ [idx |-> a, mtu |-> b] # [idx |-> c, route |-> d]
                       /\ [idx |-> a, mtu |-> b] # [idx |-> c, neigh |-> d]
                       /\ [idx |-> a, route |-> b] # [idx |-> c, neigh |-> d]
  <2> SUFFICES ASSUME NEW a, NEW b, NEW c, NEW d
               PROVE  /\ [idx |-> a, mtu |-> b] # [idx |-> c, route |-> d]
                      /\ [idx |-> a, mtu |-> b] # [idx |-> c, neigh |-> d]
                      /\ [idx |-> a, route |-> b] # [idx |-> c, neigh |-> d]
    OBVIOUS
  <2>1. /\ DOMAIN [idx |-> a, mtu |-> b] = {"idx", "mtu"} /\ DOMAIN [idx |-> c, route |-> d] = {"idx", "route"}
        /\ DOMAIN [idx |-> c, neigh |-> d] = {"idx", "neigh"} /\ DOMAIN [idx |-> a, route |-> b] = {"idx", "route"}
    OBVIOUS
  <2>2. "mtu" # "route" /\ "mtu" # "neigh" /\ "mtu" # "idx" /\ "route" # "neigh" /\ "route" # "idx"
    OBVIOUS
  <2>3. {"idx", "mtu"} # {"idx", "route"} /\ {"idx", "mtu"} # {"idx", "neigh"} /\ {"idx", "route"} # {"idx", "neigh"}
    BY <2>2
  <2> QED
    BY <2>1, <2>3, Zenon
<1>12. \A a, b, c, d : /\ [idx |-> a, mtu |-> b] = [idx |-> c, mtu |-> d] <=> a = c /\ b = d
                       /\ [idx |-> a, route |-> b] = [idx |-> c, route |-> d] <=> a = c /\ b = d
                       /\ [idx |-> a, neigh |-> b] = [idx |-> c, neigh |-> d] <=> a = c /\ b = d
  OBVIOUS
<1>13. ASSUME NEW p \in ToSet(told)
       PROVE  /\ p \in NlLinks \/ p \in NlNeighs \/ p \in NlRoutes
              /\ p \in NlLinks => LineOf(p) = [idx |-> p.idx, mtu |-> p.mtu]
              /\ p \in NlNeighs => LineOf(p) = [idx |-> p.idx, neigh |-> p]
              /\ p \in NlRoutes => LineOf(p) = [idx |-> p.oif, route |-> create_route(p)]
  BY <1>10, LineOfIs DEF NlParts
<1>14. ASSUME NEW i, NEW u
       PROVE  (\E k \in DOMAIN nics : nics[k].idx = i /\ nics[k].mtu = u)
                <=> \E p \in ToSet(told) : p \in NlLinks /\ p.idx = i /\ p.mtu = u
  <2>1. (\E p \in ToSet(told) : LineOf(p) = [idx |-> i, mtu |-> u])
          <=> \E p \in ToSet(told) : p \in NlLinks /\ p.idx = i /\ p.mtu = u
    <3>1. ASSUME NEW p \in ToSet(told)
          PROVE  LineOf(p) = [idx |-> i, mtu |-> u] <=> p \in NlLinks /\ p.idx = i /\ p.mtu = u
      <4>1. CASE p \in NlLinks
        <5>1. p \notin NlNeighs /\ p \notin NlRoutes
          BY <4>1 DEF NlLinks, NlNeighs, NlRoutes
        <5> QED
          BY <1>12, <1>13, <4>1
      <4>2. CASE p \in NlNeighs
        <5>1. p \notin NlLinks
          BY <4>2 DEF NlLinks, NlNeighs, NlRoutes
        <5>2. LineOf(p) = [idx |-> p.idx, neigh |-> p]
          BY <1>13, <4>2
        <5>3. [idx |-> i, mtu |-> u] # [idx |-> p.idx, neigh |-> p]
          BY <1>11
        <5> QED
          BY <5>1, <5>2, <5>3
      <4>3. CASE p \in NlRoutes
        <5>1. p \notin NlLinks
          BY <4>3 DEF NlLinks, NlNeighs, NlRoutes
        <5>2. LineOf(p) = [idx |-> p.oif, route |-> create_route(p)]
          BY <1>13, <4>3
        <5>3. [idx |-> i, mtu |-> u] # [idx |-> p.oif, route |-> create_route(p)]
          BY <1>11
        <5> QED
          BY <5>1, <5>2, <5>3
      <4> QED
        BY <1>13, <4>1, <4>2, <4>3
    <3> QED
      BY <3>1, Zenon
  <2>2. ASSUME NEW k \in DOMAIN nics
        PROVE  In(nics[k], [idx |-> i, mtu |-> u]) <=> nics[k].idx = i /\ nics[k].mtu = u
    BY <1>11, <1>12, Zenon DEF In, NicLine
  <2> QED
    BY <1>9, <2>1, <2>2, Zenon
<1>15. ASSUME NEW i, NEW rt
       PROVE  (\E k \in DOMAIN nics : nics[k].idx = i /\ rt \in ToSet(nics[k].routes))
                <=> \E p \in ToSet(told) : p \in NlRoutes /\ p.oif = i /\ create_route(p) = rt
  <2>1. (\E p \in ToSet(told) : LineOf(p) = [idx |-> i, route |-> rt])
          <=> \E p \in ToSet(told) : p \in NlRoutes /\ p.oif = i /\ create_route(p) = rt
    <3>1. ASSUME NEW p \in ToSet(told)
          PROVE  LineOf(p) = [idx |-> i, route |-> rt] <=> p \in NlRoutes /\ p.oif = i /\ create_route(p) = rt
      <4>1. CASE p \in NlRoutes
        <5>1. p \notin NlLinks /\ p \notin NlNeighs
          BY <4>1 DEF NlLinks, NlNeighs, NlRoutes
        <5> QED
          BY <1>12, <1>13, <4>1
      <4>2. CASE p \in NlLinks
        <5>1. p \notin NlRoutes
          BY <4>2 DEF NlLinks, NlNeighs, NlRoutes
        <5>2. LineOf(p) = [idx |-> p.idx, mtu |-> p.mtu]
          BY <1>13, <4>2
        <5>3. [idx |-> i, route |-> rt] # [idx |-> p.idx, mtu |-> p.mtu]
          BY <1>11
        <5> QED
          BY <5>1, <5>2, <5>3
      <4>3. CASE p \in NlNeighs
        <5>1. p \notin NlRoutes
          BY <4>3 DEF NlLinks, NlNeighs, NlRoutes
        <5>2. LineOf(p) = [idx |-> p.idx, neigh |-> p]
          BY <1>13, <4>3
        <5>3. [idx |-> i, route |-> rt] # [idx |-> p.idx, neigh |-> p]
          BY <1>11
        <5> QED
          BY <5>1, <5>2, <5>3
      <4> QED
        BY <1>13, <4>1, <4>2, <4>3
    <3> QED
      BY <3>1, Zenon
  <2>2. ASSUME NEW k \in DOMAIN nics
        PROVE  In(nics[k], [idx |-> i, route |-> rt]) <=> nics[k].idx = i /\ rt \in ToSet(nics[k].routes)
    <3>1. rt \in ToSet(nics[k].routes) <=> \E j \in DOMAIN nics[k].routes : nics[k].routes[j] = rt
      BY DEF ToSet
    <3> QED
      BY <1>11, <1>12, <3>1, Zenon DEF In, NicLine
  <2> QED
    BY <1>9, <2>1, <2>2, Zenon
<1>16. ASSUME NEW i, NEW n
       PROVE  (\E k \in DOMAIN nics : nics[k].idx = i /\ n \in ToSet(nics[k].neighbors))
                <=> n \in ToSet(told) /\ n \in NlNeighs /\ n.idx = i
  <2>1. (\E p \in ToSet(told) : LineOf(p) = [idx |-> i, neigh |-> n])
          <=> n \in ToSet(told) /\ n \in NlNeighs /\ n.idx = i
    <3>1. ASSUME NEW p \in ToSet(told)
          PROVE  LineOf(p) = [idx |-> i, neigh |-> n] <=> p = n /\ p \in NlNeighs /\ p.idx = i
      <4>1. CASE p \in NlNeighs
        <5>1. p \notin NlLinks /\ p \notin NlRoutes
          BY <4>1 DEF NlLinks, NlNeighs, NlRoutes
        <5> QED
          BY <1>12, <1>13, <4>1
      <4>2. CASE p \in NlLinks
        <5>1. p \notin NlNeighs
          BY <4>2 DEF NlLinks, NlNeighs, NlRoutes
        <5>2. LineOf(p) = [idx |-> p.idx, mtu |-> p.mtu]
          BY <1>13, <4>2
        <5>3. [idx |-> i, neigh |-> n] # [idx |-> p.idx, mtu |-> p.mtu]
          BY <1>11
        <5> QED
          BY <5>1, <5>2, <5>3
      <4>3. CASE p \in NlRoutes
        <5>1. p \notin NlNeighs
          BY <4>3 DEF NlLinks, NlNeighs, NlRoutes
        <5>2. LineOf(p) = [idx |-> p.oif, route |-> create_route(p)]
          BY <1>13, <4>3
        <5>3. [idx |-> i, neigh |-> n] # [idx |-> p.oif, route |-> create_route(p)]
          BY <1>11
        <5> QED
          BY <5>1, <5>2, <5>3
      <4> QED
        BY <1>13, <4>1, <4>2, <4>3
    <3> QED
      BY <3>1, Zenon
  <2>2. ASSUME NEW k \in DOMAIN nics
        PROVE  In(nics[k], [idx |-> i, neigh |-> n]) <=> nics[k].idx = i /\ n \in ToSet(nics[k].neighbors)
    <3>1. n \in ToSet(nics[k].neighbors) <=> \E j \in DOMAIN nics[k].neighbors : nics[k].neighbors[j] = n
      BY DEF ToSet
    <3> QED
      BY <1>11, <1>12, <3>1, Zenon DEF In, NicLine
  <2> QED
    BY <1>9, <2>1, <2>2, Zenon
<1> QED
  BY <1>14, <1>15, <1>16

\* The walk over the routes meets those that were told, with the source due to each.
Steps0 == [range : IpRanges, src : Addrs]
StepOf(nic, rt) == [range |-> iprange(rt), src |-> IF rt.src = 0 THEN nic.srcaddr ELSE rt.src]

LEMMA WalkIs ==
  ASSUME NEW nics, NEW told, CacheOK(nics, told)
  PROVE  /\ Walk(nics) \in Seq(Steps0)
         /\ \A x : (\E k \in DOMAIN Walk(nics) : Walk(nics)[k] = x)
                 <=> \E i \in DOMAIN nics : \E rt \in ToSet(nics[i].routes) : x = StepOf(nics[i], rt)
<1> DEFINE W == [k \in DOMAIN nics |-> [j \in DOMAIN nics[k].routes |-> StepOf(nics[k], nics[k].routes[j])]]
<1>1. nics \in Seq(NlNics) /\ told \in Seq(NlParts)
  BY DEF CacheOK
<1>2. /\ DOMAIN nics = 1 .. Len(nics) /\ Len(nics) \in Nat
      /\ \A k \in DOMAIN nics : nics[k] \in NlNics
  BY <1>1
<1>3. ASSUME NEW k \in DOMAIN nics, NEW rt \in ToSet(nics[k].routes)
      PROVE  StepOf(nics[k], rt) \in Steps0
  <2>1. PICK p \in ToSet(told) : p \in NlRoutes /\ create_route(p) = rt
    <3>1. \E j \in DOMAIN nics : nics[j].idx = nics[k].idx /\ rt \in ToSet(nics[j].routes)
      OBVIOUS
    <3>2. \E p \in ToSet(told) : p \in NlRoutes /\ p.oif = nics[k].idx /\ create_route(p) = rt
      BY <3>1, HeldIsTold
    <3> QED
      BY <3>2, Zenon
  <2>2. rt \in NlKept /\ iprange(rt) \in IpRanges
    BY <2>1, KeptIs
  <2>3. rt.src \in Addrs /\ nics[k].srcaddr \in Addrs
    BY <1>2, <2>2 DEF NlKept, NlNics
  <2> QED
    BY <2>2, <2>3 DEF StepOf, Steps0
<1>4. \A k \in DOMAIN nics : \A x : x \in ToSet(nics[k].routes) <=> \E j \in DOMAIN nics[k].routes : nics[k].routes[j] = x
  BY DEF ToSet
<1>5. ASSUME NEW k \in DOMAIN nics
      PROVE  /\ W[k] \in Seq(Steps0) /\ DOMAIN W[k] = DOMAIN nics[k].routes
             /\ \A j \in DOMAIN W[k] : W[k][j] = StepOf(nics[k], nics[k].routes[j])
  <2> DEFINE q == nics[k].routes
             m == Len(q)
  <2>1. q \in Seq(NlKept)
    BY <1>2 DEF NlNics
  <2>2. DOMAIN q = 1 .. m /\ m \in Nat
    BY <2>1
  <2>3. W[k] = [j \in DOMAIN q |-> StepOf(nics[k], q[j])]
    OBVIOUS
  <2>4. \A j \in DOMAIN q : StepOf(nics[k], q[j]) \in Steps0
    BY <1>3, <1>4
  <2> HIDE DEF q, m, W
  <2>5. DOMAIN W[k] = DOMAIN q /\ \A j \in DOMAIN W[k] : W[k][j] = StepOf(nics[k], q[j])
    BY <2>3
  <2>6. W[k] \in Seq(Steps0)
    BY <2>2, <2>3, <2>4
  <2> QED
    BY <2>5, <2>6 DEF q
<1>6. W \in Seq(Seq(Steps0)) /\ DOMAIN W = DOMAIN nics
  <2>1. DOMAIN W = DOMAIN nics /\ W = [k \in DOMAIN W |-> W[k]]
    OBVIOUS
  <2> HIDE DEF W
  <2> QED
    BY <1>2, <1>5, <2>1
<1>7. Walk(nics) = FlattenSeq(W)
  BY DEF Walk, StepOf
<1> HIDE DEF W
<1>8. /\ FlattenSeq(W) \in Seq(Steps0)
      /\ \A x : (\E k \in DOMAIN FlattenSeq(W) : FlattenSeq(W)[k] = x)
               <=> \E i \in DOMAIN W : \E k \in DOMAIN W[i] : W[i][k] = x
  BY <1>6, FlattenHolds
<1>9. ASSUME NEW x
      PROVE  (\E i \in DOMAIN W : \E k \in DOMAIN W[i] : W[i][k] = x)
               <=> \E i \in DOMAIN nics : \E rt \in ToSet(nics[i].routes) : x = StepOf(nics[i], rt)
  <2>1. ASSUME NEW i \in DOMAIN nics
        PROVE  (\E k \in DOMAIN W[i] : W[i][k] = x) <=> \E rt \in ToSet(nics[i].routes) : x = StepOf(nics[i], rt)
    <3>1. ASSUME NEW k \in DOMAIN W[i], W[i][k] = x
          PROVE  \E rt \in ToSet(nics[i].routes) : x = StepOf(nics[i], rt)
      <4>1. k \in DOMAIN nics[i].routes /\ x = StepOf(nics[i], nics[i].routes[k])
        BY <1>5, <3>1
      <4>2. nics[i].routes[k] \in ToSet(nics[i].routes)
        BY <4>1 DEF ToSet
      <4> QED
        BY <4>1, <4>2, Zenon
    <3>2. ASSUME NEW rt \in ToSet(nics[i].routes), x = StepOf(nics[i], rt)
          PROVE  \E k \in DOMAIN W[i] : W[i][k] = x
      <4>1. PICK k \in DOMAIN nics[i].routes : nics[i].routes[k] = rt
        BY <1>4
      <4>2. k \in DOMAIN W[i] /\ W[i][k] = x
        BY <1>5, <3>2, <4>1
      <4> QED
        BY <4>2
    <3> QED
      BY <3>1, <3>2, Zenon
  <2> QED
    BY <1>6, <2>1, Zenon
<1>10. \A x : (\E k \in DOMAIN FlattenSeq(W) : FlattenSeq(W)[k] = x)
               <=> \E i \in DOMAIN nics : \E rt \in ToSet(nics[i].routes) : x = StepOf(nics[i], rt)
  BY <1>8, <1>9, Zenon
<1>11. ASSUME NEW x
       PROVE  (\E k \in DOMAIN Walk(nics) : Walk(nics)[k] = x)
                <=> \E i \in DOMAIN nics : \E rt \in ToSet(nics[i].routes) : x = StepOf(nics[i], rt)
  BY <1>7, <1>10
<1> QED
  BY <1>7, <1>8, <1>11

LEMMA WalkIsTold ==
  ASSUME NEW nics, NEW told, CacheOK(nics, told)
  PROVE  /\ Walk(nics) \in Seq(Steps0)
         /\ \A p \in ToSet(told) : p \in NlRoutes =>
              \E k \in DOMAIN Walk(nics) : Walk(nics)[k].range = iprange(create_route(p))
         /\ \A k \in DOMAIN Walk(nics) : \E p \in ToSet(told) :
              /\ p \in NlRoutes /\ Walk(nics)[k].range = iprange(create_route(p))
              /\ Walk(nics)[k].src \in (IF Hint(p) = 0 THEN Due(told, p.oif) ELSE {Hint(p)})
<1>1. ASSUME NEW p \in ToSet(told), p \in NlRoutes
      PROVE  \E k \in DOMAIN Walk(nics) : Walk(nics)[k].range = iprange(create_route(p))
  <2>1. PICK i \in DOMAIN nics : nics[i].idx = p.oif /\ create_route(p) \in ToSet(nics[i].routes)
    BY <1>1, HeldIsTold
  <2>2. PICK k \in DOMAIN Walk(nics) : Walk(nics)[k] = StepOf(nics[i], create_route(p))
    BY <2>1, WalkIs
  <2> QED
    BY <2>2 DEF StepOf
<1>2. ASSUME NEW k \in DOMAIN Walk(nics)
      PROVE  \E p \in ToSet(told) :
              /\ p \in NlRoutes /\ Walk(nics)[k].range = iprange(create_route(p))
              /\ Walk(nics)[k].src \in (IF Hint(p) = 0 THEN Due(told, p.oif) ELSE {Hint(p)})
  <2>0. PICK i \in DOMAIN nics : \E rt \in ToSet(nics[i].routes) : Walk(nics)[k] = StepOf(nics[i], rt)
    BY WalkIs, Zenon
  <2>1. PICK rt \in ToSet(nics[i].routes) : Walk(nics)[k] = StepOf(nics[i], rt)
    BY <2>0
  <2>2. PICK p \in ToSet(told) : p \in NlRoutes /\ p.oif = nics[i].idx /\ create_route(p) = rt
    BY HeldIsTold
  <2>3. rt.src = Hint(p)
    BY <2>2, KeptIs
  <2>4. Due(told, p.oif) = {nics[i].srcaddr}
    BY <2>2 DEF CacheOK
  <2>5. /\ Walk(nics)[k].range = iprange(rt)
        /\ Walk(nics)[k].src = IF rt.src = 0 THEN nics[i].srcaddr ELSE rt.src
    BY <2>1 DEF StepOf
  <2> QED
    BY <2>2, <2>3, <2>4, <2>5
<1> QED
  BY <1>1, <1>2, WalkIs

\* The route that answers encloses the set, and there is one if any route told does.
LEMMA SourceIs ==
  ASSUME NEW nics, NEW told, CacheOK(nics, told), NEW set \in Asked
  PROVE  LET around == {p \in ToSet(told) : p \in NlRoutes /\ \A ip \in Elements(set) : Covers(p, ip)}
             answer == srcroute_to_ipset(nics, set)
         IN IF around = {} THEN ~answer.ok
            ELSE /\ answer.ok
                 /\ \E p \in around :
                      answer.src \in (IF Hint(p) = 0 THEN Due(told, p.oif) ELSE {Hint(p)})
<1> DEFINE around == {p \in ToSet(told) : p \in NlRoutes /\ \A ip \in Elements(set) : Covers(p, ip)}
           walk == Walk(nics)
           Round(k) == ipset_encloses([ranges |-> <<walk[k].range>>], [ranges |-> set])
           first == Least({k \in DOMAIN walk : Round(k)} \cup {Len(walk) + 1})
<1>1. walk \in Seq(Steps0) /\ DOMAIN walk = 1 .. Len(walk) /\ Len(walk) \in Nat
      /\ \A k \in DOMAIN walk : walk[k].range \in IpRanges
  <2>1. walk \in Seq(Steps0)
    BY WalkIsTold
  <2>2. \A x \in Steps0 : x.range \in IpRanges
    BY DEF Steps0
  <2> HIDE DEF walk
  <2> QED
    BY <2>1, <2>2
<1>2. Max32 \in Nat /\ Addrs = 0 .. Max32
  BY AddrsAre
<1>3. set \in IpArrays
  <2>1. set \in Seq([lower : Addrs, upper : Addrs]) /\ Canonical(set)
    BY NetlinkAssumption
  <2>2. /\ DOMAIN set = 1 .. Len(set) /\ Len(set) \in Nat
        /\ \A k \in 1 .. Len(set) : set[k] \in [lower : 0 .. Max32, upper : 0 .. Max32]
    <3>1. set \in Seq([lower : 0 .. Max32, upper : 0 .. Max32])
      BY <1>2, <2>1, Zenon
    <3> DEFINE X == [lower : 0 .. Max32, upper : 0 .. Max32]
    <3> HIDE DEF X
    <3>2. set \in Seq(X)
      BY <3>1 DEF X
    <3>3. DOMAIN set = 1 .. Len(set) /\ Len(set) \in Nat /\ \A k \in 1 .. Len(set) : set[k] \in X
      BY <3>2
    <3> QED
      BY <3>3 DEF X
  <2>3. \A k \in 1 .. Len(set) : set[k].lower <= set[k].upper
    BY <2>1, <2>2 DEF Canonical
  <2>4. \A k \in 1 .. Len(set) : set[k] \in RangesTo(Max32)
    BY <2>2, <2>3 DEF RangesTo
  <2>5. set \in Seq(RangesTo(Max32))
    BY <2>1, <2>2, <2>4
  <2> QED
    BY <2>1, <2>5 DEF IpArrays, Arrays
<1>4. Elements(set) \subseteq Addrs
  <2>1. set \in Seq(RangesTo(Max32))
    BY <1>3 DEF IpArrays, Arrays
  <2> QED
    BY <1>2, <2>1, ElementsAre
<1>5. ASSUME NEW r \in IpRanges
      PROVE  /\ ipset_encloses([ranges |-> <<r>>], [ranges |-> set]) <=> Elements(set) \subseteq Span(r)
             /\ \A ip : ip \in Span(r) <=> ip \in Nat /\ r.lower <= ip /\ ip <= r.upper
  <2> DEFINE a == [ranges |-> <<r>>, maxranges |-> 0]
             b == [ranges |-> set, maxranges |-> 0]
  <2>1. <<r>> \in IpArrays /\ Elements(<<r>>) = Span(r)
    BY <1>2, OneRange DEF IpArrays, IpRanges
  <2>2. a \in IpRecords /\ b \in IpRecords
    BY <1>3, <2>1 DEF IpRecords
  <2>3. a.ranges = <<r>> /\ b.ranges = set
    OBVIOUS
  <2>4. ipset_encloses([ranges |-> <<r>>], [ranges |-> set]) <=> ipset_encloses(a, b)
    BY <2>3 DEF ipset_encloses
  <2> HIDE DEF a, b
  <2>5. ipset_encloses(a, b) <=> Elements(set) \subseteq Span(r)
    BY <2>1, <2>2, <2>3, EnclosesIs
  <2> QED
    BY <1>2, <2>4, <2>5, RangeIs DEF IpRanges
<1>6. ASSUME NEW p \in NlRoutes
      PROVE  Elements(set) \subseteq Span(iprange(create_route(p))) <=> \A ip \in Elements(set) : Covers(p, ip)
  <2> DEFINE r == iprange(create_route(p))
  <2>1. r \in IpRanges /\ \A ip \in Addrs : ip_in_range(r, ip) <=> Covers(p, ip)
    BY KeptIs
  <2> HIDE DEF r
  <2>2. \A ip \in Addrs : ip \in Span(r) <=> ip_in_range(r, ip)
    <3>1. r.lower \in Nat /\ r.upper \in Nat
      BY <1>2, <2>1, RangeIs DEF IpRanges
    <3>2. \A ip \in Addrs : ip \in Nat
      BY <1>2
    <3> QED
      BY <1>5, <2>1, <3>1, <3>2 DEF ip_in_range
  <2>3. \A ip \in Elements(set) : ip \in Span(r) <=> Covers(p, ip)
    BY <1>4, <2>1, <2>2
  <2> QED
    BY <2>3 DEF r
<1>7. srcroute_to_ipset(nics, set) = IF first > Len(walk) THEN [ok |-> FALSE] ELSE [ok |-> TRUE, src |-> walk[first].src]
  BY DEF srcroute_to_ipset
<1>8. \A k \in DOMAIN walk : Round(k) <=> Elements(set) \subseteq Span(walk[k].range)
  BY <1>1, <1>5
<1>9. /\ \A p \in ToSet(told) : p \in NlRoutes => \E k \in DOMAIN walk : walk[k].range = iprange(create_route(p))
      /\ \A k \in DOMAIN walk : \E p \in ToSet(told) :
           /\ p \in NlRoutes /\ walk[k].range = iprange(create_route(p))
           /\ walk[k].src \in (IF Hint(p) = 0 THEN Due(told, p.oif) ELSE {Hint(p)})
  BY WalkIsTold
<1> HIDE DEF walk, Round
<1>10. \A k \in DOMAIN walk : Round(k) => \E p \in around :
          walk[k].src \in (IF Hint(p) = 0 THEN Due(told, p.oif) ELSE {Hint(p)})
  <2> SUFFICES ASSUME NEW k \in DOMAIN walk, Round(k)
               PROVE  \E p \in around : walk[k].src \in (IF Hint(p) = 0 THEN Due(told, p.oif) ELSE {Hint(p)})
    OBVIOUS
  <2>1. PICK p \in ToSet(told) :
          /\ p \in NlRoutes /\ walk[k].range = iprange(create_route(p))
          /\ walk[k].src \in (IF Hint(p) = 0 THEN Due(told, p.oif) ELSE {Hint(p)})
    BY <1>9
  <2>2. Elements(set) \subseteq Span(iprange(create_route(p)))
    BY <1>8, <2>1
  <2>3. p \in around
    BY <1>6, <2>1, <2>2
  <2> QED
    BY <2>1, <2>3
<1>11. around # {} => \E k \in DOMAIN walk : Round(k)
  <2> SUFFICES ASSUME NEW p \in around
               PROVE  \E k \in DOMAIN walk : Round(k)
    OBVIOUS
  <2>1. p \in ToSet(told) /\ p \in NlRoutes /\ \A ip \in Elements(set) : Covers(p, ip)
    OBVIOUS
  <2>2. PICK k \in DOMAIN walk : walk[k].range = iprange(create_route(p))
    BY <1>9, <2>1
  <2>3. Elements(set) \subseteq Span(iprange(create_route(p)))
    BY <1>6, <2>1
  <2> QED
    BY <1>8, <2>2, <2>3
<1> DEFINE S == {k \in DOMAIN walk : Round(k)} \cup {Len(walk) + 1}
<1>12. first \in S /\ \A y \in S : first <= y
  <2>1. S \in SUBSET Nat /\ S # {}
    BY <1>1
  <2>2. first = Least(S)
    OBVIOUS
  <2> HIDE DEF S, first
  <2> QED
    BY <2>1, <2>2, LeastIs
<1>13. CASE around = {}
  <2>1. first = Len(walk) + 1
    BY <1>10, <1>12, <1>13
  <2>2. srcroute_to_ipset(nics, set) = [ok |-> FALSE]
    <3> HIDE DEF first
    <3> QED
      BY <1>1, <1>7, <2>1
  <2> QED
    BY <1>13, <2>2
<1>14. CASE around # {}
  <2>1. PICK k \in DOMAIN walk : Round(k)
    BY <1>11, <1>14
  <2>2. first <= k /\ first \in S
    BY <1>12, <2>1
  <2>3. first \in DOMAIN walk /\ Round(first) /\ ~(first > Len(walk))
    <3>1. k \in Nat /\ k <= Len(walk)
      BY <1>1
    <3>2. first # Len(walk) + 1
      <4> HIDE DEF first, S
      <4> QED
        BY <1>1, <2>2, <3>1
    <3> HIDE DEF first
    <3>3. first \in DOMAIN walk /\ Round(first)
      BY <2>2, <3>2
    <3> QED
      BY <1>1, <3>3
  <2> HIDE DEF first
  <2>4. srcroute_to_ipset(nics, set) = [ok |-> TRUE, src |-> walk[first].src]
    BY <1>7, <2>3
  <2>5. PICK p \in around : walk[first].src \in (IF Hint(p) = 0 THEN Due(told, p.oif) ELSE {Hint(p)})
    BY <1>10, <2>3
  <2> QED
    BY <1>14, <2>4, <2>5
<1> QED
  BY <1>13, <1>14

LEMMA CacheAnswers == NlInv => CacheIsWhatWasTold
<1> SUFFICES ASSUME NlInv
             PROVE  CacheIsWhatWasTold
  OBVIOUS
<1> DEFINE nics == nl.nics
           told == nl.told
<1>1. CacheOK(nics, told)
  BY DEF NlInv
<1>2. nics \in Seq(NlNics) /\ told \in Seq(NlParts) /\ \A x : Times(CacheLines(nics), x) = Times(ToldLines(told), x)
  BY <1>1 DEF CacheOK
<1>3. /\ nl.sd # -1 => nl.sd \in nl.open
      /\ nl.sd = -1 => nics = <<>> /\ told = <<>>
  BY DEF NlInv
<1>4. /\ \A p \in ToSet(told) : p \in NlParts
      /\ Told("link") = {p \in ToSet(told) : p \in NlLinks}
      /\ Told("neigh") = {p \in ToSet(told) : p \in NlNeighs}
      /\ Told("route") = {p \in ToSet(told) : p \in NlRoutes}
  <2>1. \A p \in ToSet(told) : p \in NlParts
    BY <1>2 DEF ToSet
  <2> HIDE DEF told
  <2>2. Told("link") = {p \in ToSet(told) : p \in NlLinks}
    BY <2>1, LineOfIs DEF Told, told
  <2>3. Told("neigh") = {p \in ToSet(told) : p \in NlNeighs}
    BY <2>1, LineOfIs DEF Told, told
  <2>4. Told("route") = {p \in ToSet(told) : p \in NlRoutes}
    BY <2>1, LineOfIs DEF Told, told
  <2> QED
    BY <2>1, <2>2, <2>3, <2>4
<1>5. ASSUME NEW idx, NEW a \in Due(told, idx)
      PROVE  Unset(idx) \/ a = Default(idx)
  <2> SUFFICES ASSUME ~Unset(idx)
               PROVE  a = Default(idx)
    OBVIOUS
  <2>1. \A w \in Own(told, idx) : w = 0
    BY DEF Unset, Own, Told
  <2>2. CASE Own(told, idx) = {}
    BY <2>2 DEF Due
  <2>3. CASE Own(told, idx) # {}
    <3>1. Own(told, idx) = {0}
      BY <2>1, <2>3
    <3>2. Default(idx) = IF Theirs(told, idx) = {} THEN 0 ELSE Given(told[Least(Theirs(told, idx))])
      BY DEF Default, Theirs, Given
    <3> QED
      BY <3>1, <3>2 DEF Due
  <2> QED
    BY <2>2, <2>3
<1>6. ASSUME NEW x
      PROVE  Times(stringize_netinfo(nl), x) = Times([k \in DOMAIN nl.told |-> LineOf(nl.told[k])], x)
  <2>1. [k \in DOMAIN nl.told |-> LineOf(nl.told[k])] = ToldLines(told)
    BY DEF ToldLines
  <2>2. CASE nl.sd = -1
    <3>1. told = <<>>
      BY <1>3, <2>2
    <3> HIDE DEF told
    <3>2. ToldLines(told) \in Seq(NlLines) /\ Len(ToldLines(told)) = 0
      BY <1>2, <3>1, ToldLinesAre
    <3>3. Times(ToldLines(told), x) = 0
      <4>1. \A k \in 1 .. 0 : ToldLines(told)[k] # x
        OBVIOUS
      <4> QED
        BY <3>2, <4>1, TimesIs
    <3>4. stringize_netinfo(nl) = <<>>
      BY <2>2 DEF stringize_netinfo
    <3> QED
      BY <2>1, <3>3, <3>4, TimesNone
  <2>3. CASE nl.sd # -1
    <3>1. stringize_netinfo(nl) = CacheLines(nics)
      BY <2>3 DEF stringize_netinfo, CacheLines, NicPieces
    <3> QED
      BY <1>2, <2>1, <3>1
  <2> QED
    BY <2>2, <2>3
<1> HIDE DEF nics, told
<1>7. get_maximum_mtu(nics) = Most({0} \cup {l.mtu : l \in Told("link")})
  <2>1. \A u : (\E k \in DOMAIN nics : nics[k].mtu = u) <=> \E l \in Told("link") : l.mtu = u
    <3>1. \A i, u : (\E k \in DOMAIN nics : nics[k].idx = i /\ nics[k].mtu = u)
                     <=> \E p \in ToSet(told) : p \in NlLinks /\ p.idx = i /\ p.mtu = u
      BY <1>1, HeldIsTold
    <3>2. ASSUME NEW u
          PROVE  (\E k \in DOMAIN nics : nics[k].mtu = u) <=> \E p \in ToSet(told) : p \in NlLinks /\ p.mtu = u
      <4>1. ASSUME NEW k \in DOMAIN nics, nics[k].mtu = u
            PROVE  \E p \in ToSet(told) : p \in NlLinks /\ p.mtu = u
        <5>1. \E j \in DOMAIN nics : nics[j].idx = nics[k].idx /\ nics[j].mtu = u
          BY <4>1
        <5>2. \E p \in ToSet(told) : p \in NlLinks /\ p.idx = nics[k].idx /\ p.mtu = u
          BY <3>1, <5>1
        <5> QED
          BY <5>2, Zenon
      <4>2. ASSUME NEW p \in ToSet(told), p \in NlLinks, p.mtu = u
            PROVE  \E k \in DOMAIN nics : nics[k].mtu = u
        <5>1. \E q \in ToSet(told) : q \in NlLinks /\ q.idx = p.idx /\ q.mtu = u
          BY <4>2
        <5>2. \E k \in DOMAIN nics : nics[k].idx = p.idx /\ nics[k].mtu = u
          BY <3>1, <5>1
        <5> QED
          BY <5>2, Zenon
      <4> QED
        BY <4>1, <4>2, Zenon
    <3> QED
      BY <1>4, <3>2
  <2>2. {nics[k].mtu : k \in DOMAIN nics} = {l.mtu : l \in Told("link")}
    <3>1. \A u : u \in {nics[k].mtu : k \in DOMAIN nics} <=> \E k \in DOMAIN nics : nics[k].mtu = u
      BY Zenon
    <3>2. \A u : u \in {l.mtu : l \in Told("link")} <=> \E l \in Told("link") : l.mtu = u
      BY Zenon
    <3> QED
      BY <2>1, <3>1, <3>2, Zenon
  <2> QED
    BY <2>2 DEF get_maximum_mtu
<1>8. ASSUME NEW ip \in Addrs
      PROVE  ip_is_local(nics, ip) <=> \E r \in Told("route") : r.table = "local" /\ Covers(r, ip)
  <2>1. ASSUME NEW k \in DOMAIN nics, NEW rt \in ToSet(nics[k].routes),
               rt.table = "local", ip_in_range(iprange(rt), ip)
        PROVE  \E r \in Told("route") : r.table = "local" /\ Covers(r, ip)
    <3>1. PICK p \in ToSet(told) : p \in NlRoutes /\ create_route(p) = rt
      BY <1>1, HeldIsTold
    <3>2. p \in Told("route") /\ p.table = "local" /\ Covers(p, ip)
      BY <1>4, <2>1, <3>1, KeptIs
    <3> QED
      BY <3>2
  <2>2. ASSUME NEW p \in Told("route"), p.table = "local", Covers(p, ip)
        PROVE  \E k \in DOMAIN nics : \E rt \in ToSet(nics[k].routes) :
                 rt.table = "local" /\ ip_in_range(iprange(rt), ip)
    <3>1. p \in ToSet(told) /\ p \in NlRoutes
      BY <1>4, <2>2
    <3>2. PICK k \in DOMAIN nics : create_route(p) \in ToSet(nics[k].routes)
      BY <1>1, <3>1, HeldIsTold
    <3>3. create_route(p).table = "local" /\ ip_in_range(iprange(create_route(p)), ip)
      BY <2>2, <3>1, KeptIs
    <3> QED
      BY <3>2, <3>3
  <2> QED
    BY <2>1, <2>2 DEF ip_is_local
<1>9. ASSUME NEW set \in Asked
      PROVE  LET around == {r \in Told("route") : \A ip \in Elements(set) : Covers(r, ip)}
                 answer == srcroute_to_ipset(nics, set)
             IN IF around = {} THEN ~answer.ok
                ELSE /\ answer.ok
                     /\ \E r \in around :
                          \/ Hint(r) # 0 /\ answer.src = Hint(r)
                          \/ Hint(r) = 0 /\ (Unset(r.oif) \/ answer.src = Default(r.oif))
  <2> DEFINE around == {r \in Told("route") : \A ip \in Elements(set) : Covers(r, ip)}
             answer == srcroute_to_ipset(nics, set)
  <2>1. around = {p \in ToSet(told) : p \in NlRoutes /\ \A ip \in Elements(set) : Covers(p, ip)}
    BY <1>4
  <2>2. IF around = {} THEN ~answer.ok
        ELSE /\ answer.ok
             /\ \E r \in around : answer.src \in (IF Hint(r) = 0 THEN Due(told, r.oif) ELSE {Hint(r)})
    BY <1>1, <2>1, SourceIs
  <2> HIDE DEF around, answer
  <2>3. ASSUME NEW r \in around, answer.src \in (IF Hint(r) = 0 THEN Due(told, r.oif) ELSE {Hint(r)})
        PROVE  \/ Hint(r) # 0 /\ answer.src = Hint(r)
               \/ Hint(r) = 0 /\ (Unset(r.oif) \/ answer.src = Default(r.oif))
    BY <1>5, <2>3
  <2>4. IF around = {} THEN ~answer.ok
        ELSE /\ answer.ok
             /\ \E r \in around :
                  \/ Hint(r) # 0 /\ answer.src = Hint(r)
                  \/ Hint(r) = 0 /\ (Unset(r.oif) \/ answer.src = Default(r.oif))
    BY <2>2, <2>3
  <2> QED
    BY <2>4 DEF around, answer
<1> QED
  BY <1>3, <1>6, <1>7, <1>8, <1>9 DEF CacheIsWhatWasTold, nics, told

\* One part more is told.
LEMMA TellsOne ==
  ASSUME NEW told \in Seq(NlParts), NEW p \in NlParts
  PROVE  LET after == Append(told, p)
         IN /\ after \in Seq(NlParts) /\ Len(after) = Len(told) + 1 /\ Len(told) \in Nat
            /\ DOMAIN told = 1 .. Len(told) /\ DOMAIN after = 1 .. Len(told) + 1
            /\ after[Len(told) + 1] = p /\ \A k \in 1 .. Len(told) : after[k] = told[k]
            /\ ToSet(after) = ToSet(told) \cup {p}
            /\ \A x : Times(ToldLines(after), x) =
                         Times(ToldLines(told), x) + (IF x = LineOf(p) THEN 1 ELSE 0)
<1> DEFINE after == Append(told, p)
           n == Len(told)
<1>1. /\ after \in Seq(NlParts) /\ Len(after) = n + 1 /\ n \in Nat
      /\ DOMAIN told = 1 .. n /\ DOMAIN after = 1 .. n + 1
      /\ after[n + 1] = p /\ \A k \in 1 .. n : after[k] = told[k]
  OBVIOUS
<1> HIDE DEF after, n
<1>2. ToSet(after) = ToSet(told) \cup {p}
  <2>1. 1 .. n + 1 = (1 .. n) \cup {n + 1}
    BY <1>1
  <2>2. \A x : x \in ToSet(after) <=> \E k \in 1 .. n + 1 : after[k] = x
    BY <1>1 DEF ToSet
  <2>3. \A x : x \in ToSet(told) <=> \E k \in 1 .. n : told[k] = x
    BY <1>1 DEF ToSet
  <2>4. \A x : (\E k \in 1 .. n + 1 : after[k] = x) <=> (\E k \in 1 .. n : told[k] = x) \/ x = p
    BY <1>1, <2>1
  <2> QED
    BY <2>2, <2>3, <2>4
<1>3. ToldLines(after) = ToldLines(told) \o <<LineOf(p)>>
  <2> DEFINE a == ToldLines(told)
             b == <<LineOf(p)>>
  <2>1. /\ a \in Seq(NlLines) /\ Len(a) = n /\ \A k \in 1 .. n : a[k] = LineOf(told[k])
    BY ToldLinesAre DEF n
  <2>2. /\ ToldLines(after) \in Seq(NlLines) /\ Len(ToldLines(after)) = n + 1
        /\ \A k \in 1 .. n + 1 : ToldLines(after)[k] = LineOf(after[k])
    BY <1>1, ToldLinesAre
  <2>3. b \in Seq(NlLines) /\ Len(b) = 1 /\ b[1] = LineOf(p)
    BY LineOfIs
  <2> HIDE DEF a, b
  <2>4. /\ a \o b \in Seq(NlLines) /\ Len(a \o b) = Len(a) + Len(b)
        /\ \A k \in 1 .. Len(a) + Len(b) : (a \o b)[k] = IF k <= Len(a) THEN a[k] ELSE b[k - Len(a)]
    BY <2>1, <2>3, ConcatProperties
  <2>5. Len(a \o b) = n + 1 /\ \A k \in 1 .. n + 1 : (a \o b)[k] = IF k <= n THEN a[k] ELSE b[k - n]
    BY <2>1, <2>3, <2>4
  <2>6. \A k \in 1 .. n + 1 : ToldLines(after)[k] = (a \o b)[k]
    BY <1>1, <2>1, <2>2, <2>3, <2>5
  <2>7. ToldLines(after) = a \o b
    BY <2>2, <2>4, <2>5, <2>6, SeqEqual
  <2> QED
    BY <2>7 DEF a, b
<1>4. ASSUME NEW x
      PROVE  Times(ToldLines(after), x) = Times(ToldLines(told), x) + (IF x = LineOf(p) THEN 1 ELSE 0)
  <2>1. ToldLines(told) \in Seq(NlLines) /\ <<LineOf(p)>> \in Seq(NlLines)
    BY ToldLinesAre, LineOfIs
  <2>2. Times(ToldLines(told) \o <<LineOf(p)>>, x) = Times(ToldLines(told), x) + Times(<<LineOf(p)>>, x)
    BY <2>1, TimesBoth
  <2> QED
    BY <1>3, <2>2, TimesOnce
<1> QED
  BY <1>1, <1>2, <1>4 DEF after, n

\* One interface more is kept, before the others, or one of them changes.
LEMMA LinesFirst ==
  ASSUME NEW nics \in Seq(NlNics), NEW nic \in NlNics
  PROVE  LET after == <<nic>> \o nics
         IN /\ after \in Seq(NlNics) /\ Len(nics) \in Nat
            /\ DOMAIN after = 1 .. Len(nics) + 1 /\ DOMAIN nics = 1 .. Len(nics)
            /\ after[1] = nic /\ \A k \in 1 .. Len(nics) : after[k + 1] = nics[k]
            /\ \A x : Times(CacheLines(after), x) = Times(stringize_nic(nic), x) + Times(CacheLines(nics), x)
<1> DEFINE after == <<nic>> \o nics
           n == Len(nics)
           s == <<stringize_nic(nic)>>
           q == NicPieces(nics)
<1>1. /\ after \in Seq(NlNics) /\ Len(after) = n + 1 /\ n \in Nat
      /\ DOMAIN after = 1 .. n + 1 /\ DOMAIN nics = 1 .. n
      /\ after[1] = nic /\ \A k \in 1 .. n : after[k + 1] = nics[k]
  <2>1. <<nic>> \in Seq(NlNics) /\ Len(<<nic>>) = 1 /\ <<nic>>[1] = nic
    OBVIOUS
  <2>2. /\ after \in Seq(NlNics) /\ Len(after) = 1 + n /\ n \in Nat /\ DOMAIN nics = 1 .. n
        /\ \A k \in 1 .. 1 + n : after[k] = IF k <= 1 THEN <<nic>>[k] ELSE nics[k - 1]
    <3>1. /\ after \in Seq(NlNics) /\ Len(after) = Len(<<nic>>) + n
          /\ \A k \in 1 .. Len(<<nic>>) + n :
               after[k] = IF k <= Len(<<nic>>) THEN <<nic>>[k] ELSE nics[k - Len(<<nic>>)]
      BY <2>1, ConcatProperties
    <3> HIDE DEF after
    <3> QED
      BY <2>1, <3>1, LenProperties
  <2>3. DOMAIN after = 1 .. Len(after)
    BY <2>2, LenProperties
  <2> HIDE DEF after, n
  <2> QED
    BY <2>1, <2>2, <2>3
<1> HIDE DEF after, n
<1>2. NicPieces(after) = s \o q
  <2>1. /\ q \in Seq(Seq(NlLines)) /\ Len(q) = n
        /\ \A k \in 1 .. n : q[k] = stringize_nic(nics[k])
    BY PiecesAre DEF n
  <2>2. /\ NicPieces(after) \in Seq(Seq(NlLines)) /\ Len(NicPieces(after)) = n + 1
        /\ \A k \in 1 .. n + 1 : NicPieces(after)[k] = stringize_nic(after[k])
    BY <1>1, PiecesAre
  <2>3. s \in Seq(Seq(NlLines)) /\ Len(s) = 1 /\ s[1] = stringize_nic(nic)
    BY NicLinesAre
  <2> HIDE DEF s, q
  <2>4. /\ s \o q \in Seq(Seq(NlLines)) /\ Len(s \o q) = Len(s) + Len(q)
        /\ \A k \in 1 .. Len(s) + Len(q) : (s \o q)[k] = IF k <= Len(s) THEN s[k] ELSE q[k - Len(s)]
    BY <2>1, <2>3, ConcatProperties
  <2>5. Len(s \o q) = n + 1 /\ \A k \in 1 .. n + 1 : (s \o q)[k] = IF k <= 1 THEN s[k] ELSE q[k - 1]
    BY <1>1, <2>1, <2>3, <2>4
  <2>6. ASSUME NEW k \in 1 .. n + 1
        PROVE  NicPieces(after)[k] = (s \o q)[k]
    <3>1. CASE k = 1
      BY <1>1, <2>2, <2>3, <2>5, <3>1
    <3>2. CASE k # 1
      <4>1. k - 1 \in 1 .. n /\ (k - 1) + 1 = k /\ ~(k <= 1)
        BY <1>1, <3>2
      <4>2. after[k] = nics[k - 1]
        BY <1>1, <4>1
      <4> QED
        BY <2>1, <2>2, <2>5, <4>1, <4>2
    <3> QED
      BY <3>1, <3>2
  <2> QED
    BY <2>2, <2>4, <2>5, <2>6, SeqEqual
<1>3. ASSUME NEW x
      PROVE  Times(CacheLines(after), x) = Times(stringize_nic(nic), x) + Times(CacheLines(nics), x)
  <2>1. stringize_nic(nic) \in Seq(NlLines) /\ q \in Seq(Seq(NlLines)) /\ Len(q) \in Nat
    BY NicLinesAre, PiecesAre
  <2> HIDE DEF q
  <2>2. Times(FlattenSeq(<<stringize_nic(nic)>> \o q), x) = Times(stringize_nic(nic), x) + Times(FlattenSeq(q), x)
    BY <2>1, TimesFirst
  <2> QED
    BY <1>2, <2>2 DEF CacheLines, q
<1> QED
  BY <1>1, <1>3 DEF after, n

LEMMA LinesWithin ==
  ASSUME NEW nics \in Seq(NlNics), NEW m \in DOMAIN nics, NEW nic \in NlNics
  PROVE  LET after == [nics EXCEPT ![m] = nic]
         IN /\ after \in Seq(NlNics) /\ DOMAIN after = DOMAIN nics
            /\ after[m] = nic /\ \A k \in DOMAIN nics : k # m => after[k] = nics[k]
            /\ \A x : \A d \in Nat : Times(stringize_nic(nic), x) = Times(stringize_nic(nics[m]), x) + d
                 => Times(CacheLines(after), x) = Times(CacheLines(nics), x) + d
<1> DEFINE after == [nics EXCEPT ![m] = nic]
           n == Len(nics)
           q == NicPieces(nics)
           r == NicPieces(after)
<1>1. DOMAIN nics = 1 .. n /\ n \in Nat \ {0} /\ m \in 1 .. n
  OBVIOUS
<1>2. /\ after \in Seq(NlNics) /\ DOMAIN after = DOMAIN nics /\ Len(after) = n
      /\ after[m] = nic /\ \A k \in DOMAIN nics : k # m => after[k] = nics[k]
  <2>1. after \in Seq(NlNics) /\ Len(after) = n
    BY <1>1, ExceptSeq
  <2>2. DOMAIN after = DOMAIN nics /\ after[m] = nic /\ \A k \in DOMAIN nics : k # m => after[k] = nics[k]
    OBVIOUS
  <2> QED
    BY <2>1, <2>2
<1> HIDE DEF after, n
<1>3. q \in [1 .. n -> Seq(NlLines)] /\ \A k \in 1 .. n : q[k] = stringize_nic(nics[k])
  BY PiecesAre DEF n
<1>4. r \in [1 .. n -> Seq(NlLines)] /\ \A k \in 1 .. n : r[k] = stringize_nic(after[k])
  BY <1>2, PiecesAre
<1>5. ASSUME NEW x, NEW d \in Nat, Times(stringize_nic(nic), x) = Times(stringize_nic(nics[m]), x) + d
      PROVE  Times(CacheLines(after), x) = Times(CacheLines(nics), x) + d
  <2>1. \A k \in 1 .. n : k # m => r[k] = q[k]
    BY <1>1, <1>2, <1>3, <1>4
  <2>2. r[m] = stringize_nic(nic) /\ q[m] = stringize_nic(nics[m])
    BY <1>1, <1>2, <1>3, <1>4
  <2> HIDE DEF q, r
  <2>3. Times(r[m], x) = Times(q[m], x) + d
    BY <1>5, <2>2
  <2>4. SameBut(q, r, NlLines, n, m)
    BY <1>1, <1>3, <1>4, <2>1 DEF SameBut
  <2>5. Times(FlattenSeq(r), x) = Times(FlattenSeq(q), x) + d
    BY <1>5, <2>3, <2>4, TimesWithin
  <2> QED
    BY <2>5 DEF CacheLines, q, r
<1> QED
  BY <1>2, <1>5 DEF after

\* What is due to an interface changes with its own routes alone.
LEMMA DueAfter ==
  ASSUME NEW told \in Seq(NlParts), NEW p \in NlParts, NEW idx
  PROVE  /\ Own(Append(told, p), idx) =
              Own(told, idx) \cup (IF p.what = "link" /\ p.idx = idx THEN {p.was} ELSE {})
         /\ Theirs(Append(told, p), idx) =
              Theirs(told, idx) \cup
                (IF p.what = "route" /\ p.oif = idx /\ Given(p) # 0 THEN {Len(told) + 1} ELSE {})
         /\ Theirs(told, idx) # {} =>
              /\ Least(Theirs(told, idx)) \in Theirs(told, idx)
              /\ Least(Theirs(Append(told, p), idx)) = Least(Theirs(told, idx))
              /\ Append(told, p)[Least(Theirs(told, idx))] = told[Least(Theirs(told, idx))]
<1> DEFINE after == Append(told, p)
           n == Len(told)
<1>1. /\ n \in Nat /\ DOMAIN told = 1 .. n /\ DOMAIN after = 1 .. n + 1
      /\ after[n + 1] = p /\ \A k \in 1 .. n : after[k] = told[k]
      /\ ToSet(after) = ToSet(told) \cup {p}
  BY TellsOne
<1> HIDE DEF after, n
<1>2. Own(after, idx) = Own(told, idx) \cup (IF p.what = "link" /\ p.idx = idx THEN {p.was} ELSE {})
  BY <1>1 DEF Own
<1>3. Theirs(after, idx) =
        Theirs(told, idx) \cup (IF p.what = "route" /\ p.oif = idx /\ Given(p) # 0 THEN {n + 1} ELSE {})
  <2>1. 1 .. n + 1 = (1 .. n) \cup {n + 1}
    BY <1>1
  <2> QED
    BY <1>1, <2>1 DEF Theirs
<1>4. ASSUME Theirs(told, idx) # {}
      PROVE  /\ Least(Theirs(told, idx)) \in Theirs(told, idx)
             /\ Least(Theirs(after, idx)) = Least(Theirs(told, idx))
             /\ after[Least(Theirs(told, idx))] = told[Least(Theirs(told, idx))]
  <2> DEFINE S == Theirs(told, idx)
             T == Theirs(after, idx)
  <2>1. S \subseteq 1 .. n
    BY <1>1 DEF Theirs
  <2>2. S \in SUBSET Nat /\ T \in SUBSET Nat /\ S \subseteq T /\ T \subseteq S \cup {n + 1} /\ S # {}
    BY <1>1, <1>3, <1>4, <2>1
  <2> HIDE DEF S, T
  <2>3. Least(S) \in S /\ (\A y \in S : Least(S) <= y) /\ Least(T) \in T /\ \A y \in T : Least(T) <= y
    <3>1. Least(S) \in S /\ \A y \in S : Least(S) <= y
      BY <2>2, LeastIs
    <3>2. T # {}
      BY <2>2
    <3>3. Least(T) \in T /\ \A y \in T : Least(T) <= y
      BY <2>2, <3>2, LeastIs
    <3> QED
      BY <3>1, <3>3
  <2>4. Least(T) = Least(S)
    <3>1. Least(T) <= Least(S) /\ Least(S) \in 1 .. n
      BY <2>1, <2>2, <2>3
    <3>2. Least(T) \in S
      <4>1. n \in Nat /\ Least(T) \in S \cup {n + 1}
        BY <1>1, <2>2, <2>3
      <4>2. Least(T) # n + 1
        BY <3>1, <4>1
      <4> QED
        BY <4>1, <4>2
    <3>3. Least(S) <= Least(T) /\ Least(T) \in Nat /\ Least(S) \in Nat
      BY <2>2, <2>3, <3>2
    <3> QED
      BY <3>1, <3>3
  <2>5. Least(S) \in 1 .. n
    BY <2>1, <2>3
  <2> QED
    BY <1>1, <2>3, <2>4, <2>5 DEF S, T
<1> QED
  BY <1>2, <1>3, <1>4 DEF after, n

LEMMA DueElsewhere ==
  ASSUME NEW told \in Seq(NlParts), NEW p \in NlParts, NEW idx,
         ~(p.what = "link" /\ p.idx = idx), ~(p.what = "route" /\ p.oif = idx)
  PROVE  Due(Append(told, p), idx) = Due(told, idx)
<1>1. Own(Append(told, p), idx) = Own(told, idx) /\ Theirs(Append(told, p), idx) = Theirs(told, idx)
  <2>1. Own(Append(told, p), idx) = Own(told, idx) \cup (IF p.what = "link" /\ p.idx = idx THEN {p.was} ELSE {})
    BY DueAfter
  <2>2. Theirs(Append(told, p), idx) =
          Theirs(told, idx) \cup
            (IF p.what = "route" /\ p.oif = idx /\ Given(p) # 0 THEN {Len(told) + 1} ELSE {})
    BY DueAfter
  <2> QED
    BY <2>1, <2>2
<1>2. Theirs(told, idx) # {} =>
        Append(told, p)[Least(Theirs(told, idx))] = told[Least(Theirs(told, idx))]
  BY DueAfter
<1> QED
  BY <1>1, <1>2 DEF Due

LEMMA DueFromRoute ==
  ASSUME NEW told \in Seq(NlParts), NEW p \in NlRoutes, NEW a, Due(told, p.oif) = {a}
  PROVE  Due(Append(told, p), p.oif) = {IF a = 0 THEN Given(p) ELSE a}
<1> DEFINE after == Append(told, p)
           O == Own(told, p.oif)
           S == Theirs(told, p.oif)
           T == Theirs(after, p.oif)
<1> SUFFICES Due(after, p.oif) = {IF a = 0 THEN Given(p) ELSE a}
  OBVIOUS
<1>1. p \in NlParts /\ p.what = "route"
  BY DEF NlParts, NlRoutes
<1>2. /\ Own(after, p.oif) = O
      /\ T = S \cup (IF Given(p) # 0 THEN {Len(told) + 1} ELSE {})
      /\ S # {} => /\ Least(S) \in S /\ Least(T) = Least(S)
                   /\ after[Least(S)] = told[Least(S)]
  <2>1. Own(after, p.oif) = O \cup (IF p.what = "link" /\ p.idx = p.oif THEN {p.was} ELSE {})
    BY <1>1, DueAfter
  <2>2. T = S \cup (IF p.what = "route" /\ p.oif = p.oif /\ Given(p) # 0 THEN {Len(told) + 1} ELSE {})
    BY <1>1, DueAfter
  <2>3. S # {} => /\ Least(S) \in S /\ Least(T) = Least(S)
                  /\ after[Least(S)] = told[Least(S)]
    BY <1>1, DueAfter
  <2> HIDE DEF after, O, S, T
  <2> QED
    BY <1>1, <2>1, <2>2, <2>3
<1>3. /\ Due(after, p.oif) = IF O # {0} \/ T = {} THEN O ELSE {Given(after[Least(T)])}
      /\ {a} = IF O # {0} \/ S = {} THEN O ELSE {Given(told[Least(S)])}
  BY <1>2 DEF Due
<1>4. \A k \in S : Given(told[k]) # 0
  BY DEF Theirs
<1>5. after[Len(told) + 1] = p /\ Len(told) + 1 \in Nat
  BY <1>1, TellsOne
<1> HIDE DEF after, O, S, T
<1>6. CASE O # {0}
  BY <1>3, <1>6
<1>7. CASE O = {0} /\ S = {}
  <2>1. a = 0
    BY <1>3, <1>7
  <2>2. CASE Given(p) = 0
    BY <1>2, <1>3, <1>7, <2>1, <2>2
  <2>3. CASE Given(p) # 0
    <3>1. T = {Len(told) + 1}
      BY <1>2, <1>7, <2>3
    <3>2. Least(T) = Len(told) + 1
      <4>1. T \in SUBSET Nat /\ T # {}
        BY <1>5, <3>1
      <4>2. Least(T) \in T
        BY <4>1, LeastIs
      <4> QED
        BY <3>1, <4>2
    <3> QED
      BY <1>3, <1>5, <1>7, <2>1, <3>1, <3>2
  <2> QED
    BY <2>2, <2>3
<1>8. CASE O = {0} /\ S # {}
  <2>1. a = Given(told[Least(S)]) /\ a # 0
    BY <1>2, <1>3, <1>4, <1>8
  <2> QED
    BY <1>2, <1>3, <1>8, <2>1
<1> QED
  BY <1>6, <1>7, <1>8

\* An interface is added: no part told before is about it.
LEMMA NicIsAdded ==
  ASSUME NEW nics, NEW told, CacheOK(nics, told), NEW l \in NlLinks, NEW junk \in Addrs,
         ~Known(nics, l.idx)
  PROVE  CacheOK(add_nic_locked(nics, l, junk), Append(told, [l EXCEPT !.was = junk]))
<1> DEFINE nic == create_nic(l, junk)
           p == [l EXCEPT !.was = junk]
           after == <<nic>> \o nics
           tells == Append(told, p)
           n == Len(nics)
<1>1. nics \in Seq(NlNics) /\ told \in Seq(NlParts)
  BY DEF CacheOK
<1>2. /\ p \in NlLinks /\ p \in NlParts /\ p.what = "link" /\ p.idx = l.idx /\ p.mtu = l.mtu /\ p.was = junk
      /\ l.idx \in Nat \ {0} /\ l.mtu \in Nat
  BY DEF NlLinks, NlParts
<1>3. /\ nic \in NlNics /\ nic.idx = l.idx /\ nic.mtu = l.mtu /\ nic.srcaddr = junk
      /\ nic.routes = <<>> /\ nic.neighbors = <<>>
  <2>1. <<>> \in Seq(NlKept) /\ <<>> \in Seq(NlNeighs)
    OBVIOUS
  <2> QED
    BY <1>2, <2>1 DEF create_nic, NlNics
<1> HIDE DEF nic, p
<1>4. /\ after \in Seq(NlNics) /\ n \in Nat /\ DOMAIN after = 1 .. n + 1 /\ DOMAIN nics = 1 .. n
      /\ after[1] = nic /\ \A k \in 1 .. n : after[k + 1] = nics[k]
      /\ \A x : Times(CacheLines(after), x) = Times(stringize_nic(nic), x) + Times(CacheLines(nics), x)
  BY <1>1, <1>3, LinesFirst
<1>5. /\ tells \in Seq(NlParts)
      /\ \A x : Times(ToldLines(tells), x) = Times(ToldLines(told), x) + (IF x = LineOf(p) THEN 1 ELSE 0)
  BY <1>1, <1>2, TellsOne
<1> HIDE DEF after, n, tells
<1>6. \A k \in 1 .. n + 1 : after[k] = nic \/ \E j \in 1 .. n : k = j + 1 /\ after[k] = nics[j]
  <2>1. \A k \in 1 .. n + 1 : k = 1 \/ (k - 1 \in 1 .. n /\ k = (k - 1) + 1)
    BY <1>4
  <2> QED
    BY <1>4, <2>1
<1>7. \A j \in 1 .. n : nics[j].idx # l.idx
  BY <1>4 DEF Known
<1>8. ASSUME NEW j \in DOMAIN after, NEW k \in DOMAIN after, after[j].idx = after[k].idx
      PROVE  j = k
  <2>1. \A u, v \in 1 .. n : nics[u].idx = nics[v].idx => u = v
    BY <1>4 DEF CacheOK
  <2>2. \A k0 \in 1 .. n + 1 : k0 = 1 \/ \E j0 \in 1 .. n : k0 = j0 + 1 /\ after[k0] = nics[j0]
    <3>1. \A k0 \in 1 .. n + 1 : k0 = 1 \/ (k0 - 1 \in 1 .. n /\ k0 = (k0 - 1) + 1)
      BY <1>4
    <3> QED
      BY <1>4, <3>1
  <2>3. j \in 1 .. n + 1 /\ k \in 1 .. n + 1
    BY <1>4
  <2> QED
    BY <1>3, <1>4, <1>7, <1>8, <2>1, <2>2, <2>3
<1>9. ASSUME NEW x
      PROVE  Times(CacheLines(after), x) = Times(ToldLines(tells), x)
  <2>1. Times(stringize_nic(nic), x) = IF x = NicLine(nic) THEN 1 ELSE 0
    <3>1. RouteLines(nic) = <<>> /\ NeighLines(nic) = <<>>
      BY <1>3 DEF RouteLines, NeighLines
    <3>2. Times(RouteLines(nic), x) = 0 /\ Times(NeighLines(nic), x) = 0
      BY <3>1, TimesNone
    <3>3. Times(stringize_nic(nic), x) =
            (IF x = NicLine(nic) THEN 1 ELSE 0) + Times(RouteLines(nic), x) + Times(NeighLines(nic), x)
      BY <1>3, NicLinesAre
    <3> QED
      BY <3>2, <3>3
  <2>2. NicLine(nic) = LineOf(p)
    BY <1>2, <1>3, LineOfIs DEF NicLine
  <2>3. Times(CacheLines(nics), x) = Times(ToldLines(told), x) /\ Times(ToldLines(told), x) \in Nat
    BY <1>1, ToldLinesAre, TimesIs DEF CacheOK
  <2> QED
    BY <1>4, <1>5, <2>1, <2>2, <2>3
<1>10. Due(tells, l.idx) = {junk}
  <2>1. Own(told, l.idx) = {}
    <3>1. \A q \in ToSet(told) : q \in NlLinks => q.idx # l.idx
      <4> SUFFICES ASSUME NEW q \in ToSet(told), q \in NlLinks, q.idx = l.idx
                   PROVE  FALSE
        OBVIOUS
      <4>1. \E k \in DOMAIN nics : nics[k].idx = l.idx /\ nics[k].mtu = q.mtu
        BY HeldIsTold
      <4> QED
        BY <4>1 DEF Known
    <3>2. \A q \in ToSet(told) : q.what = "link" => q \in NlLinks
      <4>1. \A q \in ToSet(told) : q \in NlParts
        BY <1>1, ToldLinesAre DEF ToSet
      <4> QED
        BY <4>1, LineOfIs
    <3> QED
      BY <3>1, <3>2 DEF Own
  <2>2. Theirs(told, l.idx) = {}
    <3>1. \A q \in ToSet(told) : q \in NlRoutes => q.oif # l.idx
      <4> SUFFICES ASSUME NEW q \in ToSet(told), q \in NlRoutes, q.oif = l.idx
                   PROVE  FALSE
        OBVIOUS
      <4>1. \A i, rt : (\E k \in DOMAIN nics : nics[k].idx = i /\ rt \in ToSet(nics[k].routes))
                       <=> \E r \in ToSet(told) : r \in NlRoutes /\ r.oif = i /\ create_route(r) = rt
        BY HeldIsTold
      <4>2. \E k \in DOMAIN nics : nics[k].idx = l.idx /\ create_route(q) \in ToSet(nics[k].routes)
        BY <4>1, Zenon
      <4> QED
        BY <4>2 DEF Known
    <3>2. \A k \in DOMAIN told : told[k].what = "route" => told[k] \in NlRoutes /\ told[k] \in ToSet(told)
      <4>1. \A k \in DOMAIN told : told[k] \in NlParts /\ told[k] \in ToSet(told)
        BY <1>1, ToldLinesAre DEF ToSet
      <4> QED
        BY <4>1, LineOfIs
    <3> QED
      BY <3>1, <3>2 DEF Theirs
  <2>3. Own(tells, l.idx) = Own(told, l.idx) \cup (IF p.what = "link" /\ p.idx = l.idx THEN {p.was} ELSE {})
    BY <1>1, <1>2, DueAfter DEF tells
  <2>4. Theirs(tells, l.idx) = Theirs(told, l.idx) \cup
          (IF p.what = "route" /\ p.oif = l.idx /\ Given(p) # 0 THEN {Len(told) + 1} ELSE {})
    BY <1>1, <1>2, DueAfter DEF tells
  <2>5. p.what # "route"
    BY <1>2
  <2>6. Own(tells, l.idx) = {junk} /\ Theirs(tells, l.idx) = {}
    BY <1>2, <2>1, <2>2, <2>3, <2>4, <2>5
  <2> QED
    BY <2>6 DEF Due
<1>11. ASSUME NEW k \in DOMAIN after
       PROVE  Due(tells, after[k].idx) = {after[k].srcaddr}
  <2>1. CASE after[k] = nic
    BY <1>3, <1>10, <2>1
  <2>2. CASE \E j \in 1 .. n : after[k] = nics[j]
    <3>1. PICK j \in 1 .. n : after[k] = nics[j]
      BY <2>2
    <3>2. Due(told, nics[j].idx) = {nics[j].srcaddr} /\ nics[j].idx # l.idx
      BY <1>4, <1>7 DEF CacheOK
    <3>3. p.what # "route" /\ p.idx # nics[j].idx
      BY <1>2, <3>2
    <3>4. Due(tells, nics[j].idx) = Due(told, nics[j].idx)
      BY <1>1, <1>2, <3>3, DueElsewhere DEF tells
    <3> QED
      BY <3>1, <3>2, <3>4
  <2> QED
    BY <1>4, <1>6, <2>1, <2>2
<1> QED
  BY <1>4, <1>5, <1>8, <1>9, <1>11 DEF CacheOK, add_nic_locked, after, tells, nic, p

\* What no part told changes is kept when one interface holds one line more.
LEMMA NicIsKept ==
  ASSUME NEW nics, NEW told, CacheOK(nics, told), NEW p \in NlParts,
         NEW m \in DOMAIN nics, NEW nic \in NlNics, nic.idx = nics[m].idx,
         \A x : Times(stringize_nic(nic), x) =
                  Times(stringize_nic(nics[m]), x) + (IF x = LineOf(p) THEN 1 ELSE 0),
         p.what # "link", p.what = "route" => p.oif = nic.idx,
         Due(Append(told, p), nic.idx) = {nic.srcaddr}
  PROVE  CacheOK([nics EXCEPT ![m] = nic], Append(told, p))
<1> DEFINE after == [nics EXCEPT ![m] = nic]
           tells == Append(told, p)
<1>1. nics \in Seq(NlNics) /\ told \in Seq(NlParts)
  BY DEF CacheOK
<1>2. /\ after \in Seq(NlNics) /\ DOMAIN after = DOMAIN nics
      /\ after[m] = nic /\ \A k \in DOMAIN nics : k # m => after[k] = nics[k]
      /\ \A x : \A d \in Nat : Times(stringize_nic(nic), x) = Times(stringize_nic(nics[m]), x) + d
           => Times(CacheLines(after), x) = Times(CacheLines(nics), x) + d
  BY <1>1, LinesWithin
<1>3. /\ tells \in Seq(NlParts)
      /\ \A x : Times(ToldLines(tells), x) = Times(ToldLines(told), x) + (IF x = LineOf(p) THEN 1 ELSE 0)
  BY <1>1, TellsOne
<1> HIDE DEF after
<1>4. \A k \in DOMAIN nics : after[k].idx = nics[k].idx
  BY <1>2
<1>5. \A j, k \in DOMAIN after : after[j].idx = after[k].idx => j = k
  BY <1>2, <1>4 DEF CacheOK
<1>6. ASSUME NEW x
      PROVE  Times(CacheLines(after), x) = Times(ToldLines(tells), x)
  <2> DEFINE d == IF x = LineOf(p) THEN 1 ELSE 0
  <2>1. d \in Nat /\ Times(stringize_nic(nic), x) = Times(stringize_nic(nics[m]), x) + d
    OBVIOUS
  <2>2. Times(ToldLines(tells), x) = Times(ToldLines(told), x) + d
    BY <1>3
  <2> HIDE DEF d, tells
  <2>3. Times(CacheLines(after), x) = Times(CacheLines(nics), x) + d
    BY <1>2, <2>1
  <2>4. Times(CacheLines(nics), x) = Times(ToldLines(told), x)
    BY DEF CacheOK
  <2> QED
    BY <2>2, <2>3, <2>4
<1>7. ASSUME NEW k \in DOMAIN after
      PROVE  Due(tells, after[k].idx) = {after[k].srcaddr}
  <2>1. CASE k = m
    BY <1>2, <2>1
  <2>2. CASE k # m
    <3>1. k \in DOMAIN nics /\ after[k] = nics[k] /\ nics[k].idx # nic.idx
      BY <1>2, <2>2 DEF CacheOK
    <3>2. Due(tells, nics[k].idx) = Due(told, nics[k].idx)
      <4>1. ~(p.what = "link" /\ p.idx = nics[k].idx) /\ ~(p.what = "route" /\ p.oif = nics[k].idx)
        BY <3>1
      <4> QED
        BY <1>1, <4>1, DueElsewhere
    <3>3. Due(told, nics[k].idx) = {nics[k].srcaddr}
      BY <3>1 DEF CacheOK
    <3> QED
      BY <3>1, <3>2, <3>3
  <2> QED
    BY <2>1, <2>2
<1> QED
  BY <1>2, <1>3, <1>5, <1>6, <1>7 DEF CacheOK, after, tells

\* Where an interface that is known stands.
LEMMA NicAtIs ==
  ASSUME NEW nics \in Seq(NlNics), NEW idx, Known(nics, idx)
  PROVE  NicAt(nics, idx) \in DOMAIN nics /\ nics[NicAt(nics, idx)].idx = idx
<1> DEFINE S == {k \in DOMAIN nics : nics[k].idx = idx}
<1>1. S \in SUBSET Nat /\ S # {}
  <2>1. DOMAIN nics = 1 .. Len(nics) /\ Len(nics) \in Nat
    OBVIOUS
  <2> QED
    BY <2>1 DEF Known
<1>2. NicAt(nics, idx) \in S
  <2> HIDE DEF S
  <2>1. Least(S) \in S
    BY <1>1, LeastIs
  <2> QED
    BY <2>1 DEF NicAt, S
<1> QED
  BY <1>2

\* What comes first in a list, and what it adds.
LEMMA AheadIs ==
  ASSUME NEW X, NEW s \in Seq(X), NEW a \in X
  PROVE  /\ <<a>> \o s \in Seq(X) /\ Len(s) \in Nat
         /\ DOMAIN s = 1 .. Len(s) /\ DOMAIN (<<a>> \o s) = 1 .. Len(s) + 1
         /\ (<<a>> \o s)[1] = a /\ \A k \in 2 .. Len(s) + 1 : (<<a>> \o s)[k] = s[k - 1]
         /\ \A x : Times(<<a>> \o s, x) = Times(s, x) + (IF x = a THEN 1 ELSE 0)
<1> DEFINE one == <<a>>
           t == one \o s
           n == Len(s)
<1>1. one \in Seq(X) /\ Len(one) = 1 /\ one[1] = a /\ n \in Nat /\ DOMAIN s = 1 .. n
  OBVIOUS
<1>2. \A x : Times(one, x) = IF x = a THEN 1 ELSE 0
  BY TimesOnce
<1> HIDE DEF one
<1>3. /\ t \in Seq(X) /\ Len(t) = Len(one) + n
      /\ \A k \in 1 .. Len(one) + n : t[k] = IF k <= Len(one) THEN one[k] ELSE s[k - Len(one)]
  BY <1>1, ConcatProperties
<1>4. \A x : Times(t, x) = Times(one, x) + Times(s, x) /\ Times(s, x) \in Nat
  BY <1>1, TimesBoth, TimesIs
<1> HIDE DEF t, n
<1>5. DOMAIN t = 1 .. n + 1 /\ t[1] = a /\ \A k \in 2 .. n + 1 : t[k] = s[k - 1]
  <2>1. DOMAIN t = 1 .. n + 1
    BY <1>1, <1>3
  <2>2. \A k \in 1 .. n + 1 : t[k] = IF k <= 1 THEN one[k] ELSE s[k - 1]
    BY <1>1, <1>3
  <2>3. t[1] = a
    <3>1. 1 \in 1 .. n + 1 /\ 1 <= 1
      BY <1>1
    <3> QED
      BY <1>1, <2>2, <3>1
  <2>4. ASSUME NEW k \in 2 .. n + 1
        PROVE  t[k] = s[k - 1]
    <3>1. k \in 1 .. n + 1 /\ ~(k <= 1)
      BY <1>1
    <3> QED
      BY <2>2, <3>1, Zenon
  <2> QED
    BY <2>1, <2>3, <2>4
<1> QED
  BY <1>1, <1>2, <1>3, <1>4, <1>5 DEF t, n, one

WithRoute(nic, rt, src) == [nic EXCEPT !.routes = <<rt>> \o @, !.srcaddr = src]

LEMMA RoutesGrow ==
  ASSUME NEW nic \in NlNics, NEW rt \in NlKept, NEW src \in Addrs
  PROVE  LET after == WithRoute(nic, rt, src)
         IN /\ after \in NlNics /\ after.idx = nic.idx /\ after.srcaddr = src
            /\ \A x : Times(stringize_nic(after), x) =
                        Times(stringize_nic(nic), x)
                        + (IF x = [idx |-> nic.idx, route |-> rt] THEN 1 ELSE 0)
<1> DEFINE after == WithRoute(nic, rt, src)
           s == nic.routes
           line == [idx |-> nic.idx, route |-> rt]
           n == Len(s)
<1>1. /\ <<rt>> \o s \in Seq(NlKept) /\ n \in Nat /\ DOMAIN s = 1 .. n /\ DOMAIN (<<rt>> \o s) = 1 .. n + 1
      /\ (<<rt>> \o s)[1] = rt /\ \A k \in 2 .. n + 1 : (<<rt>> \o s)[k] = s[k - 1]
  <2>1. s \in Seq(NlKept)
    BY DEF NlNics
  <2> HIDE DEF s
  <2> QED
    BY <2>1, AheadIs DEF n
<1>2. /\ after \in NlNics /\ after.idx = nic.idx /\ after.mtu = nic.mtu /\ after.srcaddr = src
      /\ after.routes = <<rt>> \o s /\ after.neighbors = nic.neighbors /\ nic.idx \in Nat
  BY <1>1 DEF NlNics, WithRoute
<1> HIDE DEF after, s, n
<1>3. \A x : Times(RouteLines(after), x) = Times(RouteLines(nic), x) + (IF x = line THEN 1 ELSE 0)
  <2> DEFINE q == RouteLines(nic)
             r == RouteLines(after)
  <2>1. r \in Seq(NlLines) /\ q \in Seq(NlLines)
    BY <1>2, NicLinesAre
  <2>2. line \in NlLines
    BY <1>2 DEF NlLines
  <2>3. /\ DOMAIN q = 1 .. n /\ \A k \in 1 .. n : q[k] = [idx |-> nic.idx, route |-> s[k]]
    BY <1>1 DEF RouteLines, s
  <2>4. /\ DOMAIN r = 1 .. n + 1 /\ \A k \in 1 .. n + 1 : r[k] = [idx |-> nic.idx, route |-> (<<rt>> \o s)[k]]
    BY <1>1, <1>2 DEF RouteLines
  <2> HIDE DEF q, r, line
  <2>5. Len(q) = n
    BY <1>1, <2>1, <2>3
  <2>6. /\ <<line>> \o q \in Seq(NlLines) /\ DOMAIN (<<line>> \o q) = 1 .. n + 1
        /\ (<<line>> \o q)[1] = line /\ \A k \in 2 .. n + 1 : (<<line>> \o q)[k] = q[k - 1]
        /\ \A x : Times(<<line>> \o q, x) = Times(q, x) + (IF x = line THEN 1 ELSE 0)
    BY <2>1, <2>2, <2>5, AheadIs
  <2>7. ASSUME NEW k \in 1 .. n + 1
        PROVE  r[k] = (<<line>> \o q)[k]
    <3>1. CASE k = 1
      BY <1>1, <2>4, <2>6, <3>1 DEF line
    <3>2. CASE k # 1
      <4>1. k \in 2 .. n + 1 /\ k - 1 \in 1 .. n
        BY <1>1, <3>2
      <4> QED
        BY <1>1, <2>3, <2>4, <2>6, <4>1
    <3> QED
      BY <3>1, <3>2
  <2>8. r = <<line>> \o q
    <3>1. Len(r) = n + 1 /\ Len(<<line>> \o q) = n + 1
      BY <1>1, <2>1, <2>4, <2>6, LenProperties
    <3> QED
      BY <2>1, <2>6, <2>7, <3>1, SeqEqual
  <2> QED
    BY <2>6, <2>8 DEF q, r
<1>4. NeighLines(after) = NeighLines(nic) /\ NicLine(after) = NicLine(nic)
  BY <1>2 DEF NeighLines, NicLine
<1>5. ASSUME NEW x
      PROVE  Times(stringize_nic(after), x) = Times(stringize_nic(nic), x) + (IF x = line THEN 1 ELSE 0)
  <2>1. Times(stringize_nic(after), x) =
          (IF x = NicLine(after) THEN 1 ELSE 0) + Times(RouteLines(after), x) + Times(NeighLines(after), x)
    BY <1>2, NicLinesAre
  <2>2. Times(stringize_nic(nic), x) =
          (IF x = NicLine(nic) THEN 1 ELSE 0) + Times(RouteLines(nic), x) + Times(NeighLines(nic), x)
    BY NicLinesAre
  <2>3. Times(RouteLines(nic), x) \in Nat /\ Times(NeighLines(nic), x) \in Nat
    BY NicLinesAre, TimesIs
  <2> HIDE DEF line
  <2> QED
    BY <1>3, <1>4, <2>1, <2>2, <2>3
<1> QED
  BY <1>2, <1>5 DEF after, s

LEMMA NeighsGrow ==
  ASSUME NEW nic \in NlNics, NEW h \in NlNeighs
  PROVE  LET after == [nic EXCEPT !.neighbors = <<h>> \o @]
         IN /\ after \in NlNics /\ after.idx = nic.idx /\ after.srcaddr = nic.srcaddr
            /\ \A x : Times(stringize_nic(after), x) =
                        Times(stringize_nic(nic), x)
                        + (IF x = [idx |-> nic.idx, neigh |-> h] THEN 1 ELSE 0)
<1> DEFINE after == [nic EXCEPT !.neighbors = <<h>> \o @]
           s == nic.neighbors
           line == [idx |-> nic.idx, neigh |-> h]
           n == Len(s)
<1>1. /\ <<h>> \o s \in Seq(NlNeighs) /\ n \in Nat /\ DOMAIN s = 1 .. n /\ DOMAIN (<<h>> \o s) = 1 .. n + 1
      /\ (<<h>> \o s)[1] = h /\ \A k \in 2 .. n + 1 : (<<h>> \o s)[k] = s[k - 1]
  <2>1. s \in Seq(NlNeighs)
    BY DEF NlNics
  <2> HIDE DEF s
  <2> QED
    BY <2>1, AheadIs DEF n
<1>2. /\ after \in NlNics /\ after.idx = nic.idx /\ after.mtu = nic.mtu /\ after.srcaddr = nic.srcaddr
      /\ after.neighbors = <<h>> \o s /\ after.routes = nic.routes /\ nic.idx \in Nat
  BY <1>1 DEF NlNics
<1> HIDE DEF after, s, n
<1>3. \A x : Times(NeighLines(after), x) = Times(NeighLines(nic), x) + (IF x = line THEN 1 ELSE 0)
  <2> DEFINE q == NeighLines(nic)
             r == NeighLines(after)
  <2>1. r \in Seq(NlLines) /\ q \in Seq(NlLines)
    BY <1>2, NicLinesAre
  <2>2. line \in NlLines
    BY <1>2 DEF NlLines
  <2>3. /\ DOMAIN q = 1 .. n /\ \A k \in 1 .. n : q[k] = [idx |-> nic.idx, neigh |-> s[k]]
    BY <1>1 DEF NeighLines, s
  <2>4. /\ DOMAIN r = 1 .. n + 1 /\ \A k \in 1 .. n + 1 : r[k] = [idx |-> nic.idx, neigh |-> (<<h>> \o s)[k]]
    BY <1>1, <1>2 DEF NeighLines
  <2> HIDE DEF q, r, line
  <2>5. Len(q) = n
    BY <1>1, <2>1, <2>3
  <2>6. /\ <<line>> \o q \in Seq(NlLines) /\ DOMAIN (<<line>> \o q) = 1 .. n + 1
        /\ (<<line>> \o q)[1] = line /\ \A k \in 2 .. n + 1 : (<<line>> \o q)[k] = q[k - 1]
        /\ \A x : Times(<<line>> \o q, x) = Times(q, x) + (IF x = line THEN 1 ELSE 0)
    BY <2>1, <2>2, <2>5, AheadIs
  <2>7. ASSUME NEW k \in 1 .. n + 1
        PROVE  r[k] = (<<line>> \o q)[k]
    <3>1. CASE k = 1
      BY <1>1, <2>4, <2>6, <3>1 DEF line
    <3>2. CASE k # 1
      <4>1. k \in 2 .. n + 1 /\ k - 1 \in 1 .. n
        BY <1>1, <3>2
      <4> QED
        BY <1>1, <2>3, <2>4, <2>6, <4>1
    <3> QED
      BY <3>1, <3>2
  <2>8. r = <<line>> \o q
    <3>1. Len(r) = n + 1 /\ Len(<<line>> \o q) = n + 1
      BY <1>1, <2>1, <2>4, <2>6, LenProperties
    <3> QED
      BY <2>1, <2>6, <2>7, <3>1, SeqEqual
  <2> QED
    BY <2>6, <2>8 DEF q, r
<1>4. RouteLines(after) = RouteLines(nic) /\ NicLine(after) = NicLine(nic)
  BY <1>2 DEF RouteLines, NicLine
<1>5. ASSUME NEW x
      PROVE  Times(stringize_nic(after), x) = Times(stringize_nic(nic), x) + (IF x = line THEN 1 ELSE 0)
  <2>1. Times(stringize_nic(after), x) =
          (IF x = NicLine(after) THEN 1 ELSE 0) + Times(RouteLines(after), x) + Times(NeighLines(after), x)
    BY <1>2, NicLinesAre
  <2>2. Times(stringize_nic(nic), x) =
          (IF x = NicLine(nic) THEN 1 ELSE 0) + Times(RouteLines(nic), x) + Times(NeighLines(nic), x)
    BY NicLinesAre
  <2>3. Times(NeighLines(nic), x) \in Nat /\ Times(RouteLines(nic), x) \in Nat
    BY NicLinesAre, TimesIs
  <2> HIDE DEF line
  <2> QED
    BY <1>3, <1>4, <2>1, <2>2, <2>3
<1> QED
  BY <1>2, <1>5 DEF after, s

\* A neighbour and a route are added to an interface that is known.
LEMMA NeighIsAdded ==
  ASSUME NEW nics, NEW told, CacheOK(nics, told), NEW p \in NlNeighs, Known(nics, p.idx)
  PROVE  CacheOK(add_neigh_locked(nics, p), Append(told, p))
<1> DEFINE m == NicAt(nics, p.idx)
           nic == [nics[m] EXCEPT !.neighbors = <<p>> \o @]
<1>1. nics \in Seq(NlNics) /\ told \in Seq(NlParts)
  BY DEF CacheOK
<1>2. m \in DOMAIN nics /\ nics[m].idx = p.idx /\ nics[m] \in NlNics
  <2>1. m \in DOMAIN nics /\ nics[m].idx = p.idx
    BY <1>1, NicAtIs
  <2> HIDE DEF m
  <2> QED
    BY <1>1, <2>1
<1>3. p \in NlParts /\ p.what = "neigh" /\ LineOf(p) = [idx |-> p.idx, neigh |-> p]
  <2>1. p \in NlParts
    BY DEF NlParts
  <2> QED
    BY <2>1, LineOfIs
<1>4. add_neigh_locked(nics, p) = [nics EXCEPT ![m] = nic]
  BY DEF add_neigh_locked
<1> HIDE DEF m
<1>5. /\ nic \in NlNics /\ nic.idx = nics[m].idx /\ nic.srcaddr = nics[m].srcaddr
      /\ \A x : Times(stringize_nic(nic), x) = Times(stringize_nic(nics[m]), x) + (IF x = LineOf(p) THEN 1 ELSE 0)
  <2>1. /\ nic \in NlNics /\ nic.idx = nics[m].idx /\ nic.srcaddr = nics[m].srcaddr
        /\ \A x : Times(stringize_nic(nic), x) =
                    Times(stringize_nic(nics[m]), x)
                    + (IF x = [idx |-> nics[m].idx, neigh |-> p] THEN 1 ELSE 0)
    BY <1>2, NeighsGrow
  <2> HIDE DEF nic
  <2>2. LineOf(p) = [idx |-> nics[m].idx, neigh |-> p]
    BY <1>2, <1>3
  <2> QED
    BY <2>1, <2>2
<1>6. Due(Append(told, p), nic.idx) = {nic.srcaddr}
  <2>1. Due(told, nics[m].idx) = {nics[m].srcaddr}
    BY <1>2 DEF CacheOK
  <2>2. ~(p.what = "link" /\ p.idx = nic.idx) /\ ~(p.what = "route" /\ p.oif = nic.idx)
    BY <1>3
  <2> HIDE DEF nic
  <2>3. Due(Append(told, p), nic.idx) = Due(told, nic.idx)
    BY <1>1, <1>3, <2>2, DueElsewhere
  <2> QED
    BY <1>5, <2>1, <2>3
<1> HIDE DEF nic
<1>7. p.what # "link" /\ p.what # "route"
  BY <1>3
<1>8. CacheOK([nics EXCEPT ![m] = nic], Append(told, p))
  BY <1>2, <1>3, <1>5, <1>6, <1>7, NicIsKept
<1> QED
  BY <1>4, <1>8

LEMMA RouteIsAdded ==
  ASSUME NEW nics, NEW told, CacheOK(nics, told), NEW p \in NlRoutes, Known(nics, p.oif)
  PROVE  CacheOK(add_route_locked(nics, p), Append(told, p))
<1> DEFINE m == NicAt(nics, p.oif)
           rt == create_route(p)
           a == nics[m].srcaddr
           src == IF a = 0 THEN SourceOf(rt) ELSE a
           nic == WithRoute(nics[m], rt, src)
<1>1. nics \in Seq(NlNics) /\ told \in Seq(NlParts)
  BY DEF CacheOK
<1>2. m \in DOMAIN nics /\ nics[m].idx = p.oif /\ nics[m] \in NlNics /\ a \in Addrs
  <2>1. m \in DOMAIN nics /\ nics[m].idx = p.oif
    BY <1>1, NicAtIs
  <2> HIDE DEF m
  <2>2. nics[m] \in NlNics
    BY <1>1, <2>1
  <2> QED
    BY <2>1, <2>2 DEF NlNics
<1>3. p \in NlParts /\ p.what = "route" /\ LineOf(p) = [idx |-> p.oif, route |-> rt]
  <2>1. p \in NlParts
    BY DEF NlParts
  <2> QED
    BY <2>1, LineOfIs
<1>4. add_route_locked(nics, p) = [nics EXCEPT ![m] = nic]
  <2>1. m \in DOMAIN nics
    BY <1>2
  <2> QED
    BY <2>1 DEF add_route_locked, WithRoute
<1>5. rt \in NlKept /\ SourceOf(rt) = Given(p) /\ SourceOf(rt) \in Addrs
  <2>1. /\ rt = [dst |-> p.dst, src |-> p.src, bits |-> p.bits, table |-> p.table, type |-> p.type]
        /\ rt \in NlKept /\ Hint(p) = p.src
    BY KeptIs
  <2>2. p.dst \in Addrs /\ p.src \in Addrs
    BY DEF NlRoutes
  <2> HIDE DEF rt
  <2> QED
    BY <2>1, <2>2 DEF SourceOf, Given
<1> HIDE DEF m, rt
<1>6. src \in Addrs
  BY <1>2, <1>5
<1>7. Due(Append(told, p), p.oif) = {src}
  <2>1. Due(told, p.oif) = {a}
    BY <1>2 DEF CacheOK
  <2>2. Due(Append(told, p), p.oif) = {IF a = 0 THEN Given(p) ELSE a}
    BY <1>1, <2>1, DueFromRoute
  <2> QED
    BY <1>5, <2>2
<1> HIDE DEF src
<1>8. /\ nic \in NlNics /\ nic.idx = nics[m].idx /\ nic.srcaddr = src
      /\ \A x : Times(stringize_nic(nic), x) = Times(stringize_nic(nics[m]), x) + (IF x = LineOf(p) THEN 1 ELSE 0)
  <2>1. /\ nic \in NlNics /\ nic.idx = nics[m].idx /\ nic.srcaddr = src
        /\ \A x : Times(stringize_nic(nic), x) =
                    Times(stringize_nic(nics[m]), x)
                    + (IF x = [idx |-> nics[m].idx, route |-> rt] THEN 1 ELSE 0)
    BY <1>2, <1>5, <1>6, RoutesGrow
  <2> HIDE DEF nic
  <2>2. LineOf(p) = [idx |-> nics[m].idx, route |-> rt]
    BY <1>2, <1>3
  <2> QED
    BY <2>1, <2>2
<1> HIDE DEF nic
<1>9. p.what # "link" /\ p.oif = nic.idx /\ Due(Append(told, p), nic.idx) = {nic.srcaddr}
  BY <1>2, <1>3, <1>7, <1>8
<1>10. CacheOK([nics EXCEPT ![m] = nic], Append(told, p))
  BY <1>2, <1>3, <1>8, <1>9, NicIsKept
<1> QED
  BY <1>4, <1>10

\* Nothing is kept, and nothing was told.
LEMMA NothingKept == CacheOK(<<>>, <<>>)
<1>1. <<>> \in Seq(NlNics) /\ <<>> \in Seq(NlParts) /\ DOMAIN <<>> = {}
  OBVIOUS
<1>2. CacheLines(<<>>) = <<>>
  <2>1. NicPieces(<<>>) = <<>> /\ Len(<<>>) = 0
    BY DEF NicPieces
  <2> QED
    BY <2>1 DEF CacheLines, FlattenSeq
<1>3. ToldLines(<<>>) = <<>>
  BY DEF ToldLines
<1> QED
  BY <1>1, <1>2, <1>3 DEF CacheOK

LEMMA NetlinkStarts == NlInit => NlInv
<1> SUFFICES ASSUME NlInit
             PROVE  NlInv
  OBVIOUS
<1>1. nl = [phase |-> "idle", sd |-> -1, open |-> {}, nics |-> <<>>, told |-> <<>>]
  BY DEF NlInit
<1>2. MaxOpen \in Nat /\ -1 \in -1 .. MaxOpen /\ {} \in SUBSET (0 .. MaxOpen)
  BY NetlinkAssumption
<1>3. <<>> \in Seq(NlNics) /\ <<>> \in Seq(NlParts)
  OBVIOUS
<1>4. nl \in NlStates
  BY <1>1, <1>2, <1>3 DEF NlStates, NlPhases
<1>5. nl.sd = -1 /\ nl.phase = "idle" /\ nl.nics = <<>> /\ nl.told = <<>>
  BY <1>1
<1> QED
  BY <1>4, <1>5, NothingKept DEF NlInv

LEMMA NetlinkStays == NlInv /\ [NlNext]_nlvars => NlInv'
<1> SUFFICES ASSUME NlInv, [NlNext]_nlvars
             PROVE  NlInv'
  OBVIOUS
<1>1. /\ nl.phase \in NlPhases /\ nl.sd \in -1 .. MaxOpen /\ nl.open \in SUBSET (0 .. MaxOpen)
      /\ nl.nics \in Seq(NlNics) /\ nl.told \in Seq(NlParts) /\ MaxOpen \in Nat
      /\ nl = [phase |-> nl.phase, sd |-> nl.sd, open |-> nl.open, nics |-> nl.nics, told |-> nl.told]
  BY NetlinkAssumption DEF NlInv, NlStates
<1>2. /\ CacheOK(nl.nics, nl.told) /\ (nl.sd # -1 => nl.sd \in nl.open)
      /\ (nl.sd = -1 => nl.phase = "idle" /\ nl.nics = <<>> /\ nl.told = <<>>)
  BY DEF NlInv
<1>3. ASSUME NEW s, s \in {nl, [nl EXCEPT !.sd = -1]}, nl' = stop_netlink_state(s)
      PROVE  NlInv'
  <2>1. s.open \in SUBSET (0 .. MaxOpen)
    BY <1>1, <1>3
  <2>2. nl' = [phase |-> "idle", sd |-> -1, open |-> s.open \ {s.sd}, nics |-> <<>>, told |-> <<>>]
    BY <1>3 DEF stop_netlink_state
  <2>3. -1 \in -1 .. MaxOpen /\ s.open \ {s.sd} \in SUBSET (0 .. MaxOpen) /\ <<>> \in Seq(NlNics) /\ <<>> \in Seq(NlParts)
    BY <1>1, <2>1
  <2>4. nl' \in NlStates
    BY <2>2, <2>3 DEF NlStates, NlPhases
  <2>5. nl'.sd = -1 /\ nl'.phase = "idle" /\ nl'.nics = <<>> /\ nl'.told = <<>>
    BY <2>2
  <2> QED
    BY <2>4, <2>5, NothingKept DEF NlInv
<1>4. ASSUME NEW ph \in NlPhases, nl.sd # -1 \/ ph = "idle", nl' = [nl EXCEPT !.phase = ph]
      PROVE  NlInv'
  <2>1. nl' \in NlStates /\ nl'.sd = nl.sd /\ nl'.open = nl.open /\ nl'.nics = nl.nics /\ nl'.told = nl.told /\ nl'.phase = ph
    BY <1>1, <1>4 DEF NlStates
  <2> QED
    BY <1>2, <1>4, <2>1 DEF NlInv
<1>5. ASSUME NEW nics \in Seq(NlNics), NEW p \in NlParts, nl.sd # -1,
             CacheOK(nics, Append(nl.told, p)),
             nl' = [nl EXCEPT !.nics = nics, !.told = Append(@, p)]
      PROVE  NlInv'
  <2>1. Append(nl.told, p) \in Seq(NlParts)
    BY <1>1
  <2>2. /\ nl' \in NlStates /\ nl'.sd = nl.sd /\ nl'.open = nl.open
        /\ nl'.nics = nics /\ nl'.told = Append(nl.told, p)
    BY <1>1, <1>5, <2>1 DEF NlStates
  <2> QED
    BY <1>2, <1>5, <2>2 DEF NlInv
<1>6. nl.phase # "idle" => nl.sd # -1
  BY <1>2
<1>7. CASE Begin
  <2> DEFINE free == 0 .. MaxOpen \ nl.open
  <2>1. free \in SUBSET Nat /\ free # {}
    <3>1. Cardinality(nl.open) < MaxOpen
      BY <1>7 DEF Begin
    <3>2. Cardinality(0 .. MaxOpen) = MaxOpen + 1
      <4>1. Cardinality(0 .. MaxOpen) = IF 0 > MaxOpen THEN 0 ELSE MaxOpen - 0 + 1
        <5>1. 0 \in Int /\ MaxOpen \in Int
          BY <1>1
        <5>2. \A u, v \in Int : Cardinality(u .. v) = IF u > v THEN 0 ELSE v - u + 1
          BY FS_Interval, Zenon
        <5> QED
          BY <5>1, <5>2
      <4> QED
        BY <1>1, <4>1
    <3>3. nl.open # 0 .. MaxOpen
      BY <1>1, <3>1, <3>2
    <3>4. \E d \in 0 .. MaxOpen : d \notin nl.open
      BY <1>1, <3>3
    <3> QED
      BY <1>1, <3>4
  <2>2. Least(free) \in free
    BY <2>1, LeastIs
  <2> DEFINE sd == Least(free)
  <2>3. sd \in 0 .. MaxOpen /\ sd \in -1 .. MaxOpen /\ sd # -1
    BY <1>1, <2>2
  <2>4. nl' = [nl EXCEPT !.phase = "ask links", !.sd = sd, !.open = @ \cup {sd}]
    BY <1>7 DEF Begin
  <2> HIDE DEF free, sd
  <2>5. /\ nl' \in NlStates /\ nl'.sd = sd /\ nl'.open = nl.open \cup {sd}
        /\ nl'.nics = nl.nics /\ nl'.told = nl.told
    BY <1>1, <2>3, <2>4 DEF NlStates, NlPhases
  <2> QED
    BY <1>2, <2>3, <2>5 DEF NlInv
<1>8. CASE NoBuffer \/ Broken \/ stop_netlink_layer
  <2>1. nl' = stop_netlink_state(nl)
    BY <1>8 DEF NoBuffer, Broken, stop_netlink_layer, Refuse
  <2> QED
    BY <1>3, <2>1
<1>9. CASE NoSocket
  BY <1>3, <1>9 DEF NoSocket
<1>10. CASE Ask
  <2>1. nl.sd # -1 /\ nl.phase \in DOMAIN Asking /\ \A ph \in DOMAIN Asking : Asking[ph] \in NlPhases
    BY <1>6, <1>10 DEF Ask, Asking, NlPhases
  <2>2. nl' = [nl EXCEPT !.phase = Asking[nl.phase]] \/ nl' = stop_netlink_state(nl)
    BY <1>10 DEF Ask, Refuse
  <2> QED
    BY <1>3, <1>4, <2>1, <2>2
<1>11. CASE NewLink
  <2>1. nl.sd # -1
    BY <1>6, <1>11 DEF NewLink
  <2>2. PICK l \in Links, junk \in Junk :
          IF Known(nl.nics, l.idx) THEN Refuse
          ELSE Tells([l EXCEPT !.was = junk], add_nic_locked(nl.nics, l, junk))
    BY <1>11 DEF NewLink
  <2>3. l \in NlLinks /\ junk \in Addrs
    BY NetlinkAssumption DEF NlLinks
  <2>4. CASE Known(nl.nics, l.idx)
    BY <1>3, <2>2, <2>4 DEF Refuse
  <2>5. CASE ~Known(nl.nics, l.idx)
    <3> DEFINE p == [l EXCEPT !.was = junk]
               nics == add_nic_locked(nl.nics, l, junk)
    <3>1. nl' = [nl EXCEPT !.nics = nics, !.told = Append(@, p)]
      BY <2>2, <2>5 DEF Tells
    <3>2. CacheOK(nics, Append(nl.told, p))
      BY <1>2, <2>3, <2>5, NicIsAdded
    <3>3. p \in NlParts
      BY <2>3 DEF NlLinks, NlParts
    <3> HIDE DEF p, nics
    <3>4. nics \in Seq(NlNics)
      BY <3>2 DEF CacheOK
    <3> QED
      BY <1>5, <2>1, <3>1, <3>2, <3>3, <3>4
  <2> QED
    BY <2>4, <2>5
<1>12. CASE NewNeigh
  <2>1. nl.sd # -1
    BY <1>6, <1>12 DEF NewNeigh
  <2>2. PICK n \in Neighs :
          IF Known(nl.nics, n.idx) THEN Tells(n, add_neigh_locked(nl.nics, n)) ELSE Refuse
    BY <1>12 DEF NewNeigh
  <2>3. n \in NlNeighs /\ n \in NlParts
    BY NetlinkAssumption DEF NlNeighs, NlParts
  <2>4. CASE ~Known(nl.nics, n.idx)
    BY <1>3, <2>2, <2>4 DEF Refuse
  <2>5. CASE Known(nl.nics, n.idx)
    <3> DEFINE nics == add_neigh_locked(nl.nics, n)
    <3>1. nl' = [nl EXCEPT !.nics = nics, !.told = Append(@, n)]
      BY <2>2, <2>5 DEF Tells
    <3>2. CacheOK(nics, Append(nl.told, n))
      BY <1>2, <2>3, <2>5, NeighIsAdded
    <3> HIDE DEF nics
    <3>3. nics \in Seq(NlNics)
      BY <3>2 DEF CacheOK
    <3> QED
      BY <1>5, <2>1, <2>3, <3>1, <3>2, <3>3
  <2> QED
    BY <2>4, <2>5
<1>13. CASE FreesJunk
  BY <1>4, <1>6, <1>13 DEF FreesJunk, NlPhases
<1>14. CASE NewRoute
  <2>1. nl.sd # -1
    BY <1>6, <1>14 DEF NewRoute
  <2>2. PICK r \in Routes :
          \/ UNCHANGED nl
          \/ IF Known(nl.nics, r.oif) THEN Tells(r, add_route_locked(nl.nics, r)) ELSE Refuse
    BY <1>14 DEF NewRoute
  <2>3. r \in NlRoutes /\ r \in NlParts
    BY NetlinkAssumption DEF NlRoutes, NlParts
  <2>4. CASE UNCHANGED nl
    BY <2>4 DEF NlInv
  <2>5. CASE nl' = stop_netlink_state(nl)
    BY <1>3, <2>5
  <2>6. CASE Known(nl.nics, r.oif) /\ Tells(r, add_route_locked(nl.nics, r))
    <3> DEFINE nics == add_route_locked(nl.nics, r)
    <3>1. nl' = [nl EXCEPT !.nics = nics, !.told = Append(@, r)]
      BY <2>6 DEF Tells
    <3>2. CacheOK(nics, Append(nl.told, r))
      BY <1>2, <2>3, <2>6, RouteIsAdded
    <3> HIDE DEF nics
    <3>3. nics \in Seq(NlNics)
      BY <3>2 DEF CacheOK
    <3> QED
      BY <1>5, <2>1, <2>3, <3>1, <3>2, <3>3
  <2> QED
    BY <2>2, <2>4, <2>5, <2>6 DEF Refuse
<1>15. CASE Done
  <2>1. PICK ph \in {"ask neighs", "ask routes", "idle"} : nl' = [nl EXCEPT !.phase = ph] /\ nl.phase # "idle"
    BY <1>15 DEF Done
  <2> QED
    BY <1>4, <1>6, <2>1 DEF NlPhases
<1>16. CASE UNCHANGED nlvars
  BY <1>16 DEF NlInv, nlvars
<1> QED
  BY <1>7, <1>8, <1>9, <1>10, <1>11, <1>12, <1>13, <1>14, <1>15, <1>16 DEF NlNext

\* However far the dumps have come, and however often the layer was started, failed and
\* was stopped, the cache holds every interface, neighbour and route it was told, once and
\* under its interface, and the questions other threads ask are answered from them: the
\* source of a route with no hint is what its interface was given first, where the
\* memory of the interface was zero; nothing is proved of it where it was not.
THEOREM NetlinkCorrect == NlSpec => []CacheIsWhatWasTold
<1>1. NlInit => NlInv
  BY NetlinkStarts
<1>2. NlInv /\ [NlNext]_nlvars => NlInv'
  BY NetlinkStays
<1>3. NlInv => CacheIsWhatWasTold
  BY CacheAnswers
<1> QED
  BY <1>1, <1>2, <1>3, PTL DEF NlSpec
===============================================================================
