------------------------------- MODULE Lexers -------------------------------
(***************************************************************************)
(* The lexers of numbers, libdank/objects/lexers.c.  Text is a sequence of   *)
(* characters; a result says whether a number was taken, where the text goes *)
(* on and what the number is.                                                *)
(***************************************************************************)
EXTENDS Texts

CONSTANT Uninit   \* values that lex_sint() may find in uv, which it does not set

Space == {" ", "\n"}
Decimal == <<"0", "1", "2", "3", "4", "5", "6", "7", "8", "9">>
Hex == Decimal \o <<"a", "b", "c", "d", "e", "f">>
Punct == {"-", ".", "/", ",", ":", "#"}
Digits == {Decimal[k] : k \in DOMAIN Decimal}
HexDigits == {Hex[k] : k \in DOMAIN Hex}
Ordinal == [c \in HexDigits |-> (CHOOSE k \in DOMAIN Hex : Hex[k] = c) - 1]

NotANumber == [ok |-> FALSE, at |-> 1, val |-> 0]
Lexed(at, val) == [ok |-> val >= 0, at |-> IF val >= 0 THEN at ELSE 1, val |-> IF val >= 0 THEN val ELSE 0]


\* Two tests, each of which must not itself overflow.
would_overflow(bits, augend, addend, base) ==
  LET max == (2 ^ bits) - 1
  IN augend > max \div base \/ max - augend * base < addend

\* The digits from i to j, one after the other, on top of augend; -1 is an error.
safely_add(augend, s, i, j, bits, base) ==
  FoldLeft(LAMBDA v, c :
             LET addend == Ordinal[c]
             IN IF v = -1 \/ addend >= base \/ would_overflow(bits, v, addend, base) THEN -1
                ELSE (v * base + addend) % (2 ^ bits),
           augend, SubSeq(s, i, j - 1))

\* A zero: "0x" and digits that do not start with a zero, or none; an octal number;
\* or zero itself, written "0", "00" or "0x0" and followed by nothing of a number.
\* Hexadecimal and octal digits go on top of val, whatever the caller has there.
lex_uint_0helper(s, i, bits, val) ==
  LET zero(k) == Lexed(k, IF At(s, k) \in Space \cup Punct \cup {""} THEN 0 ELSE -1)
      number(k, base, C) == LET j == Past(s, k, C) IN Lexed(j, safely_add(val, s, k, j, bits, base))
  IN IF At(s, i + 1) = "x"
     THEN IF At(s, i + 2) = "0" THEN zero(i + 3) ELSE number(i + 2, 16, HexDigits)
     ELSE IF At(s, i + 1) = "0" THEN zero(i + 2)
     ELSE IF At(s, i + 1) \in Digits THEN number(i + 1, 8, Digits)
     ELSE zero(i + 1)

lex_uint(s, bits, val) ==
  LET i == Past(s, 1, Space)
      j == Past(s, i, Digits)
  IN IF At(s, i) = "0" THEN lex_uint_0helper(s, i, bits, val)
     ELSE IF i = j THEN NotANumber ELSE Lexed(j, safely_add(0, s, i, j, bits, 10))

lex_uint_ashex(s, bits) ==
  LET i == Past(s, 1, Space)
      j == Past(s, i, HexDigits)
  IN IF i = j THEN NotANumber ELSE Lexed(j, safely_add(0, s, i, j, bits, 16))

\* The conversion to an integer of bits bits
Narrow(n, bits) == ((n + 2 ^ (bits - 1)) % (2 ^ bits)) - 2 ^ (bits - 1)

\* One bit less for the number, which is put in uv; the text stays behind blanks and
\* sign when there is no number.
lex_sint(s, bits, uv) ==
  LET i == Past(s, 1, Space)
      neg == At(s, i) = "-"
      first == IF neg THEN i + 1 ELSE i
      u == lex_uint(SubSeq(s, first, Len(s)), bits - 1, uv)
  IN IF u.ok THEN [ok |-> TRUE, at |-> first + u.at - 1,
                   val |-> Narrow(IF neg THEN -u.val ELSE u.val, bits)]
     ELSE [NotANumber EXCEPT !.at = first]

-------------------------------------------------------------------------------
(* Properties. *)

Value(s, i, j, base) == FoldLeft(LAMBDA v, c : v * base + Ordinal[c], 0, SubSeq(s, i, j - 1))

\* The number a text starts with, of any size: where its digits start and end and
\* their base, or nothing.
Written(s) ==
  LET i == Past(s, 1, Space)
      d(k, base, C) == <<k, Past(s, k, C), base>>
      x == IF At(s, i) # "0" THEN d(i, 10, Digits)
           ELSE IF At(s, i + 1) = "x" THEN d(i + 2, 16, HexDigits) ELSE d(i, 8, Digits)
  IN x

\* Whatever the text, an unsigned number is taken only when it fits its width, and is
\* then the number that is written; a decimal number that fits is always taken.  This is
\* about the tests for overflow, which must not overflow.
UnsignedFit ==
  \A bits \in {3, 4, 7, 8} :
    LET w == Written(text)
        v == Value(text, w[1], w[2], w[3])
        u == lex_uint(text, bits, 0)
        x == lex_uint_ashex(text, bits)
        i == Past(text, 1, Space)
        h == Past(text, i, HexDigits)
    IN /\ u.ok => u.val = v /\ v < 2 ^ bits /\ u.at = w[2]
       /\ w[3] = 10 /\ w[1] # w[2] /\ v < 2 ^ bits => u.ok
       /\ x.ok <=> i # h /\ Value(text, i, h, 16) < 2 ^ bits
       /\ x.ok => x.val = Value(text, i, h, 16) /\ x.at = h

\* A signed number is taken if and only if it fits its width, and is then the number
\* that is written, when it is decimal or zero and whatever uv held.  Nothing is said
\* of other hexadecimal and octal numbers, which lex_sint() adds to a uv it never set
\* (lexers.c:272, 279), nor of where the text goes on when there is no number: blanks
\* and sign are gone by then, although lexers.c:266-269 says that the pointer is left
\* alone.
SignedFit ==
  \A bits \in {3, 4, 7, 8}, uv \in Uninit :
    LET i == Past(text, 1, Space)
        neg == At(text, i) = "-"
        first == IF neg THEN i + 1 ELSE i
        rest == SubSeq(text, first, Len(text))
        w == Written(rest)
        v == Value(rest, w[1], w[2], w[3])
        n == lex_sint(text, bits, uv)
    IN /\ w[3] = 10 => (n.ok <=> w[1] # w[2] /\ v < 2 ^ (bits - 1))
       /\ w[3] # 10 /\ w[1] # w[2] /\ v = 0 => (n.ok <=> lex_uint(rest, bits - 1, 0).ok)
       /\ n.ok /\ (w[3] = 10 \/ (w[1] # w[2] /\ v = 0)) =>
            n.val = (IF neg THEN -v ELSE v) /\ n.at = first + w[2] - 1

\* The lexers of numbers take what fits and give what is written, unsigned or signed.
NumbersFit == For("numbers") => UnsignedFit /\ SignedFit
===============================================================================
