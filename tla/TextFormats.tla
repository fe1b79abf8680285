------------------------------ MODULE TextFormats ------------------------------
(* How numbers, binary data and text are written into XML files, and read     *)
(* again: fixed-point and hybrid numbers (python/fixednum.py,                 *)
(* python/hybridnum.py), base64 (python/base64.py), and overbars in text      *)
(* (gaf/xmlwrite.py, gaf/xmlread.py).                                         *)
(*                                                                            *)
(* A string is a sequence of characters.  What a reader refuses with          *)
(* ValueError or DecodingError is Invalid.                                    *)
EXTENDS Integers, Sequences, SequencesExt

CONSTANT Invalid

HexDigits == <<"0", "1", "2", "3", "4", "5", "6", "7",
               "8", "9", "a", "b", "c", "d", "e", "f">>
Digit == {HexDigits[i] : i \in 1 .. 10}
Rank(c) == (CHOOSE i \in DOMAIN HexDigits : HexDigits[i] = c) - 1

\* str(n) and int(s) for decimal digits, and int(s, 16) if the base is 16.
Decimal[n \in Nat] == IF n < 10 THEN <<HexDigits[n + 1]>>
                      ELSE Decimal[n \div 10] \o <<HexDigits[(n % 10) + 1]>>
ValueOf(s, base) == FoldLeft(LAMBDA v, c : v * base + Rank(c), 0, s)

Zeros(n) == [i \in 1 .. (IF n > 0 THEN n ELSE 0) |-> "0"]
Sign(x) == IF x < 0 THEN <<"-">> ELSE << >>
Magnitude(x) == IF x < 0 THEN -x ELSE x
StripZeros(s) ==      \* s.rstrip('0')
  SubSeq(s, 1, CHOOSE n \in 0 .. Len(s) : /\ \A i \in n + 1 .. Len(s) : s[i] = "0"
                                          /\ n > 0 => s[n] # "0")

\* The text before and after the first c; << >> if there is none.
CutAt(s, c) ==
  IF c \notin Range(s) THEN << >>
  ELSE LET pos == CHOOSE i \in DOMAIN s : s[i] = c /\ \A j \in 1 .. i - 1 : s[j] # c
       IN <<SubSeq(s, 1, pos - 1), SubSeq(s, pos + 1, Len(s))>>

Unsigned(s) == IF s # << >> /\ s[1] = "-" THEN Tail(s) ELSE s
SignOf(s)   == IF s # << >> /\ s[1] = "-" THEN -1 ELSE 1

\* The digits of n before and after the decimal point.
Parts_(n, digits) ==
  LET s == Decimal[n]
      padded == Zeros(digits - Len(s)) \o s
      split == Len(padded) - digits
  IN <<SubSeq(padded, 1, split), SubSeq(padded, split + 1, Len(padded))>>

-----------------------------------------------------------------------------
(* Fixed-point numbers *)

\* Mutant of fixednum_format: all zeros on the right are taken for decimals.
fixednum_format_short(x, decimal_digits) == Sign(x) \o StripZeros(Decimal[Magnitude(x)])

fixednum_format(x, decimal_digits) ==
  LET s0 == Parts_(Magnitude(x), decimal_digits)[1]
      s1 == Parts_(Magnitude(x), decimal_digits)[2]
  IN CASE x = 0 -> <<"0">>      \* signless zero
       [] x # 0 /\ decimal_digits > 0 /\ s1 # Zeros(decimal_digits) ->
            Sign(x) \o s0 \o <<".">> \o StripZeros(s1)
       [] OTHER -> Sign(x) \o s0

fixednum_parse(s, decimal_digits) ==
  LET unsigned == Unsigned(s)
      cut == CutAt(unsigned, ".")
      s0 == IF cut = << >> THEN unsigned ELSE cut[1]
      s1 == IF cut = << >> THEN << >> ELSE cut[2]
  IN IF \/ unsigned \in {<< >>, <<".">>}
        \/ decimal_digits = 0 /\ cut # << >>
        \/ Len(s1) > decimal_digits
        \/ ~(Range(s0 \o s1) \subseteq Digit)
     THEN Invalid
     ELSE SignOf(s) * ValueOf(s0 \o s1 \o Zeros(decimal_digits - Len(s1)), 10)

-----------------------------------------------------------------------------
(* Hybrid numbers: x is counted in sixteenths, so that one hexadecimal digit  *)
(* holds what is after the colon.                                             *)

hybridnum_format(x, decimal_digits) ==
  LET before0 == Parts_(Magnitude(x) \div 16, decimal_digits)[1]
      before1 == Parts_(Magnitude(x) \div 16, decimal_digits)[2]
      after == IF x % 16 = 0 THEN << >> ELSE <<":", HexDigits[(Magnitude(x) % 16) + 1]>>
  IN CASE x = 0 -> <<"0">>      \* signless zero
       [] x # 0 /\ Magnitude(x) < 16 -> Sign(x) \o after
       [] Magnitude(x) >= 16 /\ decimal_digits = 0 -> Sign(x) \o before0 \o after
       [] OTHER ->
            Sign(x) \o before0
            \o (IF after # << >> THEN <<".">> \o before1 \o after
                ELSE IF before1 = Zeros(decimal_digits) THEN << >>
                ELSE <<".">> \o StripZeros(before1))

\* All decimals must be there if something comes after them.
hybridnum_parse(s, decimal_digits) ==
  LET unsigned == Unsigned(s)
      colon == CutAt(unsigned, ":")
      number == IF colon = << >> THEN unsigned ELSE colon[1]
      after == IF colon = << >> THEN << >> ELSE colon[2]
      cut == CutAt(number, ".")
      before0 == IF cut = << >> THEN number ELSE cut[1]
      before1 == IF cut = << >> THEN << >> ELSE cut[2]
  IN IF \/ number = << >> /\ after = << >>
        \/ number = <<".">>
        \/ decimal_digits = 0 /\ cut # << >>
        \/ /\ colon # << >> /\ decimal_digits > 0 /\ number # << >>
           /\ cut = << >> \/ Len(before1) < decimal_digits
        \/ Len(before1) > decimal_digits
        \/ ~(Range(before0 \o before1) \subseteq Digit)
        \/ ~(Range(after) \subseteq Range(HexDigits))
        \/ Len(after) > 1                       \* bound: sixteenths
     THEN Invalid
     ELSE SignOf(s)
          * (16 * ValueOf(before0 \o before1 \o Zeros(decimal_digits - Len(before1)), 10)
             + ValueOf(after, 16))

-----------------------------------------------------------------------------
(* Base64: a byte is a number below 256.  The characters of a file are the    *)
(* 64 of the alphabet, by their rank, and these.                              *)

PAD64   == 64
NewLine == 65
Dot     == 66       \* skipped like all others; a line of its own ends pictures
BASE64  == 0 .. 63

\* The four characters for three bytes.
Quad(i0, i1, i2) == <<i0 \div 4, (i0 % 4) * 16 + i1 \div 16,
                      (i1 % 16) * 4 + i2 \div 64, i2 % 64>>

\* A line is broken after every `columns' characters unless the data ends there.
encode(src, columns) ==
  LET whole == Len(src) \div 3
      rest == SubSeq(src, 3 * whole + 1, Len(src))
      Group(p) == Quad(src[3 * p - 2], src[3 * p - 1], src[3 * p])
      Break(p) == IF p % (columns \div 4) = 0 /\ 3 * p # Len(src)
                  THEN <<NewLine>> ELSE << >>
  IN FlattenSeq([p \in 1 .. whole |-> Group(p) \o Break(p)])
     \o CASE Len(rest) = 0 -> << >>
          [] Len(rest) = 1 -> SubSeq(Quad(rest[1], 0, 0), 1, 2) \o <<PAD64, PAD64>>
          [] Len(rest) = 2 -> SubSeq(Quad(rest[1], rest[2], 0), 1, 3) \o <<PAD64>>
     \o (IF src = << >> THEN << >> ELSE <<NewLine>>)

\* One character; `res' holds the bits left over from the one before.
Decoded(d, pos) ==
  CASE pos = PAD64 -> [d EXCEPT !.pad = @ + 1]
    [] pos \notin BASE64 \cup {PAD64} -> d
    [] pos \in BASE64 /\ d.pad # 0 -> [d EXCEPT !.failed = TRUE]
    [] OTHER ->
       LET Byte == Append(d.dst, d.res + pos \div CASE d.state = 1 -> 16
                                                     [] d.state = 2 -> 4
                                                     [] OTHER -> 1)
       IN CASE d.state = 0 -> [d EXCEPT !.state = 1, !.res = pos * 4]
            [] d.state = 1 -> [d EXCEPT !.state = 2, !.dst = Byte, !.res = (pos % 16) * 16]
            [] d.state = 2 -> [d EXCEPT !.state = 3, !.dst = Byte, !.res = (pos % 4) * 64]
            [] d.state = 3 -> [d EXCEPT !.state = 0, !.dst = Byte, !.res = 0]

\* What is left over must be padded as it has to be, and be zero.
decode(text) ==
  LET end == FoldLeft(Decoded, [state |-> 0, res |-> 0, dst |-> << >>, pad |-> 0,
                                failed |-> FALSE], text)
  IN IF \/ end.failed
        \/ end.pad = 0 /\ end.state # 0
        \/ end.pad # 0 /\ ~(<<end.state, end.pad>> \in {<<2, 2>>, <<3, 1>>} /\ end.res = 0)
     THEN Invalid ELSE end.dst

-----------------------------------------------------------------------------
(* Text: \_ starts and ends an overbar, \\ is a backslash.  In XML files, the  *)
(* content of a text element is a sequence of characters and tags.            *)

\* text.split(a + b), and text.split(c)
SplitPair(text, a, b) ==
  FoldLeft(LAMBDA parts, c :
             IF c = b /\ Last(parts) # << >> /\ Last(Last(parts)) = a
             THEN Append(Front(parts) \o <<Front(Last(parts))>>, << >>)
             ELSE Append(Front(parts), Append(Last(parts), c)),
           <<<< >>>>, text)
Split(text, c) ==
  FoldLeft(LAMBDA parts, d : IF d = c THEN Append(parts, << >>)
                             ELSE Append(Front(parts), Append(Last(parts), d)),
           <<<< >>>>, text)
Join(parts, c) ==     \* c.join(parts)
  FoldLeft(LAMBDA text, part : text \o <<c>> \o part, Head(parts), Tail(parts))

Without(s, c) == SelectSeq(s, LAMBDA d : d # c)

WrittenText(text) ==
  LET parts == SplitPair(text, "\\", "_")
      Unescaped(part) ==
        LET pieces == SplitPair(part, "\\", "\\")
        IN Join([i \in DOMAIN pieces |-> Without(pieces[i], "\\")], "\\")
      Written(part) == [i \in DOMAIN Unescaped(part) |->
                          IF Unescaped(part)[i] = "\n" THEN "<br/>" ELSE Unescaped(part)[i]]
  IN FlattenSeq([i \in DOMAIN parts |->
       IF i % 2 = 0 THEN <<"<overbar>">> \o Written(parts[i]) \o <<"</overbar>">>
                    ELSE Written(parts[i])])

ReadText(content) ==
  FlattenSeq([i \in DOMAIN content |->
    CASE content[i] = "<br/>" -> <<"\n">>
      [] content[i] \in {"<overbar>", "</overbar>"} -> <<"\\", "_">>
      [] content[i] = "\\" -> <<"\\", "\\">>
      [] OTHER -> <<content[i]>>])
=============================================================================
