----------------------------- MODULE LogStream -----------------------------
(***************************************************************************)
(* arale/base/LogStream.{h,cc}: a FixedBuffer and the insertions into it.  *)
(* A stream is a record: the pieces that it holds, where cur_ is, the      *)
(* highest place ever written to, and all the pieces it was given.  A      *)
(* piece of text is named by what it is; a number has its characters.      *)
(***************************************************************************)
EXTENDS Sequences, CppDivision

CONSTANTS
    kSmallBuffer,        \* size of data_
    kMaxNumericSize

\* staticCheck: digits10 is 18 for the longest integers.
ASSUME BufferAssumption == /\ kSmallBuffer \in Nat \ {0} /\ kMaxNumericSize \in Nat
                           /\ kMaxNumericSize - 10 > 18

Minus == 99                      \* the character '-'
digits == <<9, 8, 7, 6, 5, 4, 3, 2, 1, 0, 1, 2, 3, 4, 5, 6, 7, 8, 9>>
zero(lsd) == digits[10 + lsd]

Reversed(s) == [i \in DOMAIN s |-> s[Len(s) + 1 - i]]

\* What is left of i after each round of the loop of convert, which goes on until it is 0.
Left(i, base) ==
    LET left[n \in Nat] == IF n = 0 THEN i ELSE Quot(left[n - 1], base)
    IN left

\* The last round: the first that leaves 0.  There are not more of them than characters.
IsLast(left, n) == left[n] = 0 /\ (n = 1 \/ left[n - 1] # 0)

\* staticCheck: a number, which has a digit more than digits10 at most, ends early enough.
Fits(i, base) == \E n \in 1..kMaxNumericSize - 10 : IsLast(Left(i, base), n)

\* The digits of i in a base, least significant first.  A zero has one round; the
\* remainders are negative when i is.
Digits(i, base) ==
    LET left == Left(i, base)
        rounds == CHOOSE n \in 1..kMaxNumericSize : IsLast(left, n)
        lsd(n) == left[n - 1] - base * left[n]
    IN [n \in 1..rounds |-> IF base = 10 THEN zero(lsd(n)) ELSE lsd(n)]

\* Mutant of convert: the sign is put before the digits are reversed.
convertSignFirst(value) ==
    Reversed((IF value < 0 THEN <<Minus>> ELSE <<>>) \o Digits(value, 10))

convert(value) ==
    Reversed(Digits(value, 10) \o (IF value < 0 THEN <<Minus>> ELSE <<>>))

convertHex(value) == Reversed(Digits(value, 16))

Text(what, len) == [what |-> what, len |-> len, value |-> 0, chars |-> <<>>]
Number(value, chars) ==
    [what |-> "int", len |-> Len(chars), value |-> value, chars |-> chars]
\* The 0x before the digits of a pointer are not kept.
Pointer(value, chars) ==
    [what |-> "pointer", len |-> 2 + Len(chars), value |-> value, chars |-> chars]

-----------------------------------------------------------------------------
EmptyStream == [pieces |-> <<>>, cur |-> 0, high |-> 0, given |-> <<>>]

avail(s) == kSmallBuffer - s.cur

\* A piece is written at cur_, reaching that many places.
Written(s, piece, reach) ==
    [s EXCEPT !.pieces = Append(@, piece), !.cur = @ + piece.len,
              !.high = IF s.cur + reach > @ THEN s.cur + reach ELSE @]
Given(s, piece) == [s EXCEPT !.given = Append(@, piece)]

\* FixedBuffer::append: all or nothing, and never the last place.
append(s, piece) ==
    IF avail(s) > piece.len THEN Written(Given(s, piece), piece, piece.len)
                            ELSE Given(s, piece)

\* formatInteger, and the insertions of a pointer and of a double: written in place,
\* with a terminating zero.
PutNumber(s, piece) ==
    IF avail(s) >= kMaxNumericSize THEN Written(Given(s, piece), piece, piece.len + 1)
                                   ELSE Given(s, piece)

formatInteger(s, value) == PutNumber(s, Number(value, convert(value)))
formatPointer(s, value) == PutNumber(s, Pointer(value, convertHex(value)))

\* snprintf with "%.12g" into kMaxNumericSize places.
formatDouble(s, len) == PutNumber(s, Text("double", len))
=============================================================================
