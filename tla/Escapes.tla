------------------------------ MODULE Escapes ------------------------------
(***************************************************************************)
(* C style backslash escapes: one turn of the loop of strunesc()           *)
(* (src/common.c), and what cli_dump_cstring() (src/client.c) prints.  A   *)
(* string is a sequence of byte codes without NUL.                         *)
(***************************************************************************)
EXTENDS Integers, Sequences

Byte == 1 .. 255
NUL == 0
Backslash == 92

\* in[k]: behind the string's last byte comes its NUL.
At(s, k) == IF k < Len(s) THEN s[k + 1] ELSE NUL

isodigit(c) == c \in 48 .. 55
isxdigit(c) == c \in 48 .. 57 \/ c \in 65 .. 70 \/ c \in 97 .. 102
toupper(c) == IF c \in 97 .. 122 THEN c - 32 ELSE c

\* The value of a digit, hexadecimal or octal.
Digit(c) == IF c <= 57 THEN c - 48 ELSE toupper(c) - 55

\* \\ \a \b \e \E \f \n \r \t \v by the code of the second character.
Native ==
    [c \in {92, 97, 98, 101, 69, 102, 110, 114, 116, 118} |->
        CASE c = 92 -> 92 [] c = 97 -> 7 [] c = 98 -> 8 [] c \in {101, 69} -> 27
          [] c = 102 -> 12 [] c = 110 -> 10 [] c = 114 -> 13 [] c = 116 -> 9 [] c = 118 -> 11]

-----------------------------------------------------------------------------
(* One turn of the loop on what is left of the string: the bytes `in' is   *)
(* advanced by, and the byte appended; n = 0 is `return NULL'.             *)

Turn(n, c) == [n |-> n, c |-> c]
Invalid == Turn(0, NUL)

\* \cx
CtrlEscape(s) ==
    IF toupper(At(s, 2)) \in 65 .. 95 THEN Turn(3, toupper(At(s, 2)) - 64) ELSE Invalid

\* Fault: the first digit is not checked.
HexEscape_Unchecked(s) ==
    IF isxdigit(At(s, 3)) THEN Turn(4, 16 * Digit(At(s, 2)) + Digit(At(s, 3)))
    ELSE Turn(3, Digit(At(s, 2)))

\* \xH \xHH
HexEscape(s) ==
    IF ~ isxdigit(At(s, 2)) THEN Invalid
    ELSE IF isxdigit(At(s, 3)) THEN Turn(4, 16 * Digit(At(s, 2)) + Digit(At(s, 3)))
    ELSE Turn(3, Digit(At(s, 2)))

Octal2(s) == 8 * Digit(At(s, 1)) + Digit(At(s, 2))
Octal3(s) == 8 * Octal2(s) + Digit(At(s, 3))

\* Fault: three digits always belong together, and the byte overflows.
OctalEscape_Wraps(s) ==
    IF ~ isodigit(At(s, 2)) THEN Turn(2, Digit(At(s, 1)))
    ELSE IF ~ isodigit(At(s, 3)) THEN Turn(3, Octal2(s))
    ELSE Turn(4, Octal3(s) % 256)

\* \o \oo \ooo
OctalEscape(s) ==
    IF ~ isodigit(At(s, 2)) THEN Turn(2, Digit(At(s, 1)))
    ELSE IF ~ isodigit(At(s, 3)) \/ Octal3(s) > 255 THEN Turn(3, Octal2(s))
    ELSE Turn(4, Octal3(s))

Escape(s) ==
    LET e == At(s, 1)
    IN  IF e \in DOMAIN Native THEN Turn(2, Native[e])
        ELSE IF e = 99 THEN CtrlEscape(s)
        ELSE IF e = 120 THEN HexEscape(s)
        ELSE IF isodigit(e) THEN OctalEscape(s)
        ELSE IF e = NUL THEN Turn(1, Backslash)
        ELSE Turn(2, e)

UnescTurn(s) == IF At(s, 0) = Backslash THEN Escape(s) ELSE Turn(1, At(s, 0))

-----------------------------------------------------------------------------
(* The way back. *)

OctChars(c) == <<Backslash, 48 + c \div 64, 48 + ((c \div 8) % 8), 48 + (c % 8)>>
HexChar(d) == IF d < 10 THEN 48 + d ELSE 87 + d

\* Fault: `%x' for `%02x'.
HexChars_Short(c) ==
    IF c < 16 THEN <<Backslash, 120, HexChar(c)>>
    ELSE <<Backslash, 120, HexChar(c \div 16), HexChar(c % 16)>>

HexChars(c) == <<Backslash, 120, HexChar(c \div 16), HexChar(c % 16)>>

\* What `get -expect-buf' prints for one byte, between single quotes.
DumpByte(c) ==
    CASE c = 39 -> OctChars(c)
      [] c = Backslash -> <<Backslash, Backslash>>
      [] c \in (32 .. 126) \ {39, Backslash} -> <<c>>
      [] c \in 7 .. 13 ->
            <<Backslash, CHOOSE e \in DOMAIN Native : Native[e] = c>>
      [] OTHER -> HexChars(c)

=============================================================================
