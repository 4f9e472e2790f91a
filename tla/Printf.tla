------------------------------- MODULE Printf ------------------------------
(***************************************************************************)
(* snprintf_() and _vsnprintf() of src_stage2/embedded_printf/printf.c as  *)
(* stage 2 builds them (CMakeLists.txt: no floating point, no long long,   *)
(* no ptrdiff_t).  A string is a sequence of characters; a format ends at  *)
(* its NUL.                                                                *)
(*                                                                         *)
(* "place" is where the program is: idle, text, flags, width, precision,   *)
(* length, specifier, done; a caller uses "reply".                         *)
(***************************************************************************)
EXTENDS Integers, Sequences, FiniteSets, SequencesExt

CONSTANTS
  IntRange,        \* 2^32: the values of an unsigned int, and of a long
  ShortRange,      \* 2^16
  CharRange,       \* 2^8
  NtoaSize,        \* PRINTF_NTOA_BUFFER_SIZE: 32
  PointerDigits,   \* hexadecimal digits of an address: 8
  Characters       \* the values of a char

ASSUME WidthAssumption ==
  /\ {IntRange, ShortRange, CharRange, NtoaSize} \subseteq Nat \ {0}
  /\ PointerDigits \in Nat

NUL == "NUL"

DecimalDigits == <<"0", "1", "2", "3", "4", "5", "6", "7", "8", "9">>
LowerDigits   == DecimalDigits \o <<"a", "b", "c", "d", "e", "f">>
UpperDigits   == DecimalDigits \o <<"A", "B", "C", "D", "E", "F">>

(* The characters the code puts out by itself.                             *)
ASSUME CharacterAssumption ==
  /\ {NUL, "0", "b", "x", "X", "-", "+", " "} \subseteq Characters
  /\ \A k \in 1 .. 16 : LowerDigits[k] \in Characters /\ UpperDigits[k] \in Characters

FlagChars == {"0", "-", "+", " ", "#"}
AllFlags  == FlagChars \cup
  {"UPPERCASE", "CHAR", "SHORT", "LONG", "LONG_LONG", "PRECISION"}

VARIABLES
  place,
  run,                       \* the call: [format, args, count], and what it
                             \* means (see Directives): [regular, meant]
  format, arg,               \* next character, next argument
  flags, width, precision,
  idx,                       \* characters put out so far
  buffer                     \* the cells written, from the start of the buffer

printfVars == <<place, run, format, arg, flags, width, precision, idx, buffer>>

NoOutput == [k \in {} |-> NUL]

PrintfInit ==
  /\ place = "idle" /\ run = <<>>
  /\ format = 1 /\ arg = 1 /\ flags = {} /\ width = 0 /\ precision = 0
  /\ idx = 0 /\ buffer = NoOutput

(* The locals are gone, and the caller is done with its buffer.            *)
Returned ==
  /\ place' = "idle" /\ run' = <<>>
  /\ format' = 1 /\ arg' = 1 /\ flags' = {} /\ width' = 0 /\ precision' = 0
  /\ idx' = 0 /\ buffer' = NoOutput

(* snprintf_() is called.                                                  *)
snprintf_(call) ==
  /\ place = "idle" /\ place' = "text"
  /\ run' = call
  /\ format' = 1 /\ arg' = 1 /\ idx' = 0 /\ buffer' = NoOutput
  /\ UNCHANGED <<flags, width, precision>>

(***************************************************************************)
(* Pieces.                                                                 *)
(***************************************************************************)
Here    == run.format[format]
Take(n) == format' = format + n
Smaller(a, b) == IF a < b THEN a ELSE b

Digits == {DecimalDigits[k] : k \in 1 .. 10}

_is_digit(c) == c \in Digits

(* The digits from n on, and the number they stand for.                    *)
EndOfDigits(n) ==
  CHOOSE m \in n .. Len(run.format) :
    /\ ~ _is_digit(run.format[m])
    /\ \A k \in n .. (m - 1) : _is_digit(run.format[k])

DigitRun(n) == SubSeq(run.format, n, EndOfDigits(n) - 1)

DigitValue(c) == CHOOSE d \in 0 .. 9 : DecimalDigits[d + 1] = c

(* The value of the first k of these digits, for each k.                   *)
Values(digits) ==
  LET value[k \in 0 .. Len(digits)] ==
        IF k = 0 THEN 0
        ELSE (value[k - 1] * 10 + DigitValue(digits[k])) % IntRange
  IN value

_atoi(n) == Values(DigitRun(n))[Len(DigitRun(n))]

(* out(), for each of the characters, into the cells there are.            *)
Put(chars, cells) ==
  LET new == cells \cap (idx .. (idx + Len(chars) - 1))
  IN /\ buffer' = [k \in DOMAIN buffer \cup new |->
                     IF k \in new THEN chars[k - idx + 1] ELSE buffer[k]]
     /\ idx' = idx + Len(chars)

(* Mutant: one cell too many.                                              *)
_out_buffer_Beyond(chars) == Put(chars, 0 .. run.count)

_out_buffer(chars) == Put(chars, 0 .. (run.count - 1))

Copies(c, n) == [k \in 1 .. (IF n > 0 THEN n ELSE 0) |-> c]

(***************************************************************************)
(* Integers.  The conversion buffer is filled from the last digit on.      *)
(***************************************************************************)
FillTo(buf, n) == buf \o Copies("0", Smaller(n, NtoaSize) - Len(buf))

Room(buf, chars) ==
  IF Len(buf) < NtoaSize THEN buf \o chars ELSE buf

(* "#": the prefix takes the place of padding that was not asked for by a  *)
(* precision.                                                              *)
Hashed(buf, base, w, fl) ==
  LET l    == Len(buf)
      cut  == IF "PRECISION" \notin fl /\ l > 0 /\ (l = precision \/ l = w)
                THEN IF base = 16 /\ l > 1 THEN 2 ELSE 1
                ELSE 0
      kept == SubSeq(buf, 1, l - cut)
      mark == CASE base = 16 -> IF "UPPERCASE" \in fl THEN <<"X">> ELSE <<"x">>
                [] base = 2  -> <<"b">>
                [] OTHER     -> <<>>
  IN Room(Room(kept, mark), <<"0">>)

(* _out_rev()                                                              *)
_out_rev(buf, w, fl) ==
  LET gap == Copies(" ", w - Len(buf))
  IN CASE "-" \in fl -> Reverse(buf) \o gap
       [] fl \cap {"-", "0"} = {"0"} -> Reverse(buf)
       [] OTHER      -> gap \o Reverse(buf)

(* Mutant: the sign is not counted in the width.                           *)
SignTakesRoom_Never(negative, w, fl) == FALSE

SignTakesRoom(negative, w, fl) ==
  w > 0 /\ "0" \in fl /\ (negative \/ fl \cap {"+", " "} # {})

FieldWidth(negative, field, fl) ==
  IF "-" \notin fl /\ SignTakesRoom(negative, field, fl) THEN field - 1 ELSE field

(* The conversion buffer when it is complete.                              *)
Converted(digits, negative, base, w, fl) ==
  LET padded == IF "-" \in fl THEN digits
                ELSE LET p == FillTo(digits, precision)
                     IN IF "0" \in fl THEN FillTo(p, w) ELSE p
      hashed == IF "#" \in fl THEN Hashed(padded, base, w, fl) ELSE padded
      sign   == IF negative THEN <<"-">>
                ELSE IF "+" \in fl THEN <<"+">>
                ELSE IF " " \in fl THEN <<" ">>
                ELSE <<>>
  IN Room(hashed, sign)

_ntoa_format(digits, negative, base, field, fl) ==
  LET w == FieldWidth(negative, field, fl)
  IN _out_rev(Converted(digits, negative, base, w, fl), w, fl)

(* What is left of the value after k digits.                               *)
Quotients(value, base) ==
  LET left[k \in 0 .. NtoaSize] == IF k = 0 THEN value ELSE left[k - 1] \div base
  IN left

(* Digits are taken until nothing is left or the buffer is full.           *)
DigitCount(left) ==
  CHOOSE n \in 1 .. NtoaSize :
    /\ n = NtoaSize \/ left[n] = 0
    /\ \A m \in 1 .. (n - 1) : left[m] # 0

DigitsOf(value, base, fl) ==
  LET names == IF "UPPERCASE" \in fl THEN UpperDigits ELSE LowerDigits
      left  == Quotients(value, base)
  IN IF "PRECISION" \in fl /\ value = 0 THEN <<>>
     ELSE [k \in 1 .. DigitCount(left) |-> names[(left[k - 1] % base) + 1]]

_ntoa_long(value, negative, base, field, fl) ==
  _ntoa_format(DigitsOf(value, base, fl), negative, base, field,
               IF value = 0 THEN fl \ {"#"} ELSE fl)

(***************************************************************************)
(* _vsnprintf(), one action per part of a directive.                       *)
(***************************************************************************)
At(from, to) == place = from /\ place' = to

Text ==
  /\ At("text", "text") /\ Here \notin {"%", NUL}
  /\ _out_buffer(<<Here>>) /\ Take(1)
  /\ UNCHANGED <<run, arg, flags, width, precision>>

Percent ==
  /\ At("text", "flags") /\ Here = "%"
  /\ Take(1)
  /\ flags' = {} /\ width' = 0 /\ precision' = 0
  /\ UNCHANGED <<run, arg, idx, buffer>>

(* Mutant: the flag is noted, the format is not moved on.                  *)
Flag_Stays ==
  /\ At("flags", "flags") /\ Here \in FlagChars
  /\ flags' = flags \cup {Here}
  /\ UNCHANGED <<run, format, arg, width, precision, idx, buffer>>

Flag ==
  /\ At("flags", "flags") /\ Here \in FlagChars
  /\ flags' = flags \cup {Here} /\ Take(1)
  /\ UNCHANGED <<run, arg, width, precision, idx, buffer>>

NoMoreFlags ==
  /\ At("flags", "width") /\ Here \notin FlagChars
  /\ UNCHANGED <<run, format, arg, flags, width, precision, idx, buffer>>

(* A negative width that is an argument asks for padding on the right.     *)
Width ==
  /\ At("width", "precision")
  /\ \/ /\ _is_digit(Here)
        /\ width' = _atoi(format) /\ Take(Len(DigitRun(format)))
        /\ UNCHANGED <<arg, flags>>
     \/ /\ Here = "*"
        /\ LET w == run.args[arg]
           IN /\ width' = IF w < 0 THEN - w ELSE w
              /\ flags' = IF w < 0 THEN flags \cup {"-"} ELSE flags
        /\ Take(1) /\ arg' = arg + 1
     \/ /\ ~ _is_digit(Here) /\ Here # "*"
        /\ UNCHANGED <<format, arg, flags, width>>
  /\ UNCHANGED <<run, precision, idx, buffer>>

NoPrecision ==
  /\ At("precision", "length") /\ Here # "."
  /\ UNCHANGED <<run, format, arg, flags, width, precision, idx, buffer>>

(* A point alone is a precision of zero, and so is a negative argument.    *)
Precision ==
  /\ At("precision", "length") /\ Here = "."
  /\ flags' = flags \cup {"PRECISION"}
  /\ \/ /\ run.format[format + 1] = "*"
        /\ precision' = IF run.args[arg] > 0 THEN run.args[arg] ELSE 0
        /\ arg' = arg + 1 /\ Take(2)
     \/ /\ run.format[format + 1] # "*"
        /\ precision' = _atoi(format + 1) /\ Take(1 + Len(DigitRun(format + 1)))
        /\ UNCHANGED arg
  /\ UNCHANGED <<run, width, idx, buffer>>

(* j asks for an intmax_t, which is a long long; z is a long.              *)
LengthFlags ==
  LET twice == run.format[format + 1] = Here
  IN CASE Here = "l" -> IF twice THEN {"LONG", "LONG_LONG"} ELSE {"LONG"}
       [] Here = "h" -> IF twice THEN {"SHORT", "CHAR"} ELSE {"SHORT"}
       [] Here = "j" -> {"LONG_LONG"}
       [] Here = "z" -> {"LONG"}
       [] OTHER      -> {}

Length ==
  /\ At("length", "specifier")
  /\ flags' = flags \cup LengthFlags
  /\ Take(Cardinality(LengthFlags))
  /\ UNCHANGED <<run, arg, width, precision, idx, buffer>>

Base == CASE Here \in {"x", "X"} -> 16 [] Here = "o" -> 8
          [] Here = "b" -> 2 [] OTHER -> 10

Signed == Here \in {"d", "i"}

(* The argument as the length field has it read; a plain char is unsigned  *)
(* on this processor.                                                      *)
Value ==
  LET v == run.args[arg]
      half == ShortRange \div 2
  IN CASE flags \cap {"LONG", "CHAR"} = {"CHAR"} -> v % CharRange
       [] flags \cap {"LONG", "CHAR", "SHORT"} = {"SHORT"} ->
            IF Signed THEN ((v + half) % ShortRange) - half ELSE v % ShortRange
       [] OTHER -> IF Signed THEN v ELSE v % IntRange

IntegerFlags ==
  (flags \ ((IF Base = 10 THEN {"#"} ELSE {})
              \cup (IF Signed THEN {} ELSE {"+", " "})
              \cup (IF "PRECISION" \in flags THEN {"0"} ELSE {})))
    \cup (IF Here = "X" THEN {"UPPERCASE"} ELSE {})

Directive(chars, used) ==
  /\ place' = "text"
  /\ _out_buffer(chars)
  /\ Take(1) /\ arg' = arg + used
  /\ UNCHANGED <<run, flags, width, precision>>

(* Without long long support its directives print nothing, and leave their *)
(* argument where it is.                                                   *)
IntegerDirective ==
  /\ Here \in {"d", "i", "u", "x", "X", "o", "b"}
  /\ \/ "LONG_LONG" \in flags /\ Directive(<<>>, 0)
     \/ /\ "LONG_LONG" \notin flags
        /\ Directive(_ntoa_long(IF Value < 0 THEN - Value ELSE Value, Value < 0,
                                Base, width, IntegerFlags), 1)

Padded(chars) ==
  LET gap == Copies(" ", width - Len(chars))
  IN IF "-" \in flags THEN chars \o gap ELSE gap \o chars

CharDirective == Here = "c" /\ Directive(Padded(<<run.args[arg]>>), 1)

StringDirective ==
  LET s == run.args[arg]
      n == IF "PRECISION" \in flags THEN Smaller(precision, Len(s)) ELSE Len(s)
  IN Here = "s" /\ Directive(Padded(SubSeq(s, 1, n)), 1)

PointerDirective ==
  /\ Here = "p"
  /\ Directive(_ntoa_long(run.args[arg], FALSE, 16, PointerDigits,
                          flags \cup {"0", "UPPERCASE"}), 1)

(* "%%", and every character that is no specifier, stand for themselves.   *)
OtherDirective ==
  /\ Here \notin {"d", "i", "u", "x", "X", "o", "b", "c", "s", "p", NUL}
  /\ Directive(<<Here>>, 0)

(* A full buffer gives up its last cell; for count = 0 that is no cell.    *)
Terminator == IF idx < run.count THEN idx ELSE run.count - 1

EndOfFormat ==
  /\ At("text", "done") /\ Here = NUL
  /\ buffer' = [k \in DOMAIN buffer \cup ({Terminator} \cap (0 .. (run.count - 1))) |->
                   IF k = Terminator THEN NUL ELSE buffer[k]]
  /\ UNCHANGED <<run, format, arg, flags, width, precision, idx>>

Vsnprintf ==
  \/ Text \/ Percent \/ Flag \/ NoMoreFlags
  \/ Width \/ NoPrecision \/ Precision \/ Length
  \/ /\ place = "specifier"
     /\ \/ IntegerDirective \/ CharDirective \/ StringDirective
        \/ PointerDirective \/ OtherDirective
  \/ EndOfFormat

(***************************************************************************)
(* Properties.                                                             *)
(***************************************************************************)

(* Whatever the format and the arguments: no cell is written that the      *)
(* caller did not give, no argument is taken that was not passed, nothing  *)
(* is read behind the end of the format, and a string that was returned is *)
(* terminated (printf.c:128-134, 646-1008).                                *)
WithinBounds ==
  place \notin {"idle", "reply"} =>
    /\ DOMAIN buffer \subseteq 0 .. (run.count - 1)
    /\ arg \in 1 .. Len(run.args) + 1 /\ format \in DOMAIN run.format
    /\ flags \subseteq AllFlags
    /\ place = "done" /\ run.count > 0 => \E k \in DOMAIN buffer : buffer[k] = NUL

(* A bound on the steps a call may still take: six for each character that *)
(* is left, the sixth of them the way from one part of a directive to the  *)
(* next.                                                                   *)
Parts == [text |-> 6, flags |-> 5, width |-> 4, precision |-> 3, length |-> 2, specifier |-> 1]

StepsLeft ==
  IF place \in DOMAIN Parts THEN 6 * (Len(run.format) - format) + Parts[place] ELSE 0

(* Every step of a call leaves it fewer steps: the loops over the format,  *)
(* and over the flags in it, end only because every way through them moves *)
(* the format on (printf.c:654-1000).                                      *)
CallAdvances ==
  [][(place \in DOMAIN Parts) => StepsLeft' >= 0 /\ StepsLeft' < StepsLeft]_printfVars

(* The buffer holds what the call means, cut to the room there is, and the *)
(* result is the length of the whole: a result below count says the string *)
(* is complete (printf.c:196-322, 646-1008; printf.h:79-85).               *)
RenderedRight ==
  place = "done" /\ run.regular =>
    /\ idx = Len(run.meant)
    /\ \A k \in 0 .. (Smaller(idx, run.count - 1) - 1) : buffer[k] = run.meant[k + 1]
    /\ run.count > 0 => buffer[Smaller(idx, run.count - 1)] = NUL
=============================================================================
