----------------------------- MODULE Directives ----------------------------
(***************************************************************************)
(* What a directive of a format means, stated without the code: a          *)
(* directive is a record                                                   *)
(*   [flags, width, prec, length, spec, value]                             *)
(* whose width and precision are [by |-> "none" / "digits" / "arg", n].    *)
(* Text() writes it down as a caller does, Arguments() are the values to   *)
(* pass, Meaning() is what the C standard has it print (with %b for base 2 *)
(* and %p as eight upper case digits).                                     *)
(***************************************************************************)
EXTENDS Printf

Numeral(v, base, names) ==
  LET f[n \in 0 .. v] == IF n < base THEN <<names[n + 1]>>
                         ELSE f[n \div base] \o <<names[(n % base) + 1]>>
  IN f[v]

WrittenNumber(field) ==
  CASE field.by = "digits" -> Numeral(field.n, 10, DecimalDigits)
    [] field.by = "arg"    -> <<"*">>
    [] OTHER               -> <<>>

Written(d) ==
  <<"%">>
    \o SelectSeq(<<" ", "#", "0", "-", "+">>, LAMBDA f : f \in d.flags)
    \o WrittenNumber(d.width)
    \o (IF d.prec.by = "none" THEN <<>> ELSE <<".">> \o WrittenNumber(d.prec))
    \o d.length \o <<d.spec>>

Arguments(d) ==
  (IF d.width.by = "arg" THEN <<d.width.n>> ELSE <<>>)
    \o (IF d.prec.by = "arg" THEN <<d.prec.n>> ELSE <<>>)
    \o (IF d.spec = "%" THEN <<>> ELSE <<d.value>>)

SignedSpecs   == {"d", "i"}
UnsignedSpecs == {"u", "x", "X", "o", "b"}
IntegerSpecs  == SignedSpecs \cup UnsignedSpecs

(* Where the code follows the standard: no alternative form; a precision   *)
(* that is not negative, and no "-" with it in an integer; integers of the *)
(* supported lengths that fit the conversion buffer.                       *)
Regular(d) ==
  /\ "#" \notin d.flags
  /\ d.prec.n >= 0
  /\ d.spec \in IntegerSpecs =>
       /\ d.length # <<"l", "l">> /\ d.length # <<"j">>
       /\ d.length \in {<<"h">>, <<"h", "h">>} => d.value \in 0 .. (CharRange \div 2 - 1)
       /\ d.prec.by # "none" => "-" \notin d.flags /\ d.width.n >= 0
       /\ d.prec.n < NtoaSize
       /\ "0" \in d.flags => d.width.n < NtoaSize
  /\ d.spec = "p" => d.flags \subseteq {"0"} /\ d.width.by = "none" /\ d.prec.by = "none"
  /\ d.spec = "%" => d.flags = {} /\ d.width.by = "none" /\ d.prec.by = "none"

Fit(chars, size, left) ==
  LET gap == Copies(" ", size - Len(chars))
  IN IF left THEN chars \o gap ELSE gap \o chars

Zeros(n) == Copies("0", n)

Meaning(d) ==
  LET size == IF d.width.n < 0 THEN - d.width.n ELSE d.width.n
      left == "-" \in d.flags \/ d.width.n < 0
      hasPrec == d.prec.by # "none"
      base == CASE d.spec \in {"x", "X", "p"} -> 16 [] d.spec = "o" -> 8
                [] d.spec = "b" -> 2 [] OTHER -> 10
      v == IF d.spec \in UnsignedSpecs /\ d.value < 0 THEN d.value + IntRange ELSE d.value
      name == Numeral(IF v < 0 THEN - v ELSE v, base,
                      IF d.spec \in {"X", "p"} THEN UpperDigits ELSE LowerDigits)
      digits == IF hasPrec
                  THEN IF v = 0 /\ d.prec.n = 0 THEN <<>>
                       ELSE Zeros(d.prec.n - Len(name)) \o name
                  ELSE name
      sign == IF v < 0 THEN <<"-">>
              ELSE IF d.spec \notin SignedSpecs THEN <<>>
              ELSE IF "+" \in d.flags THEN <<"+">>
              ELSE IF " " \in d.flags THEN <<" ">>
              ELSE <<>>
      fill == IF "0" \in d.flags /\ ~ left /\ ~ hasPrec
                THEN Zeros(size - Len(sign) - Len(digits)) ELSE <<>>
  IN CASE d.spec \in IntegerSpecs -> Fit(sign \o fill \o digits, size, left)
       [] d.spec = "p" -> Zeros(PointerDigits - Len(digits)) \o digits
       [] d.spec = "c" -> Fit(<<d.value>>, size, left)
       [] d.spec = "s" ->
            Fit(IF hasPrec THEN SubSeq(d.value, 1, Smaller(d.prec.n, Len(d.value)))
                ELSE d.value, size, left)
       [] OTHER -> <<"%">>

(* The call snprintf(buffer, count, "... directive ...", arguments), one   *)
(* directive or literal (a sequence of characters in .text) after another. *)
CallOf(parts, count) ==
  [format  |-> FlattenSeq([k \in DOMAIN parts |->
                 IF parts[k].spec = "text" THEN parts[k].value ELSE Written(parts[k])]) \o <<NUL>>,
   args    |-> FlattenSeq([k \in DOMAIN parts |->
                 IF parts[k].spec = "text" THEN <<>> ELSE Arguments(parts[k])]),
   count   |-> count,
   regular |-> \A k \in DOMAIN parts : parts[k].spec = "text" \/ Regular(parts[k]),
   meant   |-> FlattenSeq([k \in DOMAIN parts |->
                 IF parts[k].spec = "text" THEN parts[k].value ELSE Meaning(parts[k])])]

(***************************************************************************)
(* What a caller owes, and a compiler checks with -Wformat: a format of    *)
(* the C grammar, arguments in the number and of the types it names.  The  *)
(* format is read character by character; "role" is what the last one was, *)
(* "next" the first argument not yet taken.  The directives of the build   *)
(* without long long support take none for theirs.                         *)
(***************************************************************************)
Outside      == {"text", "specifier"}
BeforeWidth  == {"percent", "flag"}
BeforePoint  == BeforeWidth \cup {"width", "widthArg"}
BeforeLength == BeforePoint \cup {"point", "precision", "precisionArg"}
BeforeSpec   == BeforeLength \cup {"h", "hh", "l", "ll", "j", "z"}
Specifiers   == IntegerSpecs \cup {"c", "s", "p", "%"}

RoleAfter(r, c) ==
  CASE r \in Outside /\ c = NUL                            -> "end"
    [] r \in Outside /\ c = "%"                            -> "percent"
    [] r \in Outside /\ c \notin {NUL, "%"}                -> "text"
    [] r \in BeforeWidth /\ c \in FlagChars                -> "flag"
    [] r \in BeforeWidth /\ c \in Digits \ FlagChars     -> "width"
    [] r = "width" /\ c \in Digits                         -> "width"
    [] r \in BeforeWidth /\ c = "*"                        -> "widthArg"
    [] r \in BeforePoint /\ c = "."                        -> "point"
    [] r \in {"point", "precision"} /\ c \in Digits        -> "precision"
    [] r = "point" /\ c = "*"                              -> "precisionArg"
    [] r \in BeforeLength /\ c \in {"h", "l", "j", "z"}    -> c
    [] r = "h" /\ c = "h"                                  -> "hh"
    [] r = "l" /\ c = "l"                                  -> "ll"
    [] r \in BeforeSpec /\ c \in Specifiers                -> "specifier"
    [] OTHER                                               -> "wrong"

Takes(before, r, c) ==
  \/ r \in {"widthArg", "precisionArg"}
  \/ /\ r = "specifier" /\ c # "%"
     /\ before \in {"ll", "j"} => c \notin IntegerSpecs

OfType(v, c) ==
  CASE c \in IntegerSpecs \cup {"*"} -> v \in Int
    [] c = "p"                       -> v \in Nat
    [] c = "c"                       -> v \in Characters
    [] OTHER                         -> v \in Seq(Characters)

Reading(chars) ==
  LET mark[n \in 0 .. Len(chars)] ==
        IF n = 0 THEN [role |-> "text", next |-> 1]
        ELSE LET before == mark[n - 1]
                 r      == RoleAfter(before.role, chars[n])
             IN [role |-> r,
                 next |-> before.next + (IF Takes(before.role, r, chars[n]) THEN 1 ELSE 0)]
  IN mark

WellFormed(call) ==
  LET mark == Reading(call.format)
      last == Len(call.format)
  IN /\ call.count \in Nat
     /\ call.format \in Seq(Characters) /\ Len(call.args) \in Nat
     /\ mark[last].role = "end"
     /\ \A n \in 1 .. last :
          LET c == call.format[n]  next == mark[n - 1].next
          IN /\ mark[n].role # "wrong"
             /\ Takes(mark[n - 1].role, mark[n].role, c) =>
                  next <= Len(call.args) /\ OfType(call.args[next], c)

No       == [by |-> "none", n |-> 0]
By(how, n) == [by |-> how, n |-> n]

Literal(chars) ==
  [flags |-> {}, width |-> No, prec |-> No, length |-> <<>>, spec |-> "text", value |-> chars]
=============================================================================
