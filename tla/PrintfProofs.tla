---------------------------- MODULE PrintfProofs ----------------------------
(***************************************************************************)
(* Proofs about Printf and Descriptor: whatever well-formed call is made   *)
(* of snprintf, the program stays within the buffer it was given, within   *)
(* the format and within the arguments, and no conversion overruns the     *)
(* buffer of _ntoa_long().                                                 *)
(*                                                                         *)
(* The formats, their arguments and the digits of a number are data of any *)
(* length.  The proofs by induction over them rest on the least-number     *)
(* principle for sets of naturals (Least), from which the principle of     *)
(* induction for a set follows; each proof names the set it needs.         *)
(***************************************************************************)
EXTENDS Descriptor, SequenceTheorems, FiniteSetTheorems, WellFoundedInduction, TLAPS

(***************************************************************************)
(* Induction.                                                              *)
(***************************************************************************)

(* A set of naturals that is not empty has a least element; it serves for  *)
(* the first character that is no digit (printf.c:186-193).                *)
LEMMA Least ==
  ASSUME NEW T, T \subseteq Nat, T # {}
  PROVE  \E x \in T : \A y \in T : x <= y
<1>1. PICK x \in T : \A y \in T : <<y, x>> \notin OpToRel(<, Nat)
  BY WFMin, NatLessThanWellFounded, Zenon
<1>2. \A y \in T : y \in Nat /\ x \in Nat /\ ~ (y < x)
  BY <1>1, Zenon DEF OpToRel
<1> QED
  BY <1>2, SMT

(* A set that holds 0, and with a natural the next one, holds them all;    *)
(* it serves for every loop over characters (printf.c:186-193, 646-1008).  *)
LEMMA Induction ==
  ASSUME NEW S, 0 \in S, \A n \in Nat : n \in S => n + 1 \in S
  PROVE  Nat \subseteq S
<1> SUFFICES ASSUME Nat \ S # {} PROVE FALSE
  OBVIOUS
<1>1. PICK x \in Nat \ S : \A y \in Nat \ S : x <= y
  BY Least
<1>2. x - 1 \in Nat /\ x - 1 \in S
  BY <1>1
<1> QED
  BY <1>1, <1>2

(***************************************************************************)
(* The recursive functions are what their equations say.                   *)
(***************************************************************************)

(* The quotients the loop of _ntoa_long() runs through                     *)
(* (printf.c:313-318).                                                     *)
LEMMA QuotientsIs ==
  ASSUME NEW value \in Nat, NEW base \in Nat \ {0}
  PROVE  Quotients(value, base) =
           [k \in 0 .. NtoaSize |->
              IF k = 0 THEN value ELSE Quotients(value, base)[k - 1] \div base]
<1> DEFINE Is(f, n) == f = [k \in 0 .. n |-> IF k = 0 THEN value ELSE f[k - 1] \div base]
           S == {n \in Nat : \E f : Is(f, n)}
<1>1. 0 \in S
  <2>1. Is([k \in 0 .. 0 |-> value], 0)
    OBVIOUS
  <2> QED
    BY <2>1
<1>2. ASSUME NEW n \in Nat, n \in S
      PROVE  n + 1 \in S
  <2>1. PICK f : Is(f, n)
    BY <1>2
  <2> DEFINE g == [k \in 0 .. (n + 1) |-> IF k = n + 1 THEN f[n] \div base ELSE f[k]]
  <2>2. \A k \in 0 .. (n + 1) : g[k] = IF k = 0 THEN value ELSE g[k - 1] \div base
    BY <2>1
  <2>3. g = [k \in 0 .. (n + 1) |-> g[k]]
    OBVIOUS
  <2> HIDE DEF g
  <2>4. Is(g, n + 1)
    BY <2>2, <2>3, Zenon
  <2> QED
    BY <2>4
<1> HIDE DEF S
<1>3. NtoaSize \in S
  BY <1>1, <1>2, WidthAssumption, Induction
<1>4. \E f : Is(f, NtoaSize)
  BY <1>3 DEF S
<1> HIDE DEF Is
<1>5. Quotients(value, base) = CHOOSE f : Is(f, NtoaSize)
  BY Zenon DEF Quotients, Is
<1>6. Is(Quotients(value, base), NtoaSize)
  BY <1>4, <1>5, Zenon
<1> QED
  BY <1>6 DEF Is

(* They are naturals (printf.c:313-318).                                   *)
LEMMA QuotientsType ==
  ASSUME NEW value \in Nat, NEW base \in Nat \ {0}
  PROVE  \A k \in 0 .. NtoaSize : Quotients(value, base)[k] \in Nat
<1> DEFINE q == Quotients(value, base)
           S == {k \in Nat : k <= NtoaSize => q[k] \in Nat}
<1>1. \A k \in 0 .. NtoaSize : q[k] = IF k = 0 THEN value ELSE q[k - 1] \div base
  <2>1. q = [k \in 0 .. NtoaSize |-> IF k = 0 THEN value ELSE q[k - 1] \div base]
    BY QuotientsIs, Zenon
  <2> HIDE DEF q
  <2> QED
    BY <2>1, Zenon
<1> HIDE DEF q
<1>2. 0 \in S
  <2>1. 0 \in 0 .. NtoaSize
    BY WidthAssumption
  <2>2. q[0] = value
    BY <1>1, <2>1
  <2> QED
    BY <2>2
<1>3. ASSUME NEW n \in Nat, n \in S
      PROVE  n + 1 \in S
  <2> SUFFICES ASSUME n + 1 <= NtoaSize PROVE q[n + 1] \in Nat
    OBVIOUS
  <2>1. q[n] \in Nat
    BY <1>3, WidthAssumption
  <2>2. q[n + 1] = q[n] \div base
    BY <1>1, WidthAssumption
  <2>3. \A a \in Nat : a \div base \in Nat
    OBVIOUS
  <2> QED
    BY <2>1, <2>2, <2>3, Zenon
<1>4. Nat \subseteq S
  <2> HIDE DEF S
  <2> QED
    BY <1>2, <1>3, Induction
<1>5. \A k \in 0 .. NtoaSize : q[k] \in Nat
  BY <1>4, WidthAssumption
<1> QED
  BY <1>5 DEF q

(* The number that the digits read so far stand for (printf.c:186-193).    *)
LEMMA ValuesIs ==
  ASSUME NEW digits, Len(digits) \in Nat
  PROVE  Values(digits) =
           [k \in 0 .. Len(digits) |->
              IF k = 0 THEN 0
              ELSE (Values(digits)[k - 1] * 10 + DigitValue(digits[k])) % IntRange]
<1> DEFINE Step(v, k) == (v * 10 + DigitValue(digits[k])) % IntRange
<1> HIDE DEF Step
<1> DEFINE Is(f, n) == f = [k \in 0 .. n |-> IF k = 0 THEN 0 ELSE Step(f[k - 1], k)]
           S == {n \in Nat : \E f : Is(f, n)}
<1>1. 0 \in S
  <2>1. Is([k \in 0 .. 0 |-> 0], 0)
    OBVIOUS
  <2> QED
    BY <2>1
<1>2. ASSUME NEW n \in Nat, n \in S
      PROVE  n + 1 \in S
  <2>1. PICK f : Is(f, n)
    BY <1>2
  <2> DEFINE g == [k \in 0 .. (n + 1) |-> IF k = n + 1 THEN Step(f[n], n + 1) ELSE f[k]]
  <2>2. \A k \in 0 .. (n + 1) : g[k] = IF k = 0 THEN 0 ELSE Step(g[k - 1], k)
    BY <2>1
  <2>3. g = [k \in 0 .. (n + 1) |-> g[k]]
    OBVIOUS
  <2> HIDE DEF g
  <2>4. Is(g, n + 1)
    BY <2>2, <2>3, Zenon
  <2> QED
    BY <2>4
<1> HIDE DEF S
<1>3. Len(digits) \in S
  BY <1>1, <1>2, Induction
<1>4. \E f : Is(f, Len(digits))
  BY <1>3 DEF S
<1> HIDE DEF Is
<1>5. Values(digits) = CHOOSE f : Is(f, Len(digits))
  BY Zenon DEF Values, Is, Step
<1>6. Is(Values(digits), Len(digits))
  BY <1>4, <1>5, Zenon
<1> QED
  BY <1>6, Zenon DEF Is, Step

(* It is a natural, whatever the digits (printf.c:186-193).                *)
LEMMA ValuesType ==
  ASSUME NEW digits, Len(digits) \in Nat,
         \A k \in 1 .. Len(digits) : digits[k] \in Digits
  PROVE  Values(digits)[Len(digits)] \in Nat
<1> DEFINE v == Values(digits)
           S == {k \in Nat : k <= Len(digits) => v[k] \in Nat}
<1>1. \A k \in 0 .. Len(digits) :
        v[k] = IF k = 0 THEN 0 ELSE (v[k - 1] * 10 + DigitValue(digits[k])) % IntRange
  BY ValuesIs
<1>2. ASSUME NEW k \in 1 .. Len(digits)
      PROVE  DigitValue(digits[k]) \in Nat
  <2>1. PICK d \in 1 .. 10 : digits[k] = DecimalDigits[d]
    BY DEF Digits
  <2>2. d - 1 \in 0 .. 9 /\ DecimalDigits[(d - 1) + 1] = digits[k]
    BY <2>1
  <2>3. DigitValue(digits[k]) \in 0 .. 9
    BY <2>2, Zenon DEF DigitValue
  <2> QED
    BY <2>3
<1> HIDE DEF v
<1>3. 0 \in S
  BY <1>1
<1>4. ASSUME NEW n \in Nat, n \in S
      PROVE  n + 1 \in S
  <2> SUFFICES ASSUME n + 1 <= Len(digits) PROVE v[n + 1] \in Nat
    OBVIOUS
  <2>1. v[n] \in Nat
    BY <1>4
  <2>2. v[n + 1] = (v[n] * 10 + DigitValue(digits[n + 1])) % IntRange
    BY <1>1
  <2>3. v[n] * 10 + DigitValue(digits[n + 1]) \in Nat
    BY <2>1, <1>2
  <2>4. \A a \in Nat : a % IntRange \in Nat
    BY WidthAssumption
  <2> QED
    BY <2>2, <2>3, <2>4, Zenon
<1>5. Nat \subseteq S
  <2> HIDE DEF S
  <2> QED
    BY <1>3, <1>4, Induction
<1>6. v[Len(digits)] \in Nat
  BY <1>5
<1> QED
  BY <1>6 DEF v

(***************************************************************************)
(* Reading a format.                                                       *)
(***************************************************************************)

(* What is known after each character of a format (printf.c:646-1008).     *)
LEMMA ReadingIs ==
  ASSUME NEW chars, Len(chars) \in Nat
  PROVE  /\ Reading(chars)[0] = [role |-> "text", next |-> 1]
         /\ \A n \in 1 .. Len(chars) :
              LET before == Reading(chars)[n - 1]
                  r      == RoleAfter(before.role, chars[n])
              IN Reading(chars)[n] =
                   [role |-> r,
                    next |-> before.next
                               + (IF Takes(before.role, r, chars[n]) THEN 1 ELSE 0)]
<1> DEFINE Start == [role |-> "text", next |-> 1]
           Step(before, n) ==
             LET r == RoleAfter(before.role, chars[n])
             IN [role |-> r,
                 next |-> before.next
                            + (IF Takes(before.role, r, chars[n]) THEN 1 ELSE 0)]
<1> HIDE DEF Start, Step
<1> DEFINE Is(f, n) == f = [k \in 0 .. n |-> IF k = 0 THEN Start ELSE Step(f[k - 1], k)]
           S == {n \in Nat : \E f : Is(f, n)}
<1>1. 0 \in S
  <2>1. Is([k \in 0 .. 0 |-> Start], 0)
    OBVIOUS
  <2> QED
    BY <2>1
<1>2. ASSUME NEW n \in Nat, n \in S
      PROVE  n + 1 \in S
  <2>1. PICK f : Is(f, n)
    BY <1>2
  <2> DEFINE g == [k \in 0 .. (n + 1) |-> IF k = n + 1 THEN Step(f[n], n + 1) ELSE f[k]]
  <2>2. \A k \in 0 .. (n + 1) : g[k] = IF k = 0 THEN Start ELSE Step(g[k - 1], k)
    BY <2>1
  <2>3. g = [k \in 0 .. (n + 1) |-> g[k]]
    OBVIOUS
  <2> HIDE DEF g
  <2>4. Is(g, n + 1)
    BY <2>2, <2>3, Zenon
  <2> QED
    BY <2>4
<1> HIDE DEF S
<1>3. Len(chars) \in S
  BY <1>1, <1>2, Induction
<1>4. \E f : Is(f, Len(chars))
  BY <1>3 DEF S
<1> HIDE DEF Is
<1>5. Reading(chars) = CHOOSE f : Is(f, Len(chars))
  BY Zenon DEF Reading, Is, Start, Step
<1>6. Is(Reading(chars), Len(chars))
  BY <1>4, <1>5, Zenon
<1> DEFINE m == Reading(chars)
<1> HIDE DEF m
<1>7. m = [k \in 0 .. Len(chars) |-> IF k = 0 THEN Start ELSE Step(m[k - 1], k)]
  BY <1>6, Zenon DEF Is, m
<1>8. m[0] = Start
  BY <1>7
<1>9. \A n \in 1 .. Len(chars) : m[n] = Step(m[n - 1], n)
  BY <1>7
<1> QED
  BY <1>8, <1>9, Zenon DEF m, Start, Step

(* The role of the next character, and the argument after it.              *)
LEMMA ReadingStep ==
  ASSUME NEW call, WellFormed(call), NEW n \in 1 .. Len(call.format)
  PROVE  LET mark == Reading(call.format)
         IN /\ mark[n].role = RoleAfter(mark[n - 1].role, call.format[n])
            /\ mark[n].role # "wrong"
            /\ mark[n].next = mark[n - 1].next
                 + (IF Takes(mark[n - 1].role, mark[n].role, call.format[n]) THEN 1 ELSE 0)
<1>1. call.format \in Seq(Characters) /\ Reading(call.format)[n].role # "wrong"
  BY Zenon DEF WellFormed
<1>2. Len(call.format) \in Nat
  BY <1>1
<1>3. LET before == Reading(call.format)[n - 1]
          r      == RoleAfter(before.role, call.format[n])
      IN Reading(call.format)[n] =
           [role |-> r,
            next |-> before.next
                       + (IF Takes(before.role, r, call.format[n]) THEN 1 ELSE 0)]
  BY <1>2, ReadingIs, Zenon
<1> DEFINE c == call.format[n]
           before == Reading(call.format)[n - 1]
           r == RoleAfter(before.role, c)
           t == Takes(before.role, r, c)
<1>4. Reading(call.format)[n] = [role |-> r, next |-> before.next + (IF t THEN 1 ELSE 0)]
  BY <1>3
<1> HIDE DEF t, r
<1>5. /\ Reading(call.format)[n].role = r
      /\ Reading(call.format)[n].next = before.next + (IF t THEN 1 ELSE 0)
  BY <1>4
<1> QED
  BY <1>1, <1>5, Zenon DEF t, r

(* Every argument a well-formed format asks for was passed.                *)
LEMMA NextBound ==
  ASSUME NEW call, WellFormed(call)
  PROVE  \A n \in 0 .. Len(call.format) :
           Reading(call.format)[n].next \in 1 .. (Len(call.args) + 1)
<1> DEFINE mark == Reading(call.format)
           S == {n \in Nat : n <= Len(call.format) => mark[n].next \in 1 .. (Len(call.args) + 1)}
<1>1. Len(call.format) \in Nat /\ Len(call.args) \in Nat
  BY DEF WellFormed
<1>2. 0 \in S
  <2>1. mark[0] = [role |-> "text", next |-> 1]
    BY <1>1, ReadingIs, Zenon
  <2>2. mark[0].next = 1
    BY <2>1
  <2> QED
    BY <1>1, <2>2
<1>3. ASSUME NEW n \in Nat, n \in S
      PROVE  n + 1 \in S
  <2> SUFFICES ASSUME n + 1 <= Len(call.format)
               PROVE  mark[n + 1].next \in 1 .. (Len(call.args) + 1)
    OBVIOUS
  <2>0. n + 1 \in 1 .. Len(call.format) /\ (n + 1) - 1 = n
    BY <1>1
  <2> DEFINE t == Takes(mark[n].role, mark[n + 1].role, call.format[n + 1])
  <2>1. mark[n + 1].next = mark[n].next + (IF t THEN 1 ELSE 0)
    BY <2>0, ReadingStep
  <2>2. t => mark[n].next <= Len(call.args)
    BY <2>0 DEF WellFormed
  <2> HIDE DEF t
  <2>3. mark[n].next \in 1 .. (Len(call.args) + 1)
    BY <1>3, <1>1
  <2> HIDE DEF mark
  <2> QED
    BY <1>1, <2>1, <2>2, <2>3
<1>4. Nat \subseteq S
  <2> HIDE DEF S
  <2> QED
    BY <1>2, <1>3, Induction
<1> QED
  BY <1>1, <1>4

(***************************************************************************)
(* The grammar: which characters may follow, and what they are then.       *)
(***************************************************************************)

(* The ten digits (printf.c:181-182).                                      *)
LEMMA DigitChars ==
  Digits = {"0", "1", "2", "3", "4", "5", "6", "7", "8", "9"}
  BY DEF Digits, DecimalDigits

Letters == {"h", "l", "j", "z"}     \* of a length

(* What comes after the next character, if the format is well formed: the  *)
(* parts of a directive are told apart by their characters                 *)
(* (printf.c:654-1000).                                                    *)
LEMMA Follow ==
  ASSUME NEW r, NEW c, RoleAfter(r, c) # "wrong"
  PROVE  LET next == RoleAfter(r, c)
             rest == \/ c \in Letters /\ next = c
                     \/ c \in Specifiers /\ next = "specifier"
         IN /\ r \in Outside =>
                 \/ c = NUL /\ next = "end"
                 \/ c = "%" /\ next = "percent"
                 \/ c \notin {NUL, "%"} /\ next = "text"
            /\ r \in BeforeWidth =>
                 \/ c \in FlagChars /\ next = "flag"
                 \/ c \in Digits \ FlagChars /\ next = "width"
                 \/ c = "*" /\ next = "widthArg"
                 \/ c = "." /\ next = "point"
                 \/ rest
            /\ r = "width" =>
                 \/ c \in Digits /\ next = "width"
                 \/ c = "." /\ next = "point"
                 \/ rest
            /\ r = "widthArg" =>
                 \/ c = "." /\ next = "point"
                 \/ rest
            /\ r = "point" =>
                 \/ c \in Digits /\ next = "precision"
                 \/ c = "*" /\ next = "precisionArg"
                 \/ rest
            /\ r = "precision" =>
                 \/ c \in Digits /\ next = "precision"
                 \/ rest
            /\ r = "precisionArg" => rest
            /\ r \in Letters \cup {"hh", "ll"} =>
                 \/ r = "h" /\ c = "h" /\ next = "hh"
                 \/ r = "l" /\ c = "l" /\ next = "ll"
                 \/ c \in Specifiers /\ next = "specifier"
            /\ r # "end"
            /\ next = "end" => c = NUL
  BY DigitChars
     DEF RoleAfter, Outside, BeforeWidth, BeforePoint, BeforeLength, BeforeSpec, FlagChars,
         Letters, Specifiers, IntegerSpecs, SignedSpecs, UnsignedSpecs, NUL

(* No specifier, no length letter and no point is a digit, a flag or "*".  *)
(* The code tells the parts of a directive apart by this                   *)
(* (printf.c:671-786).                                                     *)
LEMMA CharsApart ==
  ASSUME NEW c \in Specifiers \cup Letters \cup {"."}
  PROVE  c \notin Digits /\ c \notin FlagChars /\ c # "*" /\ c # NUL
  BY DigitChars DEF Letters, Specifiers, IntegerSpecs, SignedSpecs, UnsignedSpecs, FlagChars, NUL

(***************************************************************************)
(* Moving along a format.                                                  *)
(***************************************************************************)

(* A well-formed format has a first character (printf.c:646-654).          *)
LEMMA FormatStarts ==
  ASSUME NEW call, WellFormed(call)
  PROVE  /\ Len(call.format) \in Nat
         /\ DOMAIN call.format = 1 .. Len(call.format)
         /\ 1 \in 1 .. Len(call.format)
         /\ Reading(call.format)[0].role = "text"
         /\ Reading(call.format)[0].next = 1
<1>1. call.format \in Seq(Characters) /\ Reading(call.format)[Len(call.format)].role = "end"
  BY DEF WellFormed
<1>2. Len(call.format) \in Nat /\ DOMAIN call.format = 1 .. Len(call.format)
  BY <1>1
<1>3. Reading(call.format)[0] = [role |-> "text", next |-> 1]
  BY <1>2, ReadingIs, Zenon
<1>4. Reading(call.format)[0].role = "text" /\ Reading(call.format)[0].next = 1
  BY <1>3
<1> QED
  BY <1>1, <1>2, <1>4

(* Behind a character that is not the end there is another one             *)
(* (printf.c:654-1008).                                                    *)
LEMMA Onward ==
  ASSUME NEW call, WellFormed(call), NEW n \in 1 .. Len(call.format),
         Reading(call.format)[n].role # "end"
  PROVE  n + 1 \in 1 .. Len(call.format)
<1>1. Reading(call.format)[Len(call.format)].role = "end"
  BY DEF WellFormed
<1>2. n # Len(call.format)
  BY <1>1
<1> QED
  BY <1>2, FormatStarts

(* A run of digits has an end, before the end of the format                *)
(* (printf.c:186-193).                                                     *)
LEMMA RunEnds ==
  ASSUME WellFormed(run), NEW n \in 1 .. Len(run.format)
  PROVE  /\ EndOfDigits(n) \in n .. Len(run.format)
         /\ run.format[EndOfDigits(n)] \notin Digits
         /\ \A k \in n .. (EndOfDigits(n) - 1) : run.format[k] \in Digits
<1> DEFINE last == Len(run.format)
           T == {m \in n .. last : run.format[m] \notin Digits}
<1>1. last \in Nat /\ last \in 1 .. last
  BY FormatStarts
<1>2. run.format[last] \notin Digits
  <2>1. RoleAfter(Reading(run.format)[last - 1].role, run.format[last]) = "end"
    BY <1>1, ReadingStep DEF WellFormed
  <2>2. run.format[last] = NUL
    BY <2>1, Follow
  <2> QED
    BY <2>2, DigitChars DEF NUL
<1>3. T \subseteq Nat /\ T # {}
  BY <1>1, <1>2
<1>4. PICK e \in T : \A y \in T : e <= y
  <2> HIDE DEF T
  <2> QED
    BY <1>3, Least
<1>5. \A k \in n .. (e - 1) : run.format[k] \in Digits
  BY <1>1, <1>4
<1>6. \E m \in n .. last : /\ ~ _is_digit(run.format[m])
                           /\ \A k \in n .. (m - 1) : _is_digit(run.format[k])
  BY <1>5, Zenon DEF _is_digit
<1>7. LET m == EndOfDigits(n)
      IN /\ m \in n .. last
         /\ ~ _is_digit(run.format[m])
         /\ \A k \in n .. (m - 1) : _is_digit(run.format[k])
  BY <1>6, Zenon DEF EndOfDigits
<1> QED
  BY <1>7, Zenon DEF _is_digit

(* What is known behind the digits of a width: they take no argument       *)
(* (printf.c:710-713).                                                     *)
LEMMA WidthRun ==
  ASSUME NEW call, WellFormed(call), NEW n \in 1 .. Len(call.format),
         NEW e \in n .. Len(call.format),
         Reading(call.format)[n - 1].role \in BeforeWidth,
         call.format[n] \notin FlagChars,
         \A k \in n .. (e - 1) : call.format[k] \in Digits
  PROVE  /\ e > n => Reading(call.format)[e - 1].role = "width"
         /\ Reading(call.format)[e - 1].next = Reading(call.format)[n - 1].next
<1> DEFINE mark == Reading(call.format)
           At0(k) == /\ k > 0 => mark[n - 1 + k].role = "width"
                     /\ mark[n - 1 + k].next = mark[n - 1].next
           S == {k \in Nat : n + k <= e => At0(k)}
<1>0. Len(call.format) \in Nat
  BY FormatStarts
<1>1. 0 \in S
  BY <1>0
<1>2. ASSUME NEW k \in Nat, k \in S
      PROVE  k + 1 \in S
  <2> SUFFICES ASSUME n + (k + 1) <= e PROVE At0(k + 1)
    OBVIOUS
  <2>1. At0(k)
    BY <1>0, <1>2
  <2>2. /\ n + k \in 1 .. Len(call.format) /\ n + k \in n .. (e - 1)
        /\ (n + k) - 1 = n - 1 + k /\ n - 1 + (k + 1) = n + k
    BY <1>0
  <2> DEFINE c == call.format[n + k]
             r == mark[n - 1 + k].role
  <2>3. /\ mark[n + k].role = RoleAfter(r, c)
        /\ mark[n + k].role # "wrong"
        /\ mark[n + k].next = mark[n - 1 + k].next
             + (IF Takes(r, mark[n + k].role, c) THEN 1 ELSE 0)
    BY <2>2, ReadingStep
  <2>4. c \in Digits
    BY <2>2
  <2>5. r = "width" \/ (r \in BeforeWidth /\ c \notin FlagChars)
    BY <2>1, <1>0
  <2>6. c \notin Specifiers \cup Letters \cup {"."} /\ c # "*"
    BY <2>4, CharsApart, DigitChars
  <2>7. mark[n + k].role = "width"
    <3> HIDE DEF c, r, mark
    <3> QED
      BY <2>3, <2>4, <2>5, <2>6, Follow
  <2>8. ~ Takes(r, mark[n + k].role, c)
    <3> HIDE DEF r, c, mark
    <3> QED
      BY <2>7 DEF Takes
  <2>9. mark[n + k].next = mark[n - 1].next
    <3>1. mark[n - 1 + k].next = mark[n - 1].next /\ mark[n - 1].next \in Nat
      BY <2>1, <1>0, NextBound
    <3> HIDE DEF r, c, mark
    <3> QED
      BY <3>1, <2>3, <2>8
  <2> QED
    BY <2>2, <2>7, <2>9
<1>3. Nat \subseteq S
  <2> HIDE DEF S
  <2> QED
    BY <1>1, <1>2, Induction
<1>4. e - n \in Nat /\ n + (e - n) <= e /\ n - 1 + (e - n) = e - 1 /\ (e > n => e - n > 0)
  BY <1>0
<1>5. At0(e - n)
  BY <1>3, <1>4
<1> QED
  BY <1>4, <1>5

(* The same behind the point of a precision, whose digits may be none      *)
(* (printf.c:730-737).                                                     *)
LEMMA PrecisionRun ==
  ASSUME NEW call, WellFormed(call), NEW n \in 1 .. Len(call.format),
         NEW e \in n .. Len(call.format),
         Reading(call.format)[n - 1].role = "point",
         \A k \in n .. (e - 1) : call.format[k] \in Digits
  PROVE  /\ e > n => Reading(call.format)[e - 1].role = "precision"
         /\ Reading(call.format)[e - 1].next = Reading(call.format)[n - 1].next
<1> DEFINE mark == Reading(call.format)
           At0(k) == /\ k > 0 => mark[n - 1 + k].role = "precision"
                     /\ mark[n - 1 + k].next = mark[n - 1].next
           S == {k \in Nat : n + k <= e => At0(k)}
<1>0. Len(call.format) \in Nat
  BY FormatStarts
<1>1. 0 \in S
  BY <1>0
<1>2. ASSUME NEW k \in Nat, k \in S
      PROVE  k + 1 \in S
  <2> SUFFICES ASSUME n + (k + 1) <= e PROVE At0(k + 1)
    OBVIOUS
  <2>1. At0(k)
    BY <1>0, <1>2
  <2>2. /\ n + k \in 1 .. Len(call.format) /\ n + k \in n .. (e - 1)
        /\ (n + k) - 1 = n - 1 + k /\ n - 1 + (k + 1) = n + k
    BY <1>0
  <2> DEFINE c == call.format[n + k]
             r == mark[n - 1 + k].role
  <2>3. /\ mark[n + k].role = RoleAfter(r, c)
        /\ mark[n + k].role # "wrong"
        /\ mark[n + k].next = mark[n - 1 + k].next
             + (IF Takes(r, mark[n + k].role, c) THEN 1 ELSE 0)
    BY <2>2, ReadingStep
  <2>4. c \in Digits
    BY <2>2
  <2>5. r \in {"point", "precision"}
    BY <2>1, <1>0
  <2>6. c \notin Specifiers \cup Letters \cup {"."} /\ c # "*"
    BY <2>4, CharsApart, DigitChars
  <2>7. mark[n + k].role = "precision"
    <3> HIDE DEF c, r, mark
    <3> QED
      BY <2>3, <2>4, <2>5, <2>6, Follow
  <2>8. ~ Takes(r, mark[n + k].role, c)
    <3> HIDE DEF r, c, mark
    <3> QED
      BY <2>7 DEF Takes
  <2>9. mark[n + k].next = mark[n - 1].next
    <3>1. mark[n - 1 + k].next = mark[n - 1].next /\ mark[n - 1].next \in Nat
      BY <2>1, <1>0, NextBound
    <3> HIDE DEF r, c, mark
    <3> QED
      BY <3>1, <2>3, <2>8
  <2> QED
    BY <2>2, <2>7, <2>9
<1>3. Nat \subseteq S
  <2> HIDE DEF S
  <2> QED
    BY <1>1, <1>2, Induction
<1>4. e - n \in Nat /\ n + (e - n) <= e /\ n - 1 + (e - n) = e - 1 /\ (e > n => e - n > 0)
  BY <1>0
<1>5. At0(e - n)
  BY <1>3, <1>4
<1> QED
  BY <1>4, <1>5

(* A run of digits as a string, and its number (printf.c:186-193).         *)
LEMMA RunNumber ==
  ASSUME WellFormed(run), NEW n \in 1 .. Len(run.format)
  PROVE  /\ Len(DigitRun(n)) = EndOfDigits(n) - n
         /\ _atoi(n) \in Nat
<1> DEFINE e == EndOfDigits(n)
           f == run.format
           d == DigitRun(n)
<1>1. f \in Seq(Characters) /\ Len(f) \in Nat
  BY FormatStarts DEF WellFormed
<1>2. /\ e \in n .. Len(f)
      /\ \A k \in n .. (e - 1) : f[k] \in Digits
  BY RunEnds
<1>3. d = SubSeq(f, n, e - 1)
  BY DEF DigitRun
<1> HIDE DEF e, f, d
<1>4. Len(d) = e - n /\ \A k \in 1 .. (e - n) : d[k] = f[n + k - 1]
  BY <1>1, <1>2, <1>3
<1>5. Len(d) \in Nat /\ \A k \in 1 .. Len(d) : d[k] \in Digits
  BY <1>1, <1>2, <1>4
<1>6. Values(d)[Len(d)] \in Nat
  BY <1>5, ValuesType
<1> QED
  BY <1>4, <1>6 DEF _atoi, d, e

(***************************************************************************)
(* The texts a directive puts out, and the conversion buffer.              *)
(***************************************************************************)

(* A sequence is a function from 1 .. n: the tables of digits, and every   *)
(* piece of text the code puts together (printf.c:196-322).                *)
LEMMA TupleType ==
  ASSUME NEW S, NEW n \in Nat, NEW s \in [1 .. n -> S]
  PROVE  s \in Seq(S) /\ Len(s) = n
<1>1. s \in Seq(S)
  BY SeqDef, Zenon
<1>2. Len(s) \in Nat /\ 1 .. Len(s) = 1 .. n
  BY <1>1, LenProperties
<1>3. Len(s) = n
  <2>1. CASE Len(s) < n
    <3>1. n \in 1 .. n /\ n \notin 1 .. Len(s)
      BY <1>2, <2>1
    <3> QED
      BY <1>2, <3>1
  <2>2. CASE Len(s) > n
    <3>1. Len(s) \in 1 .. Len(s) /\ Len(s) \notin 1 .. n
      BY <1>2, <2>2
    <3> QED
      BY <1>2, <3>1
  <2> QED
    BY <1>2, <2>1, <2>2
<1> QED
  BY <1>1, <1>3

(* A string is a sequence of characters (printf.c:196-322).                *)
LEMMA TextType ==
  ASSUME NEW n \in Nat, NEW s \in [1 .. n -> Characters]
  PROVE  s \in Seq(Characters) /\ Len(s) = n
  BY TupleType

(* Padding (printf.c:200-223).                                             *)
LEMMA CopiesType ==
  ASSUME NEW c \in Characters, NEW n \in Int
  PROVE  /\ Copies(c, n) \in Seq(Characters)
         /\ Len(Copies(c, n)) = IF n > 0 THEN n ELSE 0
<1> DEFINE m == IF n > 0 THEN n ELSE 0
<1>1. m \in Nat
  OBVIOUS
<1>2. Copies(c, n) = [k \in 1 .. m |-> c]
  BY DEF Copies
<1> HIDE DEF m
<1>3. Copies(c, n) \in [1 .. m -> Characters]
  BY <1>2
<1> QED
  BY <1>1, <1>3, TextType DEF m

Texts == Seq(Characters)

Buffers == {s \in Texts : Len(s) <= NtoaSize}     \* of _ntoa_long()

(* The characters the code adds (printf.c:200-291).                        *)
LEMMA OwnCharacters ==
  /\ {NUL, "0", "b", "x", "X", "-", "+", " "} \subseteq Characters
  /\ <<>> \in Texts /\ Len(<<>>) = 0
  /\ \A c \in Characters : <<c>> \in Texts /\ Len(<<c>>) = 1
<1>1. ASSUME NEW c \in Characters
      PROVE  <<c>> \in Texts /\ Len(<<c>>) = 1
  <2>1. <<c>> \in [1 .. 1 -> Characters]
    OBVIOUS
  <2> QED
    BY <2>1, TextType DEF Texts
<1> QED
  BY <1>1, CharacterAssumption, EmptySeq, Zenon DEF Texts

(* One string after another (printf.c:200-223).                            *)
LEMMA Joined ==
  ASSUME NEW s \in Texts, NEW t \in Texts
  PROVE  s \o t \in Texts /\ Len(s \o t) = Len(s) + Len(t) /\ Len(s) \in Nat /\ Len(t) \in Nat
  BY ConcatProperties, LenProperties DEF Texts

(* The reversal of _out_rev() (printf.c:209-212).                          *)
LEMMA ReverseType ==
  ASSUME NEW s \in Texts
  PROVE  Reverse(s) \in Texts /\ Len(Reverse(s)) = Len(s)
<1>1. Len(s) \in Nat /\ \A k \in 1 .. Len(s) : s[k] \in Characters
  BY LenProperties, ElementOfSeq DEF Texts
<1>2. \A k \in 1 .. Len(s) : s[(Len(s) - k) + 1] \in Characters
  BY <1>1
<1>3. Reverse(s) \in [1 .. Len(s) -> Characters]
  BY <1>2 DEF Reverse
<1> QED
  BY <1>1, <1>3, TextType DEF Texts

(* Zeros are added while there is room (printf.c:239-246).                 *)
LEMMA FillToFits ==
  ASSUME NEW buf \in Buffers, NEW n \in Int
  PROVE  FillTo(buf, n) \in Buffers
<1> DEFINE m == Smaller(n, NtoaSize) - Len(buf)
<1>1. buf \in Texts /\ Len(buf) \in Nat /\ Len(buf) <= NtoaSize /\ NtoaSize \in Nat
  BY WidthAssumption, LenProperties DEF Buffers, Texts
<1>2. m \in Int /\ m + Len(buf) <= NtoaSize
  BY <1>1 DEF Smaller
<1> HIDE DEF m
<1>3. /\ Copies("0", m) \in Texts
      /\ Len(Copies("0", m)) = IF m > 0 THEN m ELSE 0
  BY <1>2, OwnCharacters, CopiesType DEF Texts
<1>4. FillTo(buf, n) \in Texts /\ Len(FillTo(buf, n)) = Len(buf) + Len(Copies("0", m))
  BY <1>1, <1>3, Joined DEF FillTo, m
<1> QED
  BY <1>1, <1>2, <1>3, <1>4 DEF Buffers

(* One more character is added if there is room (printf.c:256-292).        *)
LEMMA RoomFits ==
  ASSUME NEW buf \in Buffers, NEW chars \in Texts, Len(chars) <= 1
  PROVE  Room(buf, chars) \in Buffers
<1>1. buf \in Texts /\ Len(buf) \in Nat /\ Len(buf) <= NtoaSize /\ NtoaSize \in Nat
  BY WidthAssumption, LenProperties DEF Buffers, Texts
<1>2. buf \o chars \in Texts /\ Len(buf \o chars) = Len(buf) + Len(chars) /\ Len(chars) \in Nat
  BY <1>1, Joined
<1>3. CASE Len(buf) < NtoaSize
  <2>1. Len(buf \o chars) <= NtoaSize
    BY <1>1, <1>2, <1>3
  <2> QED
    BY <1>2, <1>3, <2>1 DEF Room, Buffers
<1> QED
  BY <1>3 DEF Room

(* The prefix of "#" takes the place of digits, or goes where there is     *)
(* room (printf.c:250-276).                                                *)
LEMMA HashedFits ==
  ASSUME NEW buf \in Buffers, NEW base, NEW w, NEW fl
  PROVE  Hashed(buf, base, w, fl) \in Buffers
<1> DEFINE l == Len(buf)
           cut == IF "PRECISION" \notin fl /\ l > 0 /\ (l = precision \/ l = w)
                    THEN IF base = 16 /\ l > 1 THEN 2 ELSE 1
                    ELSE 0
           kept == SubSeq(buf, 1, l - cut)
           mark == CASE base = 16 -> IF "UPPERCASE" \in fl THEN <<"X">> ELSE <<"x">>
                     [] base = 2  -> <<"b">>
                     [] OTHER     -> <<>>
<1>1. buf \in Texts /\ l \in Nat /\ l <= NtoaSize /\ NtoaSize \in Nat
  BY WidthAssumption, LenProperties DEF Buffers, Texts
<1>2. cut \in 0 .. l
  BY <1>1
<1>3. \A k \in 1 .. l : buf[k] \in Characters
  BY <1>1, ElementOfSeq DEF Texts
<1>4. kept \in Texts /\ Len(kept) <= NtoaSize
  <2> HIDE DEF cut
  <2>1. l - cut \in Int /\ \A k \in 1 .. (l - cut) : buf[k] \in Characters
    BY <1>1, <1>2, <1>3
  <2>2. kept \in Texts /\ Len(kept) = IF 1 <= l - cut THEN (l - cut) - 1 + 1 ELSE 0
    <3> HIDE DEF l
    <3> QED
      BY <2>1, SubSeqProperties DEF Texts
  <2> QED
    BY <1>1, <1>2, <2>2
<1>5. mark \in Texts /\ Len(mark) <= 1
  <2>1. mark \in {<<"X">>, <<"x">>, <<"b">>, <<>>}
    <3>1. CASE base = 16
      BY <3>1
    <3>2. CASE base # 16
      BY <3>2
    <3> QED
      BY <3>1, <3>2
  <2>2. \A s \in {<<"X">>, <<"x">>, <<"b">>, <<>>} : s \in Texts /\ Len(s) \in {0, 1}
    BY OwnCharacters, Zenon
  <2> HIDE DEF mark
  <2> QED
    BY <2>1, <2>2
<1>6. Hashed(buf, base, w, fl) = Room(Room(kept, mark), <<"0">>)
  BY DEF Hashed
<1> HIDE DEF kept, mark
<1>7. Room(kept, mark) \in Buffers
  BY <1>4, <1>5, RoomFits DEF Buffers
<1>8. <<"0">> \in Texts /\ Len(<<"0">>) <= 1
  <2>1. <<"0">> \in Texts /\ Len(<<"0">>) = 1
    BY OwnCharacters, Zenon
  <2> QED
    BY <2>1
<1>9. Room(Room(kept, mark), <<"0">>) \in Buffers
  BY <1>7, <1>8, RoomFits
<1> QED
  BY <1>6, <1>9

(* However wide the field and the precision, whatever the flags: the       *)
(* conversion of an integer stays in the buffer of _ntoa_long(), of        *)
(* PRINTF_NTOA_BUFFER_SIZE characters (printf.c:229-295).                  *)
THEOREM ConversionFits ==
  ASSUME NEW digits \in Buffers, NEW negative, NEW base, NEW w \in Int, NEW fl,
         precision \in Int
  PROVE  Converted(digits, negative, base, w, fl) \in Buffers
<1> DEFINE p == FillTo(digits, precision)
           padded == IF "-" \in fl THEN digits ELSE IF "0" \in fl THEN FillTo(p, w) ELSE p
           hashed == IF "#" \in fl THEN Hashed(padded, base, w, fl) ELSE padded
           sign == IF negative THEN <<"-">>
                   ELSE IF "+" \in fl THEN <<"+">>
                   ELSE IF " " \in fl THEN <<" ">>
                   ELSE <<>>
<1>1. p \in Buffers
  BY FillToFits
<1>2. padded \in Buffers
  <2> HIDE DEF p
  <2> QED
    BY <1>1, FillToFits
<1>3. hashed \in Buffers
  <2> HIDE DEF padded
  <2> QED
    BY <1>2, HashedFits
<1>4. sign \in Texts /\ Len(sign) <= 1
  <2>1. sign \in {<<"-">>, <<"+">>, <<" ">>, <<>>}
    BY Zenon
  <2>2. \A s \in {<<"-">>, <<"+">>, <<" ">>, <<>>} : s \in Texts /\ Len(s) \in {0, 1}
    BY OwnCharacters, Zenon
  <2> HIDE DEF sign
  <2>3. sign \in Texts /\ Len(sign) \in {0, 1}
    BY <2>1, <2>2, Zenon
  <2> QED
    BY <2>3
<1>5. Converted(digits, negative, base, w, fl) = Room(hashed, sign)
  BY Zenon DEF Converted
<1> HIDE DEF hashed, sign
<1> QED
  BY <1>3, <1>4, <1>5, RoomFits

(* Turned round and padded it is a string (printf.c:196-226).              *)
LEMMA OutRevType ==
  ASSUME NEW buf \in Texts, NEW w \in Int, NEW fl
  PROVE  _out_rev(buf, w, fl) \in Texts
<1> DEFINE gap == Copies(" ", w - Len(buf))
<1>1. w - Len(buf) \in Int
  BY LenProperties DEF Texts
<1>2. gap \in Texts
  BY <1>1, OwnCharacters, CopiesType DEF Texts
<1>3. Reverse(buf) \in Texts
  BY ReverseType
<1>4. \/ _out_rev(buf, w, fl) = Reverse(buf) \o gap
      \/ _out_rev(buf, w, fl) = Reverse(buf)
      \/ _out_rev(buf, w, fl) = gap \o Reverse(buf)
  <2> DEFINE a == Reverse(buf)
  <2> HIDE DEF a, gap
  <2>1. _out_rev(buf, w, fl) = CASE "-" \in fl -> a \o gap
                                 [] fl \cap {"-", "0"} = {"0"} -> a
                                 [] OTHER -> gap \o a
    BY DEF _out_rev, a, gap
  <2>2. ~ ("-" \in fl /\ fl \cap {"-", "0"} = {"0"})
    OBVIOUS
  <2> QED
    BY <2>1, <2>2 DEF a
<1> HIDE DEF gap
<1> QED
  BY <1>2, <1>3, <1>4, Joined

(* Digits are taken until nothing is left, or the buffer is full           *)
(* (printf.c:313-318).                                                     *)
LEMMA DigitCountIs ==
  ASSUME NEW q
  PROVE  /\ DigitCount(q) \in 1 .. NtoaSize
         /\ DigitCount(q) = NtoaSize \/ q[DigitCount(q)] = 0
<1> DEFINE T == {n \in 1 .. NtoaSize : n = NtoaSize \/ q[n] = 0}
<1>0. NtoaSize \in Nat \ {0}
  BY WidthAssumption
<1>1. T \subseteq Nat /\ NtoaSize \in T
  BY <1>0
<1>2. PICK n \in T : \A y \in T : n <= y
  <2> HIDE DEF T
  <2> QED
    BY <1>1, Least
<1>3. \A m \in 1 .. (n - 1) : q[m] # 0
  BY <1>0, <1>1, <1>2
<1>4. n \in 1 .. NtoaSize /\ (n = NtoaSize \/ q[n] = 0)
  OBVIOUS
<1>5. \E m \in 1 .. NtoaSize : /\ m = NtoaSize \/ q[m] = 0
                               /\ \A l \in 1 .. (m - 1) : q[l] # 0
  BY <1>3, <1>4, Zenon
<1> QED
  BY <1>5, Zenon DEF DigitCount

(* The digits of a natural: not more than the buffer takes                 *)
(* (printf.c:298-322).                                                     *)
LEMMA DigitsFit ==
  ASSUME NEW value \in Nat, NEW base \in {2, 8, 10, 16}, NEW fl
  PROVE  DigitsOf(value, base, fl) \in Buffers
<1> DEFINE q == Quotients(value, base)
           names == IF "UPPERCASE" \in fl THEN UpperDigits ELSE LowerDigits
           n0 == DigitCount(q)
           digits == [k \in 1 .. n0 |-> names[(q[k - 1] % base) + 1]]
<1>0. NtoaSize \in Nat \ {0} /\ base \in Nat \ {0}
  BY WidthAssumption
<1>1. \A k \in 0 .. NtoaSize : q[k] \in Nat
  BY <1>0, QuotientsType
<1>2. n0 \in 1 .. NtoaSize
  BY DigitCountIs
<1>3. digits \in Texts /\ Len(digits) = n0
  <2> HIDE DEF q, n0
  <2>1. ASSUME NEW k \in 1 .. n0
        PROVE  names[(q[k - 1] % base) + 1] \in Characters
    <3>1. q[k - 1] \in Nat
      BY <1>0, <1>1, <1>2
    <3>2. (q[k - 1] % base) + 1 \in 1 .. 16
      BY <3>1
    <3> QED
      BY <3>2, CharacterAssumption
  <2>2. digits \in [1 .. n0 -> Characters]
    BY <2>1
  <2>3. n0 \in Nat
    BY <1>2
  <2> QED
    BY <2>2, <2>3, TextType DEF Texts
<1>4. DigitsOf(value, base, fl) = <<>> \/ DigitsOf(value, base, fl) = digits
  BY Zenon DEF DigitsOf
<1> HIDE DEF digits, n0
<1>5. digits \in Buffers
  BY <1>0, <1>2, <1>3 DEF Buffers
<1>6. <<>> \in Buffers
  <2>1. <<>> \in Texts /\ Len(<<>>) = 0
    BY OwnCharacters, Zenon
  <2>2. Len(<<>>) <= NtoaSize
    BY <1>0, <2>1
  <2> QED
    BY <2>1, <2>2, Zenon DEF Buffers
<1> QED
  BY <1>4, <1>5, <1>6

(* An integer is put out as a string (printf.c:230-322).                   *)
LEMMA NtoaType ==
  ASSUME NEW value \in Nat, NEW negative, NEW base \in {2, 8, 10, 16}, NEW field \in Int,
         NEW fl, precision \in Int
  PROVE  _ntoa_long(value, negative, base, field, fl) \in Texts
<1> DEFINE d == DigitsOf(value, base, fl)
           g == IF value = 0 THEN fl \ {"#"} ELSE fl
           w == FieldWidth(negative, field, g)
           c == Converted(d, negative, base, w, g)
<1>1. d \in Buffers
  BY DigitsFit
<1>2. w \in Int
  BY DEF FieldWidth
<1> HIDE DEF d, w, g
<1>3. c \in Texts
  BY <1>1, <1>2, ConversionFits DEF Buffers
<1> HIDE DEF c
<1>4. _out_rev(c, w, g) \in Texts
  BY <1>2, <1>3, OutRevType
<1> QED
  BY <1>4, Zenon DEF _ntoa_long, _ntoa_format, c, d, w, g

(* A character or a string is padded to the width (printf.c:910-966).      *)
LEMMA PaddedType ==
  ASSUME NEW chars \in Texts, width \in Int
  PROVE  Padded(chars) \in Texts
<1> DEFINE gap == Copies(" ", width - Len(chars))
<1>1. width - Len(chars) \in Int
  BY LenProperties DEF Texts
<1>2. gap \in Texts
  BY <1>1, OwnCharacters, CopiesType DEF Texts
<1>3. Padded(chars) = chars \o gap \/ Padded(chars) = gap \o chars
  BY Zenon DEF Padded
<1> HIDE DEF gap
<1> QED
  BY <1>2, <1>3, Joined

(***************************************************************************)
(* The inductive invariant: the code and the grammar agree on where in the *)
(* format the program is, and on the argument that is next.                *)
(***************************************************************************)
Working == {"text", "flags", "width", "precision", "length", "specifier", "done"}

Mark   == Reading(run.format)
Before == Mark[format - 1].role

(* The place in the code, the character at hand and the role of the last   *)
(* one fit together.                                                       *)
Parsing ==
  /\ WellFormed(run)
  /\ format \in 1 .. Len(run.format)
  /\ arg = Mark[format - 1].next
  /\ place = "text"      => Before \in Outside
  /\ place = "flags"     => Before \in BeforeWidth
  /\ place = "width"     => Before \in BeforeWidth /\ Here \notin FlagChars
  /\ place = "precision" => /\ Before \in BeforePoint
                            /\ Here \notin Digits \cup FlagChars \cup {"*"}
  /\ place = "length"    => /\ Before \in BeforeLength
                            /\ Here \notin Digits \cup FlagChars \cup {"*", "."}
  /\ place = "specifier" => Before \in BeforeSpec /\ Here \in Specifiers

(* Only the length field asks for a long long.                             *)
LongLong ==
  /\ place \in {"flags", "width", "precision", "length"} => "LONG_LONG" \notin flags
  /\ place = "specifier" => ("LONG_LONG" \in flags <=> Before \in {"ll", "j"})

Cells == idx \in Nat /\ DOMAIN buffer \subseteq 0 .. (run.count - 1)

Ended == place = "done" /\ run.count > 0 => \E k \in DOMAIN buffer : buffer[k] = NUL

FieldTypes == flags \subseteq AllFlags /\ width \in Int /\ precision \in Int

PrintfInv ==
  /\ place \in Working \cup {"idle", "reply"}
  /\ FieldTypes
  /\ place \in Working => Parsing /\ LongLong /\ Cells /\ Ended

(* What the grammar says of the character at hand (printf.c:646-1008).     *)
LEMMA AtHand ==
  ASSUME Parsing
  PROVE  /\ Mark[format].role = RoleAfter(Before, Here)
         /\ Mark[format].role # "wrong"
         /\ Mark[format].role # "end" => format + 1 \in 1 .. Len(run.format)
         /\ Mark[format].next = arg + (IF Takes(Before, Mark[format].role, Here) THEN 1 ELSE 0)
         /\ Takes(Before, Mark[format].role, Here) =>
              arg <= Len(run.args) /\ OfType(run.args[arg], Here)
         /\ format \in Nat /\ arg \in Nat
<1>1. WellFormed(run) /\ format \in 1 .. Len(run.format) /\ arg = Mark[format - 1].next
  BY DEF Parsing
<1>2. Len(run.format) \in Nat
  BY <1>1, FormatStarts
<1>3. format - 1 \in 0 .. Len(run.format)
  BY <1>1, <1>2
<1>4. arg \in Nat
  <2>1. arg \in 1 .. (Len(run.args) + 1)
    BY <1>1, <1>3, NextBound DEF Mark
  <2> QED
    BY <2>1
<1>5. Takes(Before, Mark[format].role, Here) =>
        arg <= Len(run.args) /\ OfType(run.args[arg], Here)
  BY <1>1, Zenon DEF WellFormed, Mark, Before, Here
<1>6. /\ Mark[format].role = RoleAfter(Before, Here)
      /\ Mark[format].role # "wrong"
      /\ Mark[format].next = arg + (IF Takes(Before, Mark[format].role, Here) THEN 1 ELSE 0)
  BY <1>1, ReadingStep, Zenon DEF Mark, Before, Here
<1>7. Mark[format].role # "end" => format + 1 \in 1 .. Len(run.format)
  BY <1>1, Onward, Zenon DEF Mark
<1> QED
  BY <1>1, <1>2, <1>4, <1>5, <1>6, <1>7

(* out() writes into the cells there are (printf.c:128-134).               *)
LEMMA OutputCells ==
  ASSUME NEW chars \in Texts, Cells, _out_buffer(chars), run' = run
  PROVE  Cells'
<1>1. Len(chars) \in Nat
  BY LenProperties DEF Texts
<1> DEFINE new == (0 .. (run.count - 1)) \cap (idx .. (idx + Len(chars) - 1))
<1>2. idx' = idx + Len(chars) /\ DOMAIN buffer' = DOMAIN buffer \cup new
  BY DEF _out_buffer, Put
<1> QED
  BY <1>1, <1>2 DEF Cells

(* The next character of the format is at hand.                            *)
LEMMA Moved ==
  ASSUME Parsing, NEW n \in Nat, format + n \in 1 .. Len(run.format),
         format' = format + n, run' = run
  PROVE  /\ WellFormed(run')
         /\ format' \in 1 .. Len(run'.format)
         /\ Mark' = Mark
         /\ Before' = Mark[format + n - 1].role
         /\ Here' = run.format[format + n]
  BY DEF Parsing, Mark, Before, Here

(***************************************************************************)
(* One step, one action at a time.                                         *)
(***************************************************************************)

(* A character that stands for itself (printf.c:657-662).                  *)
LEMMA TextKeeps ==
  ASSUME PrintfInv, Text
  PROVE  PrintfInv'
<1>1. /\ Parsing /\ Cells /\ FieldTypes /\ place = "text" /\ place' = "text"
      /\ Before \in Outside /\ Here \notin {"%", NUL}
      /\ format' = format + 1 /\ run' = run /\ arg' = arg
      /\ flags' = flags /\ width' = width /\ precision' = precision
      /\ _out_buffer(<<Here>>)
  BY DEF PrintfInv, Working, Parsing, Text, At, Take
<1>2. Mark[format].role = "text"
  BY <1>1, AtHand, Follow
<1>3. ~ Takes(Before, Mark[format].role, Here)
  BY <1>2 DEF Takes
<1>4. /\ format + 1 \in 1 .. Len(run.format) /\ Mark[format].next = arg
      /\ format \in Nat /\ (format + 1) - 1 = format
  BY <1>1, <1>2, <1>3, AtHand
<1>5. /\ WellFormed(run') /\ format' \in 1 .. Len(run'.format) /\ Mark' = Mark
      /\ Before' = "text"
  BY <1>1, <1>2, <1>4, Moved
<1>6. Parsing'
  BY <1>1, <1>4, <1>5 DEF Parsing, Outside
<1>7. Here \in Characters
  <2>1. run.format \in Texts /\ format \in 1 .. Len(run.format)
    BY <1>1 DEF Parsing, WellFormed, Texts
  <2> QED
    BY <2>1, ElementOfSeq DEF Here, Texts
<1>8. <<Here>> \in Texts
  BY <1>7, OwnCharacters
<1>9. Cells'
  BY <1>1, <1>8, OutputCells
<1> QED
  BY <1>1, <1>6, <1>9 DEF PrintfInv, FieldTypes, LongLong, Ended, Working

(* The percent sign (printf.c:663-671).                                    *)
LEMMA PercentKeeps ==
  ASSUME PrintfInv, Percent
  PROVE  PrintfInv'
<1>1. /\ Parsing /\ Cells /\ place = "text" /\ place' = "flags"
      /\ Before \in Outside /\ Here = "%"
      /\ format' = format + 1 /\ run' = run /\ arg' = arg
      /\ flags' = {} /\ width' = 0 /\ precision' = 0
      /\ idx' = idx /\ buffer' = buffer
  BY DEF PrintfInv, Working, Parsing, Percent, At, Take
<1>2. Mark[format].role = "percent"
  BY <1>1, AtHand, Follow DEF NUL
<1>3. ~ Takes(Before, Mark[format].role, Here)
  BY <1>2 DEF Takes
<1>4. /\ format + 1 \in 1 .. Len(run.format) /\ Mark[format].next = arg
      /\ format \in Nat /\ (format + 1) - 1 = format
  BY <1>1, <1>2, <1>3, AtHand
<1>5. /\ WellFormed(run') /\ format' \in 1 .. Len(run'.format) /\ Mark' = Mark
      /\ Before' = "percent"
  BY <1>1, <1>2, <1>4, Moved
<1>6. Parsing'
  BY <1>1, <1>4, <1>5 DEF Parsing, BeforeWidth
<1>7. FieldTypes'
  BY <1>1 DEF FieldTypes
<1> QED
  BY <1>1, <1>6, <1>7 DEF PrintfInv, LongLong, Ended, Working, Cells

(* A flag (printf.c:671-706).                                              *)
LEMMA FlagKeeps ==
  ASSUME PrintfInv, Flag
  PROVE  PrintfInv'
<1>1. /\ Parsing /\ Cells /\ FieldTypes /\ LongLong /\ place = "flags" /\ place' = "flags"
      /\ Before \in BeforeWidth /\ Here \in FlagChars
      /\ format' = format + 1 /\ run' = run /\ arg' = arg
      /\ flags' = flags \cup {Here} /\ width' = width /\ precision' = precision
      /\ idx' = idx /\ buffer' = buffer
  BY DEF PrintfInv, Working, Parsing, Flag, At, Take
<1>2. Mark[format].role = "flag"
  BY <1>1, AtHand, Follow, CharsApart, DigitChars DEF FlagChars
<1>3. ~ Takes(Before, Mark[format].role, Here)
  BY <1>2 DEF Takes
<1>4. /\ format + 1 \in 1 .. Len(run.format) /\ Mark[format].next = arg
      /\ format \in Nat /\ (format + 1) - 1 = format
  BY <1>1, <1>2, <1>3, AtHand
<1>5. /\ WellFormed(run') /\ format' \in 1 .. Len(run'.format) /\ Mark' = Mark
      /\ Before' = "flag"
  BY <1>1, <1>2, <1>4, Moved
<1>6. Parsing'
  BY <1>1, <1>4, <1>5 DEF Parsing, BeforeWidth
<1>7. FieldTypes'
  BY <1>1 DEF FieldTypes, AllFlags
<1>8. LongLong'
  BY <1>1 DEF LongLong, FlagChars
<1> QED
  BY <1>1, <1>6, <1>7, <1>8 DEF PrintfInv, Ended, Working, Cells

(* The flags end at the first character that is none (printf.c:704-706).   *)
LEMMA NoMoreFlagsKeeps ==
  ASSUME PrintfInv, NoMoreFlags
  PROVE  PrintfInv'
<1>1. /\ Parsing /\ Cells /\ FieldTypes /\ LongLong /\ place = "flags" /\ place' = "width"
      /\ Before \in BeforeWidth /\ Here \notin FlagChars
      /\ format' = format /\ run' = run /\ arg' = arg
      /\ flags' = flags /\ width' = width /\ precision' = precision
      /\ idx' = idx /\ buffer' = buffer
  BY DEF PrintfInv, Working, Parsing, NoMoreFlags, At
<1>2. Mark' = Mark /\ Before' = Before /\ Here' = Here
  BY <1>1 DEF Mark, Before, Here
<1>3. Parsing'
  BY <1>1, <1>2 DEF Parsing
<1> QED
  BY <1>1, <1>2, <1>3 DEF PrintfInv, FieldTypes, LongLong, Ended, Working, Cells

(* What follows a width is no digit, no flag and no "*"                    *)
(* (printf.c:709-730).                                                     *)
LEMMA BehindWidth ==
  ASSUME NEW call, WellFormed(call), NEW n \in 1 .. Len(call.format),
         Reading(call.format)[n - 1].role \in {"width", "widthArg"},
         Reading(call.format)[n - 1].role = "width" => call.format[n] \notin Digits
  PROVE  call.format[n] \notin Digits \cup FlagChars \cup {"*"}
<1> DEFINE r == Reading(call.format)[n - 1].role
           c == call.format[n]
<1>1. RoleAfter(r, c) # "wrong"
  BY ReadingStep
<1> HIDE DEF r, c
<1>2. c \in Specifiers \cup Letters \cup {"."}
  BY <1>1, Follow DEF r, c
<1> QED
  BY <1>2, CharsApart DEF c

(* The width: digits, an argument, or none (printf.c:709-727).             *)
LEMMA WidthKeeps ==
  ASSUME PrintfInv, Width
  PROVE  PrintfInv'
<1>1. /\ Parsing /\ Cells /\ FieldTypes /\ LongLong /\ place = "width" /\ place' = "precision"
      /\ WellFormed(run) /\ format \in 1 .. Len(run.format)
      /\ Before \in BeforeWidth /\ Here \notin FlagChars
      /\ arg = Mark[format - 1].next
      /\ run' = run /\ precision' = precision /\ idx' = idx /\ buffer' = buffer
  BY DEF PrintfInv, Working, Parsing, Width, At
<1>2. Len(run.format) \in Nat /\ format \in Nat /\ arg \in Nat
  BY <1>1, AtHand, FormatStarts
<1>3. CASE /\ _is_digit(Here)
           /\ width' = _atoi(format) /\ Take(Len(DigitRun(format)))
           /\ arg' = arg /\ flags' = flags
  <2> DEFINE e == EndOfDigits(format)
  <2>1. /\ e \in format .. Len(run.format) /\ run.format[e] \notin Digits
        /\ \A k \in format .. (e - 1) : run.format[k] \in Digits
    BY <1>1, RunEnds
  <2>2. Here \in Digits /\ e # format
    BY <1>3, <2>1 DEF _is_digit, Here
  <2>3. format' = e /\ width' \in Int
    <3>1. Len(DigitRun(format)) = e - format /\ _atoi(format) \in Nat
      BY <1>1, RunNumber
    <3> HIDE DEF e
    <3> QED
      BY <1>2, <1>3, <2>1, <3>1 DEF Take
  <2> HIDE DEF e
  <2>4. /\ Mark[e - 1].role = "width"
        /\ Mark[e - 1].next = arg
    <3>1. /\ Reading(run.format)[format - 1].role \in BeforeWidth
          /\ run.format[format] \notin FlagChars
          /\ arg = Reading(run.format)[format - 1].next
      BY <1>1, Zenon DEF Mark, Before, Here
    <3>2. e > format
      BY <1>1, <1>2, <2>1, <2>2
    <3>3. /\ e > format => Reading(run.format)[e - 1].role = "width"
          /\ Reading(run.format)[e - 1].next = Reading(run.format)[format - 1].next
      BY <1>1, <2>1, <3>1, WidthRun, Zenon
    <3> QED
      BY <3>1, <3>2, <3>3, Zenon DEF Mark
  <2>5. e \in 1 .. Len(run.format)
    BY <1>1, <1>2, <2>1
  <2>6. run.format[e] \notin Digits \cup FlagChars \cup {"*"}
    BY <1>1, <2>1, <2>4, <2>5, BehindWidth DEF Mark
  <2>7. Mark' = Mark /\ Before' = "width" /\ Here' = run.format[e]
    BY <1>1, <2>3, <2>4 DEF Mark, Before, Here
  <2>8. Parsing'
    BY <1>1, <1>3, <2>3, <2>4, <2>5, <2>6, <2>7 DEF Parsing, BeforePoint
  <2>9. FieldTypes'
    BY <1>1, <1>3, <2>3 DEF FieldTypes
  <2> QED
    BY <1>1, <1>3, <2>8, <2>9 DEF PrintfInv, LongLong, Ended, Working, Cells
<1>4. CASE /\ Here = "*"
           /\ LET w == run.args[arg]
              IN /\ width' = IF w < 0 THEN - w ELSE w
                 /\ flags' = IF w < 0 THEN flags \cup {"-"} ELSE flags
           /\ Take(1) /\ arg' = arg + 1
  <2>1. Mark[format].role = "widthArg"
    BY <1>1, <1>4, AtHand, Follow, CharsApart, DigitChars
  <2>2. Takes(Before, Mark[format].role, Here)
    BY <2>1 DEF Takes
  <2>3. /\ format + 1 \in 1 .. Len(run.format) /\ Mark[format].next = arg + 1
        /\ OfType(run.args[arg], "*") /\ (format + 1) - 1 = format
    BY <1>1, <1>2, <1>4, <2>1, <2>2, AtHand
  <2>4. run.args[arg] \in Int
    BY <2>3 DEF OfType, IntegerSpecs, SignedSpecs, UnsignedSpecs
  <2>5. format' = format + 1
    BY <1>4 DEF Take
  <2>6. /\ WellFormed(run') /\ format' \in 1 .. Len(run'.format) /\ Mark' = Mark
        /\ Before' = "widthArg" /\ Here' = run.format[format + 1]
    BY <1>1, <2>1, <2>3, <2>5, Moved
  <2>7. run.format[format + 1] \notin Digits \cup FlagChars \cup {"*"}
    BY <1>1, <2>1, <2>3, BehindWidth DEF Mark
  <2>8. Parsing'
    BY <1>1, <1>4, <2>3, <2>5, <2>6, <2>7 DEF Parsing, BeforePoint
  <2>9. FieldTypes'
    <3>1. width' \in Int
      BY <1>4, <2>4
    <3>2. flags' \in {flags, flags \cup {"-"}}
      BY <1>4, Zenon
    <3>3. flags' \subseteq AllFlags
      BY <1>1, <3>2 DEF FieldTypes, AllFlags, FlagChars
    <3> QED
      BY <1>1, <3>1, <3>3 DEF FieldTypes
  <2>10. LongLong'
    BY <1>1, <1>4 DEF LongLong
  <2> QED
    BY <1>1, <2>8, <2>9, <2>10 DEF PrintfInv, Ended, Working, Cells
<1>5. CASE /\ ~ _is_digit(Here) /\ Here # "*"
           /\ format' = format /\ arg' = arg /\ flags' = flags /\ width' = width
  <2>1. Mark' = Mark /\ Before' = Before /\ Here' = Here
    BY <1>1, <1>5 DEF Mark, Before, Here
  <2>2. Here \notin Digits \cup FlagChars \cup {"*"}
    BY <1>1, <1>5, Zenon DEF _is_digit
  <2>3. Parsing'
    BY <1>1, <1>5, <2>1, <2>2 DEF Parsing, BeforePoint
  <2>4. FieldTypes' /\ LongLong'
    BY <1>1, <1>5 DEF FieldTypes, LongLong
  <2> QED
    BY <1>1, <2>3, <2>4 DEF PrintfInv, Ended, Working, Cells
<1> QED
  BY <1>3, <1>4, <1>5, Zenon DEF Width

(* No point, no precision (printf.c:730-731).                              *)
LEMMA NoPrecisionKeeps ==
  ASSUME PrintfInv, NoPrecision
  PROVE  PrintfInv'
<1>1. /\ Parsing /\ Cells /\ FieldTypes /\ LongLong
      /\ place = "precision" /\ place' = "length"
      /\ Before \in BeforePoint /\ Here \notin Digits \cup FlagChars \cup {"*"} /\ Here # "."
      /\ format' = format /\ run' = run /\ arg' = arg
      /\ flags' = flags /\ width' = width /\ precision' = precision
      /\ idx' = idx /\ buffer' = buffer
  BY DEF PrintfInv, Working, Parsing, NoPrecision, At
<1>2. Mark' = Mark /\ Before' = Before /\ Here' = Here
  BY <1>1 DEF Mark, Before, Here
<1>3. Parsing'
  BY <1>1, <1>2 DEF Parsing, BeforeLength
<1> QED
  BY <1>1, <1>2, <1>3 DEF PrintfInv, FieldTypes, LongLong, Ended, Working, Cells

(* What follows a precision is the length field or the specifier           *)
(* (printf.c:730-745).                                                     *)
LEMMA BehindPrecision ==
  ASSUME NEW call, WellFormed(call), NEW n \in 1 .. Len(call.format),
         Reading(call.format)[n - 1].role \in {"point", "precision", "precisionArg"},
         Reading(call.format)[n - 1].role # "precisionArg" => call.format[n] \notin Digits,
         Reading(call.format)[n - 1].role = "point" => call.format[n] # "*"
  PROVE  call.format[n] \notin Digits \cup FlagChars \cup {"*", "."}
<1> DEFINE r == Reading(call.format)[n - 1].role
           c == call.format[n]
<1>1. RoleAfter(r, c) # "wrong"
  BY ReadingStep
<1> HIDE DEF r, c
<1>2. c \in Specifiers \cup Letters
  BY <1>1, Follow DEF r, c
<1>3. c # "."
  BY <1>2 DEF Specifiers, Letters, IntegerSpecs, SignedSpecs, UnsignedSpecs
<1> QED
  BY <1>2, <1>3, CharsApart DEF c

(* A precision: digits, none of them, or an argument (printf.c:730-745).   *)
LEMMA PrecisionKeeps ==
  ASSUME PrintfInv, Precision
  PROVE  PrintfInv'
<1>1. /\ Parsing /\ Cells /\ FieldTypes /\ LongLong
      /\ place = "precision" /\ place' = "length"
      /\ WellFormed(run) /\ format \in 1 .. Len(run.format)
      /\ Before \in BeforePoint /\ Here = "."
      /\ flags' = flags \cup {"PRECISION"}
      /\ run' = run /\ width' = width /\ idx' = idx /\ buffer' = buffer
  BY DEF PrintfInv, Working, Parsing, Precision, At
<1>2. Mark[format].role = "point"
  <2>1. RoleAfter(Before, ".") # "wrong" /\ Mark[format].role = RoleAfter(Before, ".")
    BY <1>1, AtHand
  <2>2. "." \notin Letters \cup Specifiers \cup Digits \cup FlagChars /\ "." # "*"
    BY DigitChars
       DEF Specifiers, Letters, IntegerSpecs, SignedSpecs, UnsignedSpecs, FlagChars
  <2> QED
    BY <1>1, <2>1, <2>2, Follow DEF BeforePoint
<1>3. ~ Takes(Before, Mark[format].role, Here)
  BY <1>2 DEF Takes
<1>4. /\ format + 1 \in 1 .. Len(run.format) /\ Mark[format].next = arg
      /\ format \in Nat /\ arg \in Nat /\ (format + 1) - 1 = format
      /\ Len(run.format) \in Nat
  BY <1>1, <1>2, <1>3, AtHand, FormatStarts
<1>5. LongLong' /\ flags' \subseteq AllFlags
  BY <1>1 DEF LongLong, FieldTypes, AllFlags
<1>6. CASE /\ run.format[format + 1] = "*"
           /\ precision' = IF run.args[arg] > 0 THEN run.args[arg] ELSE 0
           /\ arg' = arg + 1 /\ Take(2)
  <2>1. /\ Mark[format + 1].role = RoleAfter("point", "*")
        /\ Mark[format + 1].role # "wrong"
        /\ Mark[format + 1].next =
             arg + (IF Takes("point", Mark[format + 1].role, "*") THEN 1 ELSE 0)
    BY <1>1, <1>2, <1>4, <1>6, ReadingStep DEF Mark
  <2>2. Mark[format + 1].role = "precisionArg"
    BY <2>1, Follow, CharsApart, DigitChars
  <2>3. Takes("point", Mark[format + 1].role, "*")
    BY <2>2 DEF Takes
  <2>4. OfType(run.args[arg], "*")
    <3>1. LET c == run.format[format + 1]  m == format + 1
          IN Takes(Mark[m - 1].role, Mark[m].role, c) => OfType(run.args[Mark[m - 1].next], c)
      BY <1>1, <1>4, Zenon DEF WellFormed, Mark
    <3> QED
      BY <1>2, <1>4, <1>6, <2>3, <3>1, Zenon
  <2>5. run.args[arg] \in Int
    BY <2>4 DEF OfType, IntegerSpecs, SignedSpecs, UnsignedSpecs
  <2>6. format + 2 \in 1 .. Len(run.format)
    <3>1. (format + 1) + 1 \in 1 .. Len(run.format)
      BY <1>1, <1>4, <2>2, Onward DEF Mark
    <3> QED
      BY <1>4, <3>1
  <2>7. format' = format + 2 /\ format + 2 - 1 = format + 1
    BY <1>4, <1>6 DEF Take
  <2>8. /\ WellFormed(run') /\ format' \in 1 .. Len(run'.format) /\ Mark' = Mark
        /\ Before' = "precisionArg" /\ Here' = run.format[format + 2]
    BY <1>1, <2>2, <2>6, <2>7, Moved
  <2>9. run.format[format + 2] \notin Digits \cup FlagChars \cup {"*", "."}
    BY <1>1, <2>2, <2>6, <2>7, BehindPrecision DEF Mark
  <2>10. Parsing'
    BY <1>1, <1>4, <1>6, <2>1, <2>3, <2>7, <2>8, <2>9 DEF Parsing, BeforeLength
  <2>11. precision' \in Int
    BY <1>6, <2>5
  <2> QED
    BY <1>1, <1>5, <2>10, <2>11 DEF PrintfInv, FieldTypes, Ended, Working, Cells
<1>7. CASE /\ run.format[format + 1] # "*"
           /\ precision' = _atoi(format + 1) /\ Take(1 + Len(DigitRun(format + 1)))
           /\ arg' = arg
  <2> DEFINE n == format + 1
             e == EndOfDigits(n)
  <2>1. /\ n \in 1 .. Len(run.format)
        /\ e \in n .. Len(run.format) /\ run.format[e] \notin Digits
        /\ \A k \in n .. (e - 1) : run.format[k] \in Digits
    BY <1>1, <1>4, RunEnds
  <2>2. format' = e /\ precision' \in Int
    <3>1. Len(DigitRun(n)) = e - n /\ _atoi(n) \in Nat
      BY <1>1, <2>1, RunNumber
    <3>2. format' = format + (1 + Len(DigitRun(n))) /\ precision' = _atoi(n)
      BY <1>7 DEF Take
    <3>3. n = format + 1
      OBVIOUS
    <3> HIDE DEF e, n
    <3>4. format' = format + (1 + (e - n))
      BY <3>1, <3>2
    <3>5. e \in Int /\ n \in Int
      BY <1>4, <2>1
    <3> QED
      BY <1>4, <3>1, <3>2, <3>3, <3>4, <3>5
  <2> HIDE DEF e
  <2>3. Reading(run.format)[n - 1].role = "point" /\ Reading(run.format)[n - 1].next = arg
    BY <1>2, <1>4 DEF Mark
  <2>4. /\ e > n => Reading(run.format)[e - 1].role = "precision"
        /\ Reading(run.format)[e - 1].next = arg
    <3> HIDE DEF n
    <3> QED
      BY <1>1, <2>1, <2>3, PrecisionRun, Zenon
  <2>5. e \in 1 .. Len(run.format) /\ (e > n \/ e = n)
    BY <1>4, <2>1
  <2>6. /\ Reading(run.format)[e - 1].role \in {"point", "precision"}
        /\ Reading(run.format)[e - 1].role = "point" => run.format[e] # "*"
    BY <1>7, <2>3, <2>4, <2>5
  <2>7. run.format[e] \notin Digits \cup FlagChars \cup {"*", "."}
    BY <1>1, <2>1, <2>5, <2>6, BehindPrecision
  <2>8. /\ Mark' = Mark /\ Before' = Reading(run.format)[e - 1].role
        /\ Here' = run.format[e]
    BY <1>1, <2>2 DEF Mark, Before, Here
  <2>9. Parsing'
    BY <1>1, <1>7, <2>2, <2>4, <2>5, <2>6, <2>7, <2>8 DEF Parsing, BeforeLength, Mark
  <2> QED
    BY <1>1, <1>5, <2>2, <2>9 DEF PrintfInv, FieldTypes, Ended, Working, Cells
<1> QED
  BY <1>6, <1>7, Zenon DEF Precision

(* The flags of a length field, and how many characters it has: as many as *)
(* it sets flags (printf.c:748-783).                                       *)
LEMMA LengthChars ==
  LET n == Cardinality(LengthFlags)
      twice == run.format[format + 1] = Here
  IN /\ Here = "l" /\ twice   => LengthFlags = {"LONG", "LONG_LONG"} /\ n = 2
     /\ Here = "l" /\ ~ twice => LengthFlags = {"LONG"} /\ n = 1
     /\ Here = "h" /\ twice   => LengthFlags = {"SHORT", "CHAR"} /\ n = 2
     /\ Here = "h" /\ ~ twice => LengthFlags = {"SHORT"} /\ n = 1
     /\ Here = "j"            => LengthFlags = {"LONG_LONG"} /\ n = 1
     /\ Here = "z"            => LengthFlags = {"LONG"} /\ n = 1
     /\ Here \notin Letters   => LengthFlags = {} /\ n = 0
<1> DEFINE h == Here
           twice == run.format[format + 1] = h
<1>1. \A x : Cardinality({x}) = 1
  BY FS_Singleton
<1>2. Cardinality({}) = 0
  BY FS_EmptySet
<1>3. \A x, y : x # y => Cardinality({x, y}) = 2
  <2> TAKE x, y
  <2> HAVE x # y
  <2>1. IsFiniteSet({x}) /\ Cardinality({x}) = 1
    BY FS_Singleton
  <2>2. Cardinality({x} \cup {y}) = 2
    BY <2>1, FS_AddElement
  <2>3. {x} \cup {y} = {x, y}
    OBVIOUS
  <2> QED
    BY <2>2, <2>3
<1>4. LengthFlags = CASE h = "l" -> IF twice THEN {"LONG", "LONG_LONG"} ELSE {"LONG"}
                      [] h = "h" -> IF twice THEN {"SHORT", "CHAR"} ELSE {"SHORT"}
                      [] h = "j" -> {"LONG_LONG"}
                      [] h = "z" -> {"LONG"}
                      [] OTHER   -> {}
  BY DEF LengthFlags, h
<1> DEFINE L == LengthFlags
<1> HIDE DEF h, L
<1>5. /\ h = "l" /\ twice   => L = {"LONG", "LONG_LONG"}
      /\ h = "l" /\ ~ twice => L = {"LONG"}
      /\ h = "h" /\ twice   => L = {"SHORT", "CHAR"}
      /\ h = "h" /\ ~ twice => L = {"SHORT"}
      /\ h = "j"            => L = {"LONG_LONG"}
      /\ h = "z"            => L = {"LONG"}
      /\ h \notin Letters   => L = {}
  BY <1>4 DEF L, Letters
<1>6. Cardinality({"LONG", "LONG_LONG"}) = 2 /\ Cardinality({"SHORT", "CHAR"}) = 2
  BY <1>3
<1>7. /\ Cardinality({"LONG"}) = 1 /\ Cardinality({"SHORT"}) = 1
      /\ Cardinality({"LONG_LONG"}) = 1
  BY <1>1
<1> QED
  BY <1>2, <1>5, <1>6, <1>7, Zenon DEF h, L

(* The length field is read to its end, and a specifier follows            *)
(* (printf.c:748-783).                                                     *)
LEMMA LengthEnds ==
  ASSUME Parsing, place = "length"
  PROVE  LET n == Cardinality(LengthFlags)
         IN /\ n \in Nat /\ format + n \in 1 .. Len(run.format)
            /\ Mark[format + n - 1].role \in BeforeSpec
            /\ Mark[format + n - 1].next = arg
            /\ run.format[format + n] \in Specifiers
            /\ LengthFlags \subseteq AllFlags
            /\ "LONG_LONG" \in LengthFlags <=> Mark[format + n - 1].role \in {"ll", "j"}
<1>1. /\ WellFormed(run) /\ format \in 1 .. Len(run.format)
      /\ Before \in BeforeLength /\ Here \notin Digits \cup FlagChars \cup {"*", "."}
      /\ arg = Mark[format - 1].next
  BY DEF Parsing
<1>2. /\ RoleAfter(Before, Here) # "wrong" /\ Mark[format].role = RoleAfter(Before, Here)
      /\ format \in Nat /\ arg \in Nat /\ Len(run.format) \in Nat
  BY <1>1, AtHand, FormatStarts
<1>3. \/ Here \in Letters /\ Mark[format].role = Here
      \/ Here \in Specifiers
  BY <1>1, <1>2, Follow DEF BeforeLength, BeforePoint
<1>4. CASE Here \in Specifiers
  <2>1. LengthFlags = {} /\ Cardinality(LengthFlags) = 0
    <3>1. Here \notin Letters
      BY <1>4 DEF Letters, Specifiers, IntegerSpecs, SignedSpecs, UnsignedSpecs
    <3> QED
      BY <3>1, LengthChars
  <2> DEFINE n == Cardinality(LengthFlags)
  <2>2. n \in Nat /\ format + n = format /\ format + n - 1 = format - 1
    BY <1>2, <2>1
  <2>3. Before \in BeforeSpec /\ Before \notin {"ll", "j"}
    BY <1>1 DEF BeforeSpec, BeforeLength, BeforePoint, BeforeWidth
  <2>4. LengthFlags \subseteq AllFlags /\ "LONG_LONG" \notin LengthFlags
    BY <2>1
  <2> HIDE DEF n
  <2>5. /\ format + n \in 1 .. Len(run.format)
        /\ Mark[format + n - 1].role \in BeforeSpec
        /\ Mark[format + n - 1].role \notin {"ll", "j"}
        /\ Mark[format + n - 1].next = arg
        /\ run.format[format + n] \in Specifiers
    BY <1>1, <1>4, <2>2, <2>3 DEF Before, Here
  <2> QED
    BY <2>2, <2>4, <2>5 DEF n
<1>5. CASE Here \in Letters /\ Mark[format].role = Here
  <2>1. ~ Takes(Before, Mark[format].role, Here)
    BY <1>5 DEF Takes, Letters
  <2>2. format + 1 \in 1 .. Len(run.format) /\ Mark[format].next = arg
    BY <1>2, <1>5, <2>1, AtHand DEF Letters
  <2> DEFINE d == run.format[format + 1]
  <2>3. /\ Mark[format + 1].role = RoleAfter(Here, d)
        /\ Mark[format + 1].role # "wrong"
        /\ Mark[format + 1].next = arg + (IF Takes(Here, Mark[format + 1].role, d) THEN 1 ELSE 0)
    <3>1. format + 1 - 1 = format
      BY <1>2
    <3> QED
      BY <1>1, <1>5, <2>2, <3>1, ReadingStep DEF Mark
  <2>4. format + 1 - 1 = format /\ format + 2 - 1 = format + 1 /\ format + 1 + 1 = format + 2
    BY <1>2
  <2>5. CASE d = Here
    <3>1. \/ Here = "h" /\ Mark[format + 1].role = "hh"
          \/ Here = "l" /\ Mark[format + 1].role = "ll"
      <4>1. d \notin Specifiers
        BY <1>5, <2>5 DEF Letters, Specifiers, IntegerSpecs, SignedSpecs, UnsignedSpecs
      <4> HIDE DEF d
      <4> QED
        BY <1>5, <2>3, <2>5, <4>1, Follow
    <3>2. ~ Takes(Here, Mark[format + 1].role, d)
      BY <3>1 DEF Takes
    <3>3. Mark[format + 1].next = arg
      BY <1>2, <2>3, <3>2
    <3>4. format + 2 \in 1 .. Len(run.format)
      BY <1>1, <2>2, <2>4, <3>1, Onward DEF Mark
    <3>5. RoleAfter(Mark[format + 1].role, run.format[format + 2]) # "wrong"
      BY <1>1, <2>4, <3>4, ReadingStep DEF Mark
    <3>6. run.format[format + 2] \in Specifiers
      BY <3>1, <3>5, Follow
    <3>7. /\ Cardinality(LengthFlags) = 2 /\ LengthFlags \subseteq AllFlags
          /\ "LONG_LONG" \in LengthFlags <=> Here = "l"
      BY <2>5, <3>1, LengthChars DEF AllFlags
    <3> QED
      BY <2>4, <3>1, <3>3, <3>4, <3>6, <3>7 DEF BeforeSpec
  <2>6. CASE d # Here
    <3>1. d \in Specifiers
      <4> HIDE DEF d
      <4> QED
        BY <1>5, <2>3, <2>6, Follow
    <3>2. /\ Cardinality(LengthFlags) = 1 /\ LengthFlags \subseteq AllFlags
          /\ "LONG_LONG" \in LengthFlags <=> Here = "j"
      BY <1>5, <2>6, LengthChars DEF AllFlags, Letters
    <3> QED
      BY <1>5, <2>2, <2>4, <3>1, <3>2 DEF BeforeSpec, Letters
  <2> QED
    BY <2>5, <2>6
<1> QED
  BY <1>3, <1>4, <1>5

(* The length field (printf.c:748-783).                                    *)
LEMMA LengthKeeps ==
  ASSUME PrintfInv, Length
  PROVE  PrintfInv'
<1> DEFINE n == Cardinality(LengthFlags)
<1>1. /\ Parsing /\ Cells /\ FieldTypes /\ LongLong
      /\ place = "length" /\ place' = "specifier"
      /\ flags' = flags \cup LengthFlags /\ format' = format + n
      /\ run' = run /\ arg' = arg /\ width' = width /\ precision' = precision
      /\ idx' = idx /\ buffer' = buffer
  BY DEF PrintfInv, Working, Length, At, Take
<1>2. /\ n \in Nat /\ format + n \in 1 .. Len(run.format)
      /\ Mark[format + n - 1].role \in BeforeSpec
      /\ Mark[format + n - 1].next = arg
      /\ run.format[format + n] \in Specifiers
      /\ LengthFlags \subseteq AllFlags
      /\ "LONG_LONG" \in LengthFlags <=> Mark[format + n - 1].role \in {"ll", "j"}
  BY <1>1, LengthEnds
<1> HIDE DEF n
<1>3. /\ WellFormed(run') /\ format' \in 1 .. Len(run'.format) /\ Mark' = Mark
      /\ Before' = Mark[format + n - 1].role
      /\ Here' = run.format[format + n]
  BY <1>1, <1>2, Moved
<1>4. Parsing'
  BY <1>1, <1>2, <1>3 DEF Parsing
<1>5. LongLong'
  BY <1>1, <1>2, <1>3 DEF LongLong
<1>6. FieldTypes'
  BY <1>1, <1>2 DEF FieldTypes
<1> QED
  BY <1>1, <1>4, <1>5, <1>6 DEF PrintfInv, Ended, Working, Cells

(* The specifier takes the argument that is next, and all but "%" and the  *)
(* unsupported integers take one (printf.c:786-1000).                      *)
LEMMA AtSpecifier ==
  ASSUME PrintfInv, place = "specifier"
  PROVE  LET takes == Here # "%" /\ ~ ("LONG_LONG" \in flags /\ Here \in IntegerSpecs)
         IN /\ Parsing /\ Cells /\ FieldTypes /\ Here \in Specifiers
            /\ Mark[format].role = "specifier"
            /\ format + 1 \in 1 .. Len(run.format)
            /\ format \in Nat /\ arg \in Nat /\ (format + 1) - 1 = format
            /\ Mark[format].next = arg + (IF takes THEN 1 ELSE 0)
            /\ takes => OfType(run.args[arg], Here)
<1>1. /\ Parsing /\ Cells /\ FieldTypes /\ Before \in BeforeSpec /\ Here \in Specifiers
      /\ "LONG_LONG" \in flags <=> Before \in {"ll", "j"}
  BY DEF PrintfInv, Working, Parsing, LongLong
<1>2. RoleAfter(Before, Here) # "wrong" /\ Mark[format].role = RoleAfter(Before, Here)
  BY <1>1, AtHand
<1>3. Here \notin Letters \cup Digits \cup FlagChars \cup {"*", "."}
  BY <1>1, CharsApart
     DEF Letters, Specifiers, IntegerSpecs, SignedSpecs, UnsignedSpecs
<1>4. Mark[format].role = "specifier"
  BY <1>1, <1>2, <1>3, Follow DEF BeforeSpec, BeforeLength, BeforePoint, Letters
<1> DEFINE takes == Here # "%" /\ ~ ("LONG_LONG" \in flags /\ Here \in IntegerSpecs)
<1>5. takes <=> Takes(Before, Mark[format].role, Here)
  BY <1>1, <1>4 DEF Takes
<1>6. /\ format + 1 \in 1 .. Len(run.format)
      /\ format \in Nat /\ arg \in Nat /\ (format + 1) - 1 = format
  BY <1>1, <1>4, AtHand
<1>7. /\ Mark[format].next = arg + (IF Takes(Before, Mark[format].role, Here) THEN 1 ELSE 0)
      /\ Takes(Before, Mark[format].role, Here) => OfType(run.args[arg], Here)
  BY <1>1, AtHand
<1> HIDE DEF takes
<1>8. /\ Mark[format].next = arg + (IF takes THEN 1 ELSE 0)
      /\ takes => OfType(run.args[arg], Here)
  BY <1>5, <1>7
<1> QED
  BY <1>1, <1>4, <1>6, <1>8 DEF takes

(* A directive puts out a string, and the text goes on behind it           *)
(* (printf.c:786-1000).                                                    *)
LEMMA DirectiveKeeps ==
  ASSUME PrintfInv, place = "specifier", NEW chars \in Texts, NEW used \in {0, 1},
         Directive(chars, used), Mark[format].next = arg + used
  PROVE  PrintfInv'
<1>1. /\ place' = "text" /\ _out_buffer(chars) /\ format' = format + 1 /\ arg' = arg + used
      /\ run' = run /\ flags' = flags /\ width' = width /\ precision' = precision
  BY DEF Directive, Take
<1>2. /\ Parsing /\ Cells /\ FieldTypes /\ Mark[format].role = "specifier"
      /\ format + 1 \in 1 .. Len(run.format)
      /\ (format + 1) - 1 = format
  BY AtSpecifier
<1>3. /\ WellFormed(run') /\ format' \in 1 .. Len(run'.format) /\ Mark' = Mark
      /\ Before' = "specifier"
  BY <1>1, <1>2, Moved
<1>4. Parsing'
  BY <1>1, <1>2, <1>3 DEF Parsing, Outside
<1>5. Cells'
  BY <1>1, <1>2, OutputCells
<1> QED
  BY <1>1, <1>2, <1>4, <1>5 DEF PrintfInv, FieldTypes, LongLong, Ended, Working

(* An integer (printf.c:788-887).                                          *)
LEMMA IntegerKeeps ==
  ASSUME PrintfInv, place = "specifier", IntegerDirective
  PROVE  PrintfInv'
<1>1. Here \in IntegerSpecs /\ Here # "%"
  BY DEF IntegerDirective, IntegerSpecs, SignedSpecs, UnsignedSpecs
<1>2. CASE "LONG_LONG" \in flags /\ Directive(<<>>, 0)
  <2>1. Mark[format].next = arg + 0
    BY <1>1, <1>2, AtSpecifier
  <2> QED
    BY <1>2, <2>1, OwnCharacters, DirectiveKeeps
<1>3. CASE /\ "LONG_LONG" \notin flags
           /\ Directive(_ntoa_long(IF Value < 0 THEN - Value ELSE Value, Value < 0,
                                   Base, width, IntegerFlags), 1)
  <2>1. /\ Mark[format].next = arg + 1 /\ OfType(run.args[arg], Here)
        /\ width \in Int /\ precision \in Int
    BY <1>1, <1>3, AtSpecifier DEF FieldTypes
  <2>2. run.args[arg] \in Int
    BY <1>1, <2>1 DEF OfType, IntegerSpecs, SignedSpecs, UnsignedSpecs
  <2>3. Value \in Int
    <3> DEFINE v == run.args[arg]
               half == ShortRange \div 2
               asChar == flags \cap {"LONG", "CHAR"} = {"CHAR"}
               asShort == flags \cap {"LONG", "CHAR", "SHORT"} = {"SHORT"}
    <3>1. /\ half \in Int /\ v % CharRange \in Int /\ v % ShortRange \in Int
          /\ v % IntRange \in Int /\ ((v + half) % ShortRange) - half \in Int
      BY <2>2, WidthAssumption
    <3>2. ~ (asChar /\ asShort)
      OBVIOUS
    <3> HIDE DEF v, half, asChar, asShort
    <3>3. Value = CASE asChar -> v % CharRange
                    [] asShort -> IF Signed THEN ((v + half) % ShortRange) - half
                                            ELSE v % ShortRange
                    [] OTHER -> IF Signed THEN v ELSE v % IntRange
      BY Zenon DEF Value, v, half, asChar, asShort
    <3>4. \/ Value = v % CharRange
          \/ Value = ((v + half) % ShortRange) - half
          \/ Value = v % ShortRange
          \/ Value = v
          \/ Value = v % IntRange
      <4> DEFINE signed == Signed
      <4> HIDE DEF signed
      <4>1. Value = CASE asChar -> v % CharRange
                      [] asShort -> IF signed THEN ((v + half) % ShortRange) - half
                                              ELSE v % ShortRange
                      [] OTHER -> IF signed THEN v ELSE v % IntRange
        BY <3>3, Zenon DEF signed
      <4> QED
        BY <3>2, <4>1, Zenon
    <3>5. v \in Int
      BY <2>2 DEF v
    <3> QED
      BY <3>1, <3>4, <3>5, Zenon
  <2>4. (IF Value < 0 THEN - Value ELSE Value) \in Nat
    BY <2>3
  <2>5. Base \in {2, 8, 10, 16}
    BY DEF Base
  <2>6. _ntoa_long(IF Value < 0 THEN - Value ELSE Value, Value < 0, Base, width, IntegerFlags)
          \in Texts
    BY <2>1, <2>4, <2>5, NtoaType
  <2> QED
    BY <1>3, <2>1, <2>6, DirectiveKeeps
<1> QED
  BY <1>2, <1>3, Zenon DEF IntegerDirective

(* A character (printf.c:910-933).                                         *)
LEMMA CharKeeps ==
  ASSUME PrintfInv, place = "specifier", CharDirective
  PROVE  PrintfInv'
<1>1. Here = "c" /\ Directive(Padded(<<run.args[arg]>>), 1)
  BY DEF CharDirective
<1>2. Mark[format].next = arg + 1 /\ OfType(run.args[arg], "c") /\ width \in Int
  BY <1>1, AtSpecifier DEF FieldTypes, IntegerSpecs, SignedSpecs, UnsignedSpecs
<1>3. run.args[arg] \in Characters
  BY <1>2 DEF OfType, IntegerSpecs, SignedSpecs, UnsignedSpecs
<1>4. Padded(<<run.args[arg]>>) \in Texts
  BY <1>2, <1>3, OwnCharacters, PaddedType
<1> QED
  BY <1>1, <1>2, <1>4, DirectiveKeeps

(* A string, cut at the precision (printf.c:935-966).                      *)
LEMMA StringKeeps ==
  ASSUME PrintfInv, place = "specifier", StringDirective
  PROVE  PrintfInv'
<1> DEFINE s == run.args[arg]
           n == IF "PRECISION" \in flags THEN Smaller(precision, Len(s)) ELSE Len(s)
<1>1. Here = "s" /\ Directive(Padded(SubSeq(s, 1, n)), 1)
  BY Zenon DEF StringDirective
<1>2. /\ Mark[format].next = arg + 1 /\ OfType(s, "s")
      /\ width \in Int /\ precision \in Int
  BY <1>1, AtSpecifier DEF FieldTypes, IntegerSpecs, SignedSpecs, UnsignedSpecs
<1>3. s \in Seq(Characters)
  BY <1>2 DEF OfType, IntegerSpecs, SignedSpecs, UnsignedSpecs
<1>4. Len(s) \in Nat /\ \A k \in 1 .. Len(s) : s[k] \in Characters
  BY <1>3, LenProperties, ElementOfSeq
<1>5. n \in Int /\ n <= Len(s)
  BY <1>2, <1>4 DEF Smaller
<1> HIDE DEF s, n
<1>6. SubSeq(s, 1, n) \in Texts
  <2>1. \A k \in 1 .. n : s[k] \in Characters
    BY <1>4, <1>5
  <2> QED
    BY <1>3, <1>5, <2>1, SubSeqProperties DEF Texts
<1>7. Padded(SubSeq(s, 1, n)) \in Texts
  BY <1>2, <1>6, PaddedType
<1> QED
  BY <1>1, <1>2, <1>7, DirectiveKeeps

(* An address (printf.c:968-989).                                          *)
LEMMA PointerKeeps ==
  ASSUME PrintfInv, place = "specifier", PointerDirective
  PROVE  PrintfInv'
<1>1. Here = "p" /\ Directive(_ntoa_long(run.args[arg], FALSE, 16, PointerDigits,
                                         flags \cup {"0", "UPPERCASE"}), 1)
  BY DEF PointerDirective
<1>2. Mark[format].next = arg + 1 /\ OfType(run.args[arg], "p") /\ precision \in Int
  BY <1>1, AtSpecifier DEF FieldTypes, IntegerSpecs, SignedSpecs, UnsignedSpecs
<1>3. run.args[arg] \in Nat
  BY <1>2 DEF OfType, IntegerSpecs, SignedSpecs, UnsignedSpecs
<1>4. PointerDigits \in Int
  BY WidthAssumption
<1>5. _ntoa_long(run.args[arg], FALSE, 16, PointerDigits, flags \cup {"0", "UPPERCASE"})
        \in Texts
  BY <1>2, <1>3, <1>4, NtoaType
<1> QED
  BY <1>1, <1>2, <1>5, DirectiveKeeps

(* "%%" (printf.c:991-994).                                                *)
LEMMA OtherKeeps ==
  ASSUME PrintfInv, place = "specifier", OtherDirective
  PROVE  PrintfInv'
<1>1. /\ Here \notin {"d", "i", "u", "x", "X", "o", "b", "c", "s", "p", NUL}
      /\ Directive(<<Here>>, 0)
  BY DEF OtherDirective
<1>2. Here \in Specifiers /\ Parsing
  BY AtSpecifier
<1>3. Here = "%"
  BY <1>1, <1>2 DEF Specifiers, IntegerSpecs, SignedSpecs, UnsignedSpecs
<1>4. Mark[format].next = arg + 0
  BY <1>3, AtSpecifier
<1>5. run.format \in Seq(Characters) /\ format \in 1 .. Len(run.format)
  BY <1>2 DEF Parsing, WellFormed
<1>6. <<Here>> \in Texts
  BY <1>5, ElementOfSeq, OwnCharacters DEF Here
<1> QED
  BY <1>1, <1>4, <1>6, DirectiveKeeps

(* The end of the format: the string is terminated if there is a cell      *)
(* (printf.c:1003-1008).                                                   *)
LEMMA EndOfFormatKeeps ==
  ASSUME PrintfInv, EndOfFormat
  PROVE  PrintfInv'
<1> DEFINE t == Terminator
           room == 0 .. (run.count - 1)
<1>1. /\ Parsing /\ Cells /\ FieldTypes /\ place' = "done"
      /\ format' = format /\ run' = run /\ arg' = arg
      /\ flags' = flags /\ width' = width /\ precision' = precision /\ idx' = idx
      /\ buffer' = [k \in DOMAIN buffer \cup ({t} \cap room) |->
                      IF k = t THEN NUL ELSE buffer[k]]
  BY DEF PrintfInv, Working, EndOfFormat, At
<1>2. Parsing'
  BY <1>1 DEF Parsing, Mark, Before, Here
<1>3. run.count \in Nat /\ idx \in Nat
  BY <1>1 DEF Parsing, WellFormed, Cells
<1>4. run.count > 0 => t \in room
  BY <1>3 DEF Terminator
<1> HIDE DEF t
<1>5. Cells'
  BY <1>1 DEF Cells
<1>6. Ended'
  <2> SUFFICES ASSUME run.count > 0 PROVE \E k \in DOMAIN buffer' : buffer'[k] = NUL
    BY <1>1 DEF Ended
  <2>1. t \in DOMAIN buffer' /\ buffer'[t] = NUL
    BY <1>1, <1>4
  <2> QED
    BY <2>1
<1> QED
  BY <1>1, <1>2, <1>5, <1>6 DEF PrintfInv, FieldTypes, LongLong, Working

(* One step of _vsnprintf() (printf.c:646-1008).                           *)
LEMMA VsnprintfKeeps ==
  ASSUME PrintfInv, Vsnprintf
  PROVE  PrintfInv'
<1>1. CASE /\ place = "specifier"
           /\ \/ IntegerDirective \/ CharDirective \/ StringDirective
              \/ PointerDirective \/ OtherDirective
  BY <1>1, IntegerKeeps, CharKeeps, StringKeeps, PointerKeeps, OtherKeeps
<1> QED
  BY <1>1, TextKeeps, PercentKeeps, FlagKeeps, NoMoreFlagsKeeps, WidthKeeps, NoPrecisionKeeps,
     PrecisionKeeps, LengthKeeps, EndOfFormatKeeps DEF Vsnprintf

(***************************************************************************)
(* The theorems.                                                           *)
(***************************************************************************)

(* A call is made, and the format is at its first character                *)
(* (printf.c:646-654, 1031-1038).                                          *)
LEMMA CallKeeps ==
  ASSUME PrintfInv, NEW call, WellFormed(call), snprintf_(call)
  PROVE  PrintfInv'
<1>1. /\ FieldTypes /\ place' = "text" /\ run' = call /\ format' = 1 /\ arg' = 1
      /\ idx' = 0 /\ buffer' = NoOutput
      /\ flags' = flags /\ width' = width /\ precision' = precision
  BY DEF PrintfInv, snprintf_
<1>2. /\ 1 \in 1 .. Len(call.format) /\ Reading(call.format)[0].role = "text"
      /\ Reading(call.format)[0].next = 1
  BY FormatStarts
<1>3. 1 - 1 = 0
  OBVIOUS
<1>4. Mark' = Reading(call.format) /\ Before' = "text" /\ Mark[format - 1].next' = 1
  BY <1>1, <1>2, <1>3 DEF Mark, Before
<1>5. Parsing'
  BY <1>1, <1>2, <1>4 DEF Parsing, Outside
<1>6. Cells'
  BY <1>1 DEF Cells, NoOutput
<1> QED
  BY <1>1, <1>5, <1>6 DEF PrintfInv, FieldTypes, LongLong, Ended, Working

(* When stage 2 starts no call is made.                                    *)
LEMMA PrintfInvInit ==
  ASSUME DescriptorInit
  PROVE  PrintfInv
  BY DEF DescriptorInit, PrintfInit, PrintfInv, FieldTypes, Working

(* Every step of the string descriptors keeps the invariant                *)
(* (usb.cpp:198-243, printf.c:646-1038).                                   *)
LEMMA PrintfInvNext ==
  ASSUME PrintfInv, [DescriptorNext]_descriptorVars
  PROVE  PrintfInv'
<1>1. ASSUME NEW n \in Names, GetName(n)
      PROVE  PrintfInv'
  BY <1>1 DEF GetName, PrintfInv, FieldTypes, Working
<1>2. ASSUME NEW b \in Builds, GetMemoryMap(b)
      PROVE  PrintfInv'
  BY <1>2, FormatAssumption, CallKeeps DEF GetMemoryMap
<1>3. ASSUME NEW k \in DOMAIN Calls, NEW c \in Calls[k], snprintf_(c)
      PROVE  PrintfInv'
  BY <1>3, FormatAssumption, CallKeeps
<1>4. CASE Describe
  BY <1>4 DEF Describe, PrintfInv, FieldTypes, Working
<1>5. CASE Return
  BY <1>5 DEF Return, Returned, PrintfInv, FieldTypes, Working
<1>6. CASE UNCHANGED descriptorVars
  <2>1. /\ place' = place /\ run' = run /\ format' = format /\ arg' = arg
        /\ flags' = flags /\ width' = width /\ precision' = precision
        /\ idx' = idx /\ buffer' = buffer
    BY <1>6 DEF descriptorVars, printfVars
  <2> QED
    BY <2>1
       DEF PrintfInv, FieldTypes, Parsing, LongLong, Cells, Ended, Mark, Before, Here
<1> QED
  BY <1>1, <1>2, <1>3, <1>4, <1>5, <1>6, VsnprintfKeeps, Zenon DEF DescriptorNext

(* The code and the grammar of a format never part: at every step of every *)
(* call the character at hand and the argument that is next are those the  *)
(* grammar says, and the flags, width and precision have their types       *)
(* (printf.c:646-1008).                                                    *)
THEOREM PrintfInvariant == DescriptorSpec => []PrintfInv
<1>1. DescriptorInit => PrintfInv
  BY PrintfInvInit
<1>2. PrintfInv /\ [DescriptorNext]_descriptorVars => PrintfInv'
  BY PrintfInvNext
<1> QED
  BY <1>1, <1>2, PTL DEF DescriptorSpec

(* Whatever well-formed call is made, of whatever length: snprintf writes  *)
(* no cell the caller did not give, takes no argument that was not passed, *)
(* reads nothing behind the end of the format, and terminates the string   *)
(* (printf.c:128-134, 646-1008).                                           *)
THEOREM PrintfWithinBounds == DescriptorSpec => []WithinBounds
<1>1. PrintfInv => WithinBounds
  <2> SUFFICES ASSUME PrintfInv, place \notin {"idle", "reply"} PROVE
        /\ DOMAIN buffer \subseteq 0 .. (run.count - 1)
        /\ arg \in 1 .. Len(run.args) + 1 /\ format \in DOMAIN run.format
        /\ flags \subseteq AllFlags
        /\ place = "done" /\ run.count > 0 => \E k \in DOMAIN buffer : buffer[k] = NUL
    BY DEF WithinBounds
  <2>1. Parsing /\ Cells /\ Ended /\ FieldTypes
    BY DEF PrintfInv
  <2>2. /\ WellFormed(run) /\ format \in 1 .. Len(run.format)
        /\ arg = Reading(run.format)[format - 1].next
    BY <2>1 DEF Parsing, Mark
  <2>3. DOMAIN run.format = 1 .. Len(run.format) /\ format - 1 \in 0 .. Len(run.format)
    BY <2>2, FormatStarts
  <2>4. arg \in 1 .. (Len(run.args) + 1)
    BY <2>2, <2>3, NextBound
  <2> QED
    BY <2>1, <2>2, <2>3, <2>4 DEF Cells, Ended, FieldTypes
<1> QED
  BY <1>1, PrintfInvariant, PTL

(***************************************************************************)
(* A call comes to its end.                                                *)
(***************************************************************************)

(* A step goes on to the next part of a directive, or along the format, or *)
(* to the end (printf.c:654-1008).                                         *)
LEMMA Goes ==
  ASSUME PrintfInv, Vsnprintf
  PROVE  /\ run' = run
         /\ \/ place = "text" /\ place' = "done"
            \/ \E k \in Nat :
                 /\ format' = format + k
                 /\ \/ place = "text" /\ place' \in {"text", "flags"} /\ k = 1
                    \/ place = "flags" /\ place' = "flags" /\ k = 1
                    \/ place = "flags" /\ place' = "width"
                    \/ place = "width" /\ place' = "precision"
                    \/ place = "precision" /\ place' = "length"
                    \/ place = "length" /\ place' = "specifier"
                    \/ place = "specifier" /\ place' = "text" /\ k = 1
<1>0. 0 \in Nat /\ 1 \in Nat /\ 2 \in Nat
  OBVIOUS
<1>1. CASE Text \/ Percent \/ Flag
  BY <1>0, <1>1 DEF Text, Percent, Flag, At, Take
<1>2. CASE NoMoreFlags \/ NoPrecision
  <2>1. format \in Nat
    BY <1>2, AtHand DEF NoMoreFlags, NoPrecision, At, PrintfInv, Working
  <2>2. format' = format + 0
    BY <1>2, <2>1 DEF NoMoreFlags, NoPrecision
  <2> QED
    BY <1>0, <1>2, <2>2 DEF NoMoreFlags, NoPrecision, At
<1>3. CASE Width
  <2>1. /\ Parsing /\ WellFormed(run) /\ format \in 1 .. Len(run.format)
        /\ place = "width" /\ place' = "precision" /\ run' = run
    BY <1>3 DEF PrintfInv, Working, Parsing, Width, At
  <2>2. Len(DigitRun(format)) \in Nat
    BY <2>1, RunEnds, RunNumber, FormatStarts
  <2>3. format = format + 0
    BY <2>1, AtHand
  <2>4. format' \in {format + Len(DigitRun(format)), format + 1, format + 0}
    <3>1. \/ Take(Len(DigitRun(format))) \/ Take(1) \/ format' = format
      BY <1>3 DEF Width
    <3> QED
      BY <2>3, <3>1 DEF Take
  <2> QED
    BY <1>0, <2>1, <2>2, <2>4
<1>4. CASE Precision
  <2>1. /\ Parsing /\ WellFormed(run) /\ place = "precision" /\ place' = "length" /\ run' = run
        /\ format \in 1 .. Len(run.format) /\ Before \in BeforePoint /\ Here = "."
    BY <1>4 DEF PrintfInv, Working, Parsing, Precision, At
  <2>2. format + 1 \in 1 .. Len(run.format)
    <3>1. Mark[format].role # "end"
      <4>1. RoleAfter(Before, ".") # "wrong" /\ Mark[format].role = RoleAfter(Before, ".")
        BY <2>1, AtHand
      <4>2. "." # NUL
        BY DEF NUL
      <4> QED
        BY <4>1, <4>2, Follow
    <3> QED
      BY <2>1, <3>1, AtHand
  <2>3. Len(DigitRun(format + 1)) \in Nat
    <3> DEFINE n == format + 1
    <3>1. n \in 1 .. Len(run.format)
      BY <2>2
    <3> HIDE DEF n
    <3>2. Len(DigitRun(n)) \in Nat
      BY <2>1, <3>1, RunEnds, RunNumber, FormatStarts
    <3> QED
      BY <3>2 DEF n
  <2>4. Take(2) \/ Take(1 + Len(DigitRun(format + 1)))
    BY <1>4 DEF Precision
  <2>5. 1 + Len(DigitRun(format + 1)) \in Nat
    BY <2>3
  <2> QED
    BY <1>0, <2>1, <2>4, <2>5 DEF Take
<1>5. CASE Length
  <2>1. /\ Parsing /\ place = "length" /\ place' = "specifier" /\ run' = run
        /\ format' = format + Cardinality(LengthFlags)
    BY <1>5 DEF PrintfInv, Working, Length, At, Take
  <2> QED
    BY <2>1, LengthEnds
<1>6. CASE /\ place = "specifier"
           /\ \/ IntegerDirective \/ CharDirective \/ StringDirective
              \/ PointerDirective \/ OtherDirective
  <2>1. place' = "text" /\ run' = run /\ format' = format + 1
    BY <1>6 DEF IntegerDirective, CharDirective, StringDirective, PointerDirective,
                OtherDirective, Directive, Take
  <2> QED
    BY <1>0, <1>6, <2>1
<1>7. CASE EndOfFormat
  BY <1>7 DEF EndOfFormat, At
<1> QED
  BY <1>1, <1>2, <1>3, <1>4, <1>5, <1>6, <1>7 DEF Vsnprintf

(* Every call of snprintf comes to its end, whatever the format and the    *)
(* arguments: each step leaves it fewer steps than the one before          *)
(* (printf.c:654-1000).                                                    *)
THEOREM CallsComeToAnEnd == DescriptorSpec => CallAdvances
<1>1. /\ DOMAIN Parts = {"text", "flags", "width", "precision", "length", "specifier"}
      /\ Parts["text"] = 6 /\ Parts["flags"] = 5 /\ Parts["width"] = 4
      /\ Parts["precision"] = 3 /\ Parts["length"] = 2 /\ Parts["specifier"] = 1
  BY DEF Parts
<1>2. ASSUME PrintfInv, place \in DOMAIN Parts
      PROVE  /\ Len(run.format) \in Nat /\ format \in 1 .. Len(run.format)
             /\ StepsLeft = 6 * (Len(run.format) - format) + Parts[place]
  <2>1. Parsing
    BY <1>1, <1>2 DEF PrintfInv, Working
  <2> QED
    BY <1>2, <2>1, FormatStarts DEF Parsing, StepsLeft
<1>3. ASSUME PrintfInv, PrintfInv', place \in DOMAIN Parts, Vsnprintf
      PROVE  StepsLeft' >= 0 /\ StepsLeft' < StepsLeft
  <2> DEFINE L == Len(run.format)
  <2>1. L \in Nat /\ format \in 1 .. L /\ StepsLeft = 6 * (L - format) + Parts[place]
    BY <1>2, <1>3
  <2>2. run' = run
    BY <1>3, Goes
  <2>3. CASE place = "text" /\ place' = "done"
    <3>1. StepsLeft' = 0
      BY <1>1, <2>3 DEF StepsLeft
    <3> HIDE DEF L
    <3> QED
      BY <1>1, <2>1, <2>3, <3>1
  <2>4. ASSUME NEW k \in Nat, format' = format + k,
               \/ place = "text" /\ place' \in {"text", "flags"} /\ k = 1
               \/ place = "flags" /\ place' = "flags" /\ k = 1
               \/ place = "flags" /\ place' = "width"
               \/ place = "width" /\ place' = "precision"
               \/ place = "precision" /\ place' = "length"
               \/ place = "length" /\ place' = "specifier"
               \/ place = "specifier" /\ place' = "text" /\ k = 1
        PROVE  StepsLeft' >= 0 /\ StepsLeft' < StepsLeft
    <3>1. place' \in DOMAIN Parts
      BY <1>1, <2>4
    <3>2. Parsing'
      BY <1>1, <1>3, <3>1 DEF PrintfInv, Working
    <3>3. format + k <= L
      BY <2>1, <2>2, <2>4, <3>2 DEF Parsing
    <3>4. StepsLeft' = 6 * (L - (format + k)) + Parts[place']
      BY <2>2, <2>4, <3>1 DEF StepsLeft, Parts
    <3> HIDE DEF L
    <3>5. /\ Parts[place] \in 1 .. 6 /\ Parts[place'] \in 1 .. 6
          /\ (k = 1 /\ Parts[place'] < Parts[place] + 6) \/ Parts[place'] < Parts[place]
      BY <1>1, <2>4
    <3> QED
      BY <2>1, <3>3, <3>4, <3>5
  <2> QED
    BY <1>3, <2>3, <2>4, Goes
<1>4. ASSUME PrintfInv, PrintfInv', [DescriptorNext]_descriptorVars
      PROVE  [(place \in DOMAIN Parts) => StepsLeft' >= 0 /\ StepsLeft' < StepsLeft]_printfVars
  <2>1. CASE UNCHANGED descriptorVars
    BY <2>1 DEF descriptorVars
  <2>2. CASE Vsnprintf
    BY <1>3, <1>4, <2>2
  <2>3. CASE place \notin DOMAIN Parts
    BY <2>3
  <2>4. CASE place \in DOMAIN Parts /\ ~ Vsnprintf /\ DescriptorNext
    <3>1. place \in {"idle", "done", "reply"}
      BY <2>4 DEF DescriptorNext, Describe, Return
    <3> QED
      BY <1>1, <2>4, <3>1
  <2> QED
    BY <1>4, <2>1, <2>2, <2>3, <2>4
<1> QED
  BY <1>4, PrintfInvariant, PTL DEF DescriptorSpec, CallAdvances

(***************************************************************************)
(* What the code writes it can read.                                       *)
(***************************************************************************)

(* The first ten of the digits are the decimal ones, and each has its      *)
(* value (printf.c:190, 317).                                              *)
LEMMA DecimalNames ==
  ASSUME NEW d \in 0 .. 9
  PROVE  /\ LowerDigits[d + 1] = DecimalDigits[d + 1]
         /\ UpperDigits[d + 1] = DecimalDigits[d + 1]
         /\ DigitValue(DecimalDigits[d + 1]) = d
<1> DEFINE Lower == <<"a", "b", "c", "d", "e", "f">>
           Upper == <<"A", "B", "C", "D", "E", "F">>
           All == {"0", "1", "2", "3", "4", "5", "6", "7", "8", "9"}
                    \cup {"a", "b", "c", "d", "e", "f"} \cup {"A", "B", "C", "D", "E", "F"}
<1>1. DecimalDigits \in Seq(All) /\ Len(DecimalDigits) = 10
  <2>1. DecimalDigits \in [1 .. 10 -> All]
    BY DEF DecimalDigits
  <2> HIDE DEF All
  <2> QED
    BY <2>1, TupleType
<1>2. Lower \in Seq(All) /\ Len(Lower) = 6 /\ Upper \in Seq(All) /\ Len(Upper) = 6
  <2>1. Lower \in [1 .. 6 -> All] /\ Upper \in [1 .. 6 -> All]
    OBVIOUS
  <2> HIDE DEF All, Lower, Upper
  <2> QED
    BY <2>1, TupleType
<1>3. /\ LowerDigits[d + 1] = DecimalDigits[d + 1]
      /\ UpperDigits[d + 1] = DecimalDigits[d + 1]
  <2>1. LowerDigits = DecimalDigits \o Lower /\ UpperDigits = DecimalDigits \o Upper
    BY DEF LowerDigits, UpperDigits
  <2>2. d + 1 \in 1 .. (Len(DecimalDigits) + 6) /\ d + 1 <= Len(DecimalDigits)
    BY <1>1
  <2> HIDE DEF All, Lower, Upper
  <2> QED
    BY <1>1, <1>2, <2>1, <2>2, ConcatProperties
<1>4. \A e \in 0 .. 9 : DecimalDigits[e + 1] = DecimalDigits[d + 1] => e = d
  BY DEF DecimalDigits
<1>5. DigitValue(DecimalDigits[d + 1]) = d
  BY <1>4 DEF DigitValue
<1> QED
  BY <1>3, <1>5

(* The quotients do not grow (printf.c:313-318).                           *)
LEMMA QuotientsShrink ==
  ASSUME NEW value \in Nat
  PROVE  \A k \in 0 .. NtoaSize : Quotients(value, 10)[k] <= value
<1> DEFINE q == Quotients(value, 10)
           S == {k \in Nat : k <= NtoaSize => q[k] <= value}
<1>1. /\ \A k \in 0 .. NtoaSize : q[k] \in Nat
      /\ \A k \in 0 .. NtoaSize : q[k] = IF k = 0 THEN value ELSE q[k - 1] \div 10
  <2>0. 10 \in Nat \ {0}
    OBVIOUS
  <2>1. q = [k \in 0 .. NtoaSize |-> IF k = 0 THEN value ELSE q[k - 1] \div 10]
    BY <2>0, QuotientsIs, Zenon
  <2>2. \A k \in 0 .. NtoaSize : q[k] \in Nat
    BY QuotientsType
  <2> HIDE DEF q
  <2> QED
    BY <2>1, <2>2, Zenon
<1> HIDE DEF q
<1>2. 0 \in S
  BY <1>1, WidthAssumption
<1>3. ASSUME NEW n \in Nat, n \in S
      PROVE  n + 1 \in S
  <2> SUFFICES ASSUME n + 1 <= NtoaSize PROVE q[n + 1] <= value
    OBVIOUS
  <2>1. q[n] \in Nat /\ q[n] <= value /\ q[n + 1] = q[n] \div 10
    BY <1>1, <1>3, WidthAssumption
  <2>2. \A a \in Nat : a \div 10 <= a
    OBVIOUS
  <2> QED
    BY <2>1, <2>2
<1>4. Nat \subseteq S
  <2> HIDE DEF S
  <2> QED
    BY <1>2, <1>3, Induction
<1> QED
  BY <1>4, WidthAssumption DEF q

(* _atoi() reads back what _ntoa_long() writes: the decimal digits of any  *)
(* unsigned int, put out from the last one of the conversion buffer to the *)
(* first, stand for that number, if the buffer has room for them all       *)
(* (printf.c:186-193, 209-212, 298-322).                                   *)
THEOREM DecimalReadsBack ==
  ASSUME NEW value \in 0 .. (IntRange - 1), NEW fl,
         Quotients(value, 10)[NtoaSize] = 0
  PROVE  LET written == Reverse(DigitsOf(value, 10, fl))
         IN Values(written)[Len(written)] = value
<1> DEFINE q == Quotients(value, 10)
           names == IF "UPPERCASE" \in fl THEN UpperDigits ELSE LowerDigits
           n == DigitCount(q)
           digits == [k \in 1 .. n |-> names[(q[k - 1] % 10) + 1]]
           written == Reverse(DigitsOf(value, 10, fl))
<1>0. value \in Nat /\ NtoaSize \in Nat \ {0} /\ IntRange \in Nat \ {0}
  BY WidthAssumption
<1>1. DigitsOf(value, 10, fl) \in Texts
  BY <1>0, DigitsFit DEF Buffers
<1>2. CASE DigitsOf(value, 10, fl) = <<>> /\ value = 0
  <2>1. written \in Texts /\ Len(written) = 0
    BY <1>1, <1>2, ReverseType, OwnCharacters
  <2>2. Values(written)[0] = 0
    <3> HIDE DEF written
    <3>1. Len(written) \in Nat /\ 0 \in 0 .. Len(written)
      BY <2>1
    <3>2. Values(written) =
            [k \in 0 .. Len(written) |->
               IF k = 0 THEN 0
               ELSE (Values(written)[k - 1] * 10 + DigitValue(written[k])) % IntRange]
      BY <3>1, ValuesIs, Zenon
    <3> QED
      BY <3>1, <3>2
  <2> QED
    BY <1>2, <2>1, <2>2
<1>3. CASE DigitsOf(value, 10, fl) = digits
  <2>1. \A k \in 0 .. NtoaSize :
          q[k] \in Nat /\ q[k] <= value /\ q[k] = IF k = 0 THEN value ELSE q[k - 1] \div 10
    <3>0. 10 \in Nat \ {0}
      OBVIOUS
    <3>1. q = [k \in 0 .. NtoaSize |-> IF k = 0 THEN value ELSE q[k - 1] \div 10]
      BY <1>0, <3>0, QuotientsIs, Zenon
    <3>2. \A k \in 0 .. NtoaSize : q[k] \in Nat /\ q[k] <= value
      BY <1>0, QuotientsType, QuotientsShrink
    <3> HIDE DEF q
    <3> QED
      BY <3>1, <3>2, Zenon
  <2>2. n \in 1 .. NtoaSize /\ q[n] = 0
    BY <1>0, DigitCountIs
  <2> HIDE DEF q, n
  <2>3. n \in Nat /\ n >= 1 /\ n <= NtoaSize
    BY <1>0, <2>2
  <2>4. digits \in [1 .. n -> {names[(q[k - 1] % 10) + 1] : k \in 1 .. n}]
    OBVIOUS
  <2>5. Len(digits) = n
    <3> HIDE DEF digits
    <3> QED
      BY <2>3, <2>4, TupleType
  <2>6. written \in Texts /\ Len(written) = n
    BY <1>1, <1>3, <2>5, ReverseType
  <2>7. ASSUME NEW k \in 1 .. n
        PROVE  DigitValue(written[k]) = q[n - k] % 10
    <3>1. written[k] = digits[(n - k) + 1]
      BY <1>3, <2>5 DEF Reverse
    <3>2. (n - k) + 1 \in 1 .. n /\ ((n - k) + 1) - 1 = n - k
      BY <2>3
    <3>3. digits[(n - k) + 1] = names[(q[n - k] % 10) + 1]
      BY <3>2
    <3>4. q[n - k] % 10 \in 0 .. 9
      <4>1. q[n - k] \in Nat
        BY <1>0, <2>1, <2>3
      <4> QED
        BY <4>1
    <3> QED
      BY <3>1, <3>3, <3>4, DecimalNames
  <2> DEFINE v == Values(written)
             S == {k \in Nat : k <= n => v[k] = q[n - k]}
  <2> HIDE DEF written
  <2>8. \A k \in 0 .. n :
          v[k] = IF k = 0 THEN 0 ELSE (v[k - 1] * 10 + DigitValue(written[k])) % IntRange
    <3>1. v = [k \in 0 .. Len(written) |->
                 IF k = 0 THEN 0
                 ELSE (v[k - 1] * 10 + DigitValue(written[k])) % IntRange]
      BY <2>3, <2>6, ValuesIs, Zenon
    <3> HIDE DEF v
    <3> QED
      BY <2>6, <3>1, Zenon
  <2> HIDE DEF v, digits, names
  <2>9. 0 \in S
    <3>1. v[0] = 0 /\ n - 0 = n
      BY <2>3, <2>8
    <3> QED
      BY <2>2, <3>1
  <2>10. ASSUME NEW k \in Nat, k \in S
         PROVE  k + 1 \in S
    <3> SUFFICES ASSUME k + 1 <= n PROVE v[k + 1] = q[n - (k + 1)]
      OBVIOUS
    <3> DEFINE m == n - (k + 1)
    <3>1. m \in 0 .. NtoaSize /\ m + 1 \in 0 .. NtoaSize /\ n - k = m + 1 /\ (m + 1) - 1 = m
      BY <1>0, <2>3
    <3>2. v[k] = q[m + 1]
      BY <2>3, <2>10, <3>1
    <3>3. v[k + 1] = (v[k] * 10 + (q[m] % 10)) % IntRange
      <4>1. k + 1 \in 1 .. n /\ k + 1 \in 0 .. n /\ k + 1 # 0 /\ (k + 1) - 1 = k
        BY <2>3
      <4> QED
        BY <2>7, <2>8, <4>1
    <3> HIDE DEF m
    <3>4. q[m] \in Nat /\ q[m] <= value /\ q[m + 1] = q[m] \div 10
      BY <2>1, <3>1
    <3>5. \A a \in Nat : (a \div 10) * 10 + (a % 10) = a
      OBVIOUS
    <3>6. v[k + 1] = q[m] % IntRange
      BY <3>2, <3>3, <3>4, <3>5
    <3>7. q[m] \in 0 .. (IntRange - 1)
      BY <1>0, <3>4
    <3> QED
      BY <1>0, <3>6, <3>7 DEF m
  <2>11. Nat \subseteq S
    <3> HIDE DEF S
    <3> QED
      BY <2>9, <2>10, Induction
  <2>12. v[n] = q[n - n]
    BY <2>3, <2>11
  <2>13. q[0] = value /\ n - n = 0
    BY <1>0, <2>1, <2>3
  <2> QED
    BY <2>6, <2>12, <2>13 DEF v, written
<1>4. \/ DigitsOf(value, 10, fl) = <<>> /\ value = 0
      \/ DigitsOf(value, 10, fl) = digits
  BY Zenon DEF DigitsOf
<1> QED
  BY <1>2, <1>3, <1>4
=============================================================================
