---------------------------- MODULE MCDescriptor ---------------------------
(* One directive between two characters, in every combination of flags,    *)
(* width, precision, length and specifier that is listed, into buffers of  *)
(* no cell up to more than enough; the builds from a small to the largest  *)
(* flash of the family.                                                    *)
EXTENDS Descriptor

Widths == {No, By("digits", 3), By("arg", -4), By("digits", 12)}
Precisions == {No, By("digits", 0), By("digits", 2), By("arg", -1), By("arg", 9)}
Flags == {{}, {"0"}, {"-"}, {"+"}, {" "}, {"0", "+"}, {"0", " "}, {"-", "0"},
          {"+", " "}, {"-", "+"}, {"#"}, {"#", "0"}}

Made(specs, lengths, values) ==
  [flags : Flags, width : Widths, prec : Precisions, length : lengths,
   spec : specs, value : values]

IntegersShown ==
  Made({"d", "u", "X", "b"}, {<<>>}, {0, 7, -5, 100, -128})
    \cup Made({"i", "o", "x"}, {<<"l">>, <<"z">>}, {0, -5})
    \cup Made({"d", "u"}, {<<"h">>, <<"h", "h">>, <<"l", "l">>, <<"j">>}, {5, 100, -3})
    \cup Made({"p"}, {<<>>}, {0, 90})
    \cup Made({"%"}, {<<>>}, {0})

StringsShown == Made({"s"}, {<<>>}, {<<>>, <<"a", "b", "c">>})
CharsShown   == Made({"c"}, {<<>>}, {"z"})

CallsOf(shown) ==
  {CallOf(<<Literal(<<"<">>), d, Literal(<<">">>)>>, n) : d \in shown, n \in {0, 6, 60}}

(* Those of the formats and of the arguments.                              *)
MCCharacters ==
  FlagChars \cup Digits \cup Specifiers \cup {NUL, "*", ".", ",", "/", "@", "<", ">"}
    \cup {"h", "l", "j", "z", "a", "e", "f", "g", "n", "r", "t"}
    \cup {"A", "B", "C", "D", "E", "F", "I", "K", "U"}

MCCalls == <<CallsOf(IntegersShown), CallsOf(StringsShown), CallsOf(CharsShown)>>

MCBuilds == [boot : {16}, app : {16, 48, 112, 240, 272, 464}] \cup
            {[boot |-> 40, app |-> 440]}

MCNames == {<<>>, <<"D", "F", "U">>}
=============================================================================
