----------------------------- MODULE MCConsole -----------------------------
(* Module Console with texts and command names of one or two characters.    *)
EXTENDS Console

ShortPrompt == <<">">>
ClearName == <<"c">>
EchoName == <<"e">>
SetcolorName == <<"x", "x">>
HaltNames == {<<"x">>}
SomeTexts == {<< >>, <<"e", "x">>, <<"x", "n">>}
============================================================================
