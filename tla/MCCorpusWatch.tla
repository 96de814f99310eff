--------------------------- MODULE MCCorpusWatch ---------------------------
(* A small instance of CorpusWatch: one manual, whose editions differ in   *)
(* length, and two index formats.                                          *)
EXTENDS CorpusWatch

MCChunks == [d \in Docs |-> IF d % 2 = 0 THEN << <<"p", "q">> >> ELSE << <<"q">> >>]

Installed(format_) == [version |-> 1, model |-> "m1", format |-> format_]

FirstInstalled == Installed(1)
FirstOrFormat == {FirstInstalled, Installed(2)}

Manual == "vendor/a"
Order == <<Manual>>
NoStore == {}
=============================================================================
