---------------------------- MODULE MCIngestRun ----------------------------
(* A small instance of IngestRun: the authored store and one manual. *)
EXTENDS IngestRun

\* Every edition keeps one passage and changes or moves the other, so rows can
\* be reused, shifted and orphaned.
MCChunks == [d \in Docs |-> IF d % 2 = 0 THEN << <<"p", "q">>, <<"p", "r">> >>
                                         ELSE << <<"q", "s", "p">>, <<"q", "s">> >>]

Installed(version, model) == [version |-> version, model |-> model, format |-> 1]

FirstInstalled == Installed(1, "m1")
\* A new release cuts passages otherwise and brings another embedding model.
FirstOrRelease == {FirstInstalled, Installed(2, "m2")}

Triage == "authored/triage"
Manual == "vendor/a"
OneManual == <<Triage, Manual>>
TheStore == {Triage}
=============================================================================
