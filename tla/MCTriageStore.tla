----------------------------- MODULE MCTriageStore -----------------------------
\* Two files, three editions of the manuals, and pointers of every form: by
\* number, by number and title, by a title that is exact, a prefix, ambiguous or
\* gone, into the notes themselves, and none.
EXTENDS TriageStore

MCFiles == <<"a.md", "b.md">>
MCControls == {"Gain", "12 dB"}

Title(words, text) == [words |-> words, text |-> text]
Row(source, number, title, id, words) ==
  [source |-> source, number |-> number, title |-> title,
   id |-> [text |-> <<id>>, nth |-> 0], words |-> words]

Alpha    == Title(<<"alpha">>, "Alpha")
Beta     == Title(<<"beta">>, "2 Beta.")
BetaMore == Title(<<"beta", "more">>, "Beta, more")
Hum      == Title(<<"hum">>, "Hum")
Hiss     == Title(<<"hiss">>, "Hiss")

One  == Row("live", "1", Alpha, "p1", {"Gain"})
Two  == Row("live", "2", Beta, "p2", {})
More == Row("live", None, BetaMore, "p3", {"Gain", "12 dB"})
Solo == Row("solo-4g", None, Title(<<"setup">>, "Setup"), "p4", {})

MCEditions ==
  {[rows |-> <<One, Two, More, Solo>>, sources |-> {"live", "solo-4g"}],
   [rows |-> <<Row("live", "1", Beta, "p5", {}), More>>, sources |-> {"live"}],
   [rows |-> <<One, Two, Row("live", "3", Beta, "p6", {}), Solo>>, sources |-> {"live", "solo-4g"}]}

Gear(id, revision) == [id |-> id, revision |-> revision, name |-> id]
Owned == <<Gear("live", "12"), Gear("solo", None)>>

MCRigs ==
  {[devices |-> Owned, applies |-> [s \in {"solo-4g"} |-> "solo"]],
   [devices |-> Owned, applies |-> [s \in {"live"} |-> "live"]]}

Line(kind, text) == [kind |-> kind, text |-> text, to |-> None]
Naming(kind, to) == [kind |-> kind, text |-> kind, to |-> to]
Fix(source, number, title) ==
  Naming("fix", [source |-> source, number |-> number, title |-> title])

ToAlpha == Fix("live", "1", Alpha)
ToBeta  == Fix("live", None, Beta)
ToSolo  == Fix("solo-4g", None, Title(<<"setup">>, "SETUP"))
ToNotes == Fix(AuthoredSource, None, Hum)
ToTypo  == Fix("live", "9", None)
ToPage  == Fix("live", None, None)
Claim   == Naming("undocumented", "solo")

Cause(word, rest) == <<Line("cause", word), Line("check", "look")>> \o rest
Headed(title) == <<[kind |-> "symptom", text |-> title.text, to |-> title]>>

Draft(devices, lines) ==
  [front |-> "fenced", declared |-> "list", devices |-> devices, extra |-> FALSE, lines |-> lines]

Live    == [id |-> "live", revision |-> "11"]
TheSolo == [id |-> "solo", revision |-> None]
Other   == [id |-> "other", revision |-> None]

Humming(devices) ==
  Draft(devices, Headed(Hum) \o Cause("Gain", <<ToAlpha>>) \o Cause("low", <<ToBeta>>))

\* The grammar: what wraps, what is kept as prose, what closes the entry.
Wordy ==
  Draft(<<Live, Other>>,
    <<Line("also", "buzz"), Line("prose", "intro")>> \o Headed(Hiss) \o
    <<Line("fix", "early"), Line("cause", "Gain"), Line("check", "look"), Line("prose", "closely"),
      Line("blank", ""), Line("prose", "aside"), Line("check", "again"), ToPage, ToAlpha, ToBeta,
      Line("why", "often"), Line("prose", "enough")>>
    \o Cause("low", <<Line("also", "rumble"), Claim, Claim>>)
    \o <<Line("cause", "otherwise"), Line("prose", "ask")>>)

\* A file refused for its front matter, one for its devices, one for a cause.
Broken ==
  {[Humming(<<Live>>) EXCEPT !.declared = "bare"], Humming(<<Other>>),
   Draft(<<Live>>, Headed(Hiss) \o Cause("one", <<ToPage>>) \o Cause("two", <<ToAlpha>>))}

\* The keys as text in order: a quoted title comes before a section sign.
MCKeys == <<PointerKey(ToBeta.to), PointerKey(ToAlpha.to), PointerKey(ToTypo.to), PointerKey(ToSolo.to)>>
MCPrecedes(k, l) == SelectInSeq(MCKeys, LAMBDA m : m = k) < SelectInSeq(MCKeys, LAMBDA m : m = l)

MCDrafts(f) ==
  IF f = "a.md"
  THEN {Humming(<<Live>>), Humming(<<Live, TheSolo>>)}
  ELSE {Humming(<<TheSolo>>), [Wordy EXCEPT !.extra = TRUE],
        Draft(<<Live>>, Headed(Hiss) \o Cause("notes", <<ToNotes>>) \o Cause("Gain", <<ToAlpha>>)),
        Draft(<<Live>>, Headed(Hiss) \o Cause("typo", <<ToSolo, ToTypo>>) \o Cause("Gain", <<ToAlpha>>))}
       \cup Broken

=============================================================================
