---------------------------- MODULE MCAlertScans ----------------------------
EXTENDS AlertScans
CONSTANTS old, new, h1, h2, h3
MCRule(p, m, s, q, o) == [pattern |-> p, mode |-> m, strict |-> s, political |-> q, about |-> o]
\* A longer visible rule around a protected one; a name that needs a context.
MCOld == {MCRule(<<"a", "b">>, "direct", FALSE, TRUE, {}),
          MCRule(<<"b">>, "direct", TRUE, FALSE, {})}
MCNew == {MCRule(<<"a", "b">>, "direct", TRUE, TRUE, {}),
          MCRule(<<"c">>, "context", FALSE, TRUE, {}),
          MCRule(<<"d">>, "support", FALSE, FALSE, {<<"c">>})}
MCEntries == (old :> MCOld) @@ (new :> MCNew)
MCBoth == [text |-> <<<<"a", "b">>>>, name |-> <<"a", "b">>]
MCContext == [text |-> <<<<"c">>, <<"c", "a", "d">>>>, name |-> <<"c">>]
MCLong == [text |-> <<<<"a", "b", "a">>, <<"b">>>>, name |-> <<"d">>]
MCPlain == [text |-> <<<<"e">>>>, name |-> <<"b">>]
MCMessages == {MCBoth, MCContext, MCLong, MCPlain}
MCPatterns == {<<"a">>, <<"a", "b">>}
MCCase(S, a, b, c, n) == [file |-> IF S = {} THEN <<"absent", {}>> ELSE <<"rules", S>>,
                          says |-> (h1 :> a) @@ (h2 :> b) @@ (h3 :> c), upsets |-> n]
\* Three calls at once and one upset; two and two; one and three.
MCCases ==
    {MCCase({}, MCBoth, MCPlain, MCPlain, 1)} \cup
    {MCCase({<<"a">>}, MCBoth, m, Absent, 2) : m \in {MCContext, MCLong}} \cup
    {MCCase(S, m, Absent, Absent, 3) : S \in {{}, {<<"a", "b">>}}, m \in {MCBoth, MCContext, MCLong}}
MCLegacy == {<<"d">>}
=============================================================================
