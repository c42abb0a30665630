---------------------------- MODULE MCScopeMemory ----------------------------
EXTENDS ScopeMemory
CONSTANTS w1, w2, o1
MCWorkers == {w1, w2}
MCOperators == {o1}
\* One worker runs in a process of its own.
MCProcess == [p \in {w1, w2, o1, Archive} |-> IF p = w2 THEN 2 ELSE 1]
\* Jobs that write to different tables are looked at one at a time.
EachJob == {<<"group", {"facts"}>>, <<"group", {"relationship"}>>,
            <<"private", {"facts"}>>, <<"private", {"summary"}>>, <<"private", {"relationship"}>>}
==============================================================================
