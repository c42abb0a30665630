----------------------------- MODULE MCChatTurns -----------------------------
EXTENDS ChatTurns
CONSTANTS p, g
MCEvents == {p, g}
MCPrivate == {p}
=============================================================================
