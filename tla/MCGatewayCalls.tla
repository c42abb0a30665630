--------------------------- MODULE MCGatewayCalls ---------------------------
EXTENDS GatewayCalls
CONSTANTS chat, talk, intent
MCCallers == {chat, talk, intent}
MCBusiness == {intent}
MCChat == {chat}
MCLanes == [chat |-> 1, business |-> 1]
MCLaneOf == [c \in MCCallers |-> IF c = intent THEN "business" ELSE "chat"]
MCAvailable == {"primary", "economy"}
=============================================================================
