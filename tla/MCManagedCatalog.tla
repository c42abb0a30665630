------------------------- MODULE MCManagedCatalog -------------------------
EXTENDS ManagedCatalog
E(cat, kind, mode, status, about) ==
    [cat |-> cat, kind |-> kind, mode |-> mode, strong |-> TRUE, status |-> status,
     about |-> about, reviewed |-> TRUE]
Pool == {E("political_cn", "event", "direct", "active", {}),
         E("political_cn", "leader", "direct", "active", {"p"}),
         E("political_cn", "leader", "contextual", "active", {"q"}),
         E("political_cn", "context", "support", "active", {"q"}),
         E("political_cn", "event", "direct", "shadow", {}),
         [E("gender_conflict", "plain", "direct", "active", {}) EXCEPT !.reviewed = FALSE],
         E("gender_conflict", "plain", "direct", "shadow", {})}
Cats == {"political_cn", "gender_conflict"}
MCRequired == Cats
Doc(version, enabled, hidden, entries) ==
    [version |-> version, cats |-> Cats, enabled |-> enabled, hidden |-> hidden,
     entries |-> entries]
MCContents ==
    {Doc(v, e, h, s) : v \in {1, 2}, e \in SUBSET Cats, h \in SUBSET Cats, s \in SUBSET Pool}
\* An old generation that hides its political category, one with contexts, two new builds.
MCContent ==
    [old |-> Doc(1, Cats, {"political_cn"}, {E("political_cn", "plain", "direct", "active", {})}),
     a |-> Doc(2, {"political_cn"}, {}, {E("political_cn", "event", "direct", "active", {})}),
     b |-> Doc(2, {"political_cn"}, {}, {E("political_cn", "leader", "direct", "active", {"p"})})]
MCGenerations == DOMAIN MCContent
MCInstalled == {"old"}
=============================================================================
