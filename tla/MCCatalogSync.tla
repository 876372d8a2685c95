----------------------------- MODULE MCCatalogSync -----------------------------
EXTENDS CatalogSync, TLC

CONSTANTS s1, s2

\* One subject with two versions and a new one, or one that has never been
\* registered and one with a single version.
Pasts == {s1 :> {1, 2} @@ s2 :> {}, s1 :> {} @@ s2 :> {1}}

\* The third version of s1 can only follow a deletion of the second, and the
\* second version of s2 one of the first: the text is registered again.
Texts == s1 :> <<"a", "b", "b">> @@ s2 :> <<"a", "a", "a">>

Uses == {<<s1, 1>>}
=============================================================================
