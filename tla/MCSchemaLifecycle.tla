--------------------------- MODULE MCSchemaLifecycle ---------------------------
EXTENDS SchemaLifecycle, TLC

CONSTANTS r1, r2, r3, a, b, c, full, kim

Symmetric == Permutations(Requests)

prodO == <<"prod", "o">>
devO  == <<"dev", "o">>

F(stem, x, form) == [stem |-> stem, schema |-> x, form |-> form]
Up(env, files)   == [kind |-> "upload", env |-> env, strategy |-> "gov:EnvPrefixed",
                     files |-> files, mode |-> full, owner |-> kim]
Bare(files)      == [Up("dev", files) EXCEPT !.strategy = "file name"]
Del(s, f)        == [kind |-> "delete", subject |-> s, force |-> f]
Look(s)          == [kind |-> "analyze", subject |-> s]
Back(s, v)       == [kind |-> "rollback", subject |-> s, version |-> v]
Set(s, m)        == [kind |-> "settings", subject |-> s, mode |-> m, owner |-> None]

Two == {prodO, devO}

\* The routes on a production subject; uploads of one file, of two with a bad
\* second one, and of two with a second whose type is refused, the first of them
\* to a development subject; the deletion of that one.
AllJobs == {Up("prod", <<F(<<"o">>, c, "good")>>),
            Bare(<<F(devO, c, "good"), F(prodO, b, "unparsable")>>),
            Bare(<<F(devO, c, "good"), F(prodO, b, "unsupported")>>),
            Del(prodO, FALSE), Del(prodO, TRUE), Look(prodO), Back(prodO, 1),
            Set(prodO, full), Set(prodO, None), Del(devO, FALSE)}
\* A production subject with three versions this service does not know of, or a
\* development one as long as one may be to be deleted without force.
Pasts == {(prodO :> <<a, b, c>>) @@ (devO :> <<>>), (prodO :> <<>>) @@ (devO :> <<a, b>>)}
=============================================================================
