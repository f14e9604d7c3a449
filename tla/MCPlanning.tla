----------------------------- MODULE MCPlanning -----------------------------
(* Four stories, every graph of dependencies among them, and six scopes    *)
(* over the files a/x, a/y and b.                                          *)
EXTENDS Planning, TLC

Only(p)  == [path |-> p, dir |-> FALSE]
Below(p) == [path |-> p, dir |-> TRUE]
May(allowed, forbidden) == [allowed |-> allowed, forbidden |-> forbidden, repeated |-> FALSE]

MCScope == {
    May({Below(<<"a">>)}, {}),
    May({Below(<<"a">>)}, {Only(<<"a", "x">>)}),
    May({Only(<<"a", "x">>)}, {}),
    May({Only(<<"a", "y">>), Only(<<"b">>)}, {Only(<<"b">>)}),
    May({Only(<<"b">>)}, {}),
    May({}, {}) }

MCFiles == {<<"a", "x">>, <<"a", "y">>, <<"b">>}
Swap == Permutations(Story)
=============================================================================
