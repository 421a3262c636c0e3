----------------------------- MODULE MCDiffPolicy -----------------------------
(* Paths on both sides of every boundary of the pattern lists: a directory's *)
(* name alone, below it, and elsewhere; a manifest at the top and nested.    *)
EXTENDS DiffPolicy

MCPaths == {<<"deploy">>, <<"deploy", "go.mod">>, <<"src", "deploy", "x">>,
            <<"Dockerfile">>, <<"api", "Dockerfile">>, <<".mcp.json">>,
            <<"go.mod">>, <<"api", "go.mod">>, <<"go.mod", "x">>, <<"package.json">>}

MCRenamed == {<<"deploy", "x">>}

Line(m, g) == [marker |-> m, globs |-> g]
MCBodies == {
    {},
    {Line(FALSE, {Exact(<<"go.mod">>)})},
    {Line(TRUE, {Exact(<<"go.mod">>)}), Line(FALSE, {Exact(<<"package.json">>)})},
    {Line(TRUE, {Anywhere(<<"go.mod">>), Under(<<"deploy">>)})},
    {Line(TRUE, {Star({"package.json", "package-lock.json"}), AnyName({"Dockerfile", "go.mod"})})}}
=============================================================================
