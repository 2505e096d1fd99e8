---------------------------- MODULE MCPlanning ----------------------------
(* Small answers for Planning: every DAG over three keys with dependency    *)
(* lists of up to two names, some over four, and all pairs and some triples *)
(* of peers over a dozen patterns.                                          *)
EXTENDS Planning

K == 1 .. 4

Lists(S, n) == UNION {[1 .. k -> S] : k \in 0 .. n}

Filled(S, f) == [k \in K |-> IF k \in S THEN f[k] ELSE << >>]

MCDags ==
    {[ids |-> ids, deps |-> Filled(1 .. 3, f)] :
        ids \in {<<2, 1, 3>>, <<1, 2, 1>>, <<3, 1>>, << >>}, f \in [1 .. 3 -> Lists(1 .. 3, 2)]}
    \cup {[ids |-> <<4, 2, 1, 3>>, deps |-> f] : f \in [K -> Lists(K, 1)]}
    \cup {[ids |-> <<1, 2, 3, 4, 1>>, deps |-> Filled({}, << >>)]}

MCPatterns ==
    {<<"*">>, <<"src", "/", "*">>, <<"src", "/", "a", "/", "*">>,
     <<"src", "/", "b", "/", "*">>, <<"docs", "/", "*">>,
     <<"src", "/", "a", ".rs">>, <<"docs">>, <<"docs", "/", "a", ".md">>,
     <<"**/", "*", ".md">>, <<"src", "/", "**/", "a", ".md">>, <<"a", "*">>,
     <<"*", "b">>, <<"src", "/", "[">>}

Names == {<<"src">>, <<"docs">>, <<"a">>, <<"b">>, <<"a", "b">>, <<"a", ".rs">>,
          <<"a", ".md">>, <<"file", ".rs">>}
MCPaths == Names \cup {x \o <<"/">> \o y : x, y \in Names}
                 \cup {x \o <<"/">> \o y \o <<"/">> \o z : x, y, z \in Names}
                 \cup UNION {Probes(p) : p \in {q \in MCPatterns : Tree(q)}}

Two == {{p} : p \in MCPatterns}
         \cup {{<<"docs", "/", "*">>, p} : p \in MCPatterns} \cup {{}}
MCBatches ==
    {<<{p}>> : p \in MCPatterns} \cup {<<a, b>> : a, b \in Two}
    \cup {<<{p}, {q}, {r}>> : p, q, r \in {x \in MCPatterns : Len(x) >= 3}}

MCAllowed == {<<"src", "/", "*">>, <<"docs", "/", "a", ".md">>}
MCForbidden == {<<"src", "/", "b", "/", "*">>, <<"src", "/", "a", ".rs">>}
===========================================================================
