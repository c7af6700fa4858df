----------------------------- MODULE MCPlatform -----------------------------
EXTENDS Platform

MCOrgOf == [m \in Members |-> CASE m \in {"ann", "bob"} -> "team" [] m = "cid" -> "own" [] OTHER -> NoOrg]
MCRoleOf == [m \in Members |-> IF m = "bob" THEN "supervisor" ELSE "submitter"]

Bounds(p, m, r, t, k, l, c) ==
    [parts |-> p, members |-> m, requests |-> r, ticks |-> t, restarts |-> k, lines |-> l, calls |-> c]
MCScopes == {Bounds({"uploads"}, Members, 4, 0, 1, 0, 0),
             Bounds({"feedback", "limiter"}, {}, 4, 2, 1, 0, 0),
             Bounds({"uploads", "reviews"}, {"ann", "bob"}, 2, 1, 1, 0, 2),
             Bounds({"uploads", "reviews"}, {"ann"}, 2, 2, 0, 0, 3),
             Bounds({"uploads", "reviews", "prompts"}, {"ann"}, 4, 0, 1, 0, 1),
             Bounds({"uploads", "reviews", "prompts"}, {"ann"}, 3, 0, 1, 0, 3),
             Bounds({"uploads", "reviews", "library"}, {"ann"}, 3, 0, 0, 1, 2),
             Bounds({"uploads", "reviews", "library"}, {"ann"}, 2, 1, 0, 1, 3),
             Bounds({"library"}, {}, 2, 0, 1, 2, 0),
             Bounds({"library"}, {}, 2, 0, 0, 3, 0),
             Bounds({"golden"}, {}, 3, 0, 1, 0, 0),
             Bounds({"uploads", "feedback"}, {"ann"}, 3, 0, 1, 0, 0)}
MCGoldenScopes == {Bounds({"golden"}, {}, 3, 0, 1, 0, 0)}

Met == [parse |-> 100, retrieval |-> 100, citation |-> 100, sections |-> 7,
        hallucination |-> 0, actual |-> "PASS", expected |-> "PASS"]
MCCaseOf == [c \in Cases |-> CASE c = 1 -> Met
                               [] c = 2 -> [Met EXCEPT !.actual = "RISK"]
                               [] c = 3 -> [Met EXCEPT !.actual = "FAIL", !.expected = "FAIL"]
                               [] OTHER -> [Met EXCEPT !.sections = 6]]
=============================================================================
