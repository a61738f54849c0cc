----------------------------- MODULE MCDisplay -----------------------------
(* Display for TLC: one or two regions and marks, the smallest budget.       *)
EXTENDS Display, TLC

MainOnly == {"main"}
ToolOnly == {"tool"}
BothTasks == {"main", "tool"}

RegionSymmetry == Permutations(Regions)

\* For the MCP server's task alone: no step and no property but the types looks at
\* the record of the last render, or at what a request draws once it is drawn.
ToDraw(t) == IF job[t].at = "draw" THEN job[t].req.draw ELSE Wrong

ToolView ==
  <<fb, committed, drv, panel, screen, trouble,
    [t \in Tasks |-> <<job[t].at, job[t].how, job[t].req.region,
                       job[t].req.commit, ToDraw(t)>>]>>
=============================================================================
