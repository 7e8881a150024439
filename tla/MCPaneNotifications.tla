------------------------ MODULE MCPaneNotifications ------------------------
(* Two workspaces: a window with a split tab and a plain one, and a window *)
(* with a plain tab.                                                       *)
EXTENDS PaneNotifications

CONSTANTS a, b, c, d, t1, t2, t3, w1, w2, ws1, ws2

MCLeaves == t1 :> <<a, b>> @@ t2 :> <<c>> @@ t3 :> <<d>>
MCTabList == w1 :> <<t1, t2>> @@ w2 :> <<t3>>
MCWorkspaceOf == w1 :> ws1 @@ w2 :> ws2
=============================================================================
