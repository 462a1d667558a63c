------------------------------ MODULE MCToolBatch ------------------------------
(* Bounds: four calls, two with one key and two with another, which plan mode *)
(* may allow; each touches nothing or writes the one file.  Which accesses conflict is the business *)
(* of NoConflictMeansIndependent (ToolBatchProofs). *)
EXTENDS ToolBatch

CONSTANTS x, y      \* keys

MCKeys == {x, y}
MCKeyOf == <<x, y, x, y>>
MCPaths == {<<"repo">>, <<"repo", "a">>}
MCAccesses == {{}, {File("write", <<"repo", "a">>, FALSE)}}
MCNone == {}
MCFirst == {1}
MCPlan == {2, 4}
=============================================================================
