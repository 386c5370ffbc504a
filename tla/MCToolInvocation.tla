--------------------------- MODULE MCToolInvocation ---------------------------
(* The Sessions of a Host on one Workspace: two that edit the same file, a *)
(* command of a third that may write it too, and a tool that does not go   *)
(* through the arbiter.                                                    *)
EXTENDS ToolInvocationProofs, TLC

CONSTANTS edit, rival, command, fetch, f, ws, r1, r2

MCWorkspaceOf == [c \in Call |-> ws]
MCReach == [c \in Call |-> IF c = fetch THEN {} ELSE {f}]
Asked(requests) == [c \in Call |-> IF c \in DOMAIN requests THEN requests[c] ELSE << >>]
Budget(requests, stops, throws, crashes) ==
    [asked |-> Asked(requests), faults |-> [stops |-> stops, throws |-> throws, crashes |-> crashes]]

(* One ID over and over, with every fault; or several in competition. *)
MCBudgets ==
    { Budget(edit :> <<r1, r2, r1>>, 2, 2, 2),
      Budget(fetch :> <<r1, r2, r1>>, 2, 2, 2),
      Budget((edit :> <<r1, r1>>) @@ (rival :> <<r1>>), 2, 1, 1),
      Budget((edit :> <<r1>>) @@ (rival :> <<r1>>) @@ (command :> <<r1>>), 1, 0, 0) }
=============================================================================
