----------------------------- MODULE MCSurfaces ------------------------------
(***************************************************************************)
(* What a person, an agent or another program meets, and what a run is     *)
(* made from, in one run: the requests the daemon admits, the browser      *)
(* application, the MCP endpoint, the inbound webhook, an external signer, *)
(* the desktop entries, and the plan of a manifest. They share no state    *)
(* that their properties are about, so a behaviour is one of one part.     *)
(***************************************************************************)
EXTENDS Gate, Shell, Mcp, MCInboundWebhook, Signer, Desktop, Plan

VARIABLE part
surfaceVars == <<gateVars, shellVars, mcpVars, vars, signerVars, desktopVars, planVars, part>>

SurfaceInit ==
        /\ part \in {"gate", "shell", "mcp", "webhook", "signer", "desktop", "plan"}
        /\ GateInit /\ ShellInit /\ McpInit /\ Init /\ SignerInit /\ DesktopInit /\ PlanInit
        \* a part at rest has one initial state
        /\ part # "desktop" => os = "win32" /\ running = CHOOSE p \in Program : TRUE
        /\ part # "plan" => planned = "count" /\ edges = <<>>

SurfaceNext ==
        /\ UNCHANGED part
        /\ \/ part = "gate" /\ GateNext
              /\ UNCHANGED <<shellVars, mcpVars, vars, signerVars, desktopVars, planVars>>
           \/ part = "shell" /\ ShellNext
              /\ UNCHANGED <<gateVars, mcpVars, vars, signerVars, desktopVars, planVars>>
           \/ part = "mcp" /\ McpNext
              /\ UNCHANGED <<gateVars, shellVars, vars, signerVars, desktopVars, planVars>>
           \/ part = "webhook" /\ Next
              /\ UNCHANGED <<gateVars, shellVars, mcpVars, signerVars, desktopVars, planVars>>
           \/ part = "signer" /\ SignerNext
              /\ UNCHANGED <<gateVars, shellVars, mcpVars, vars, desktopVars, planVars>>
           \/ part = "desktop" /\ DesktopNext
              /\ UNCHANGED <<gateVars, shellVars, mcpVars, vars, signerVars, planVars>>
           \/ part = "plan" /\ PlanNext
              /\ UNCHANGED <<gateVars, shellVars, mcpVars, vars, signerVars, desktopVars>>

SurfaceSpec == SurfaceInit /\ [][SurfaceNext]_surfaceVars
=============================================================================
