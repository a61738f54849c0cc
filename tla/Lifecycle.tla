------------------------------ MODULE Lifecycle ------------------------------
(***************************************************************************)
(* What the firmware promises of its runtime, without tasks, radio or      *)
(* configuration: the modes a device goes through, the one HTTP service it *)
(* offers, and in which mode a service may be opened or closed.            *)
(***************************************************************************)
VARIABLES mode, service

lifecycle == <<mode, service>>

Modes    == {"BOOTING", "UNPROVISIONED", "PROVISIONING", "CONNECTING",
             "CONNECTED_IDLE", "ERROR_RECOVERY"}
Services == {"none", "portal", "mcp"}

\* the modes that may follow one another, and the services offered then
Edges ==
  { <<"BOOTING", "UNPROVISIONED", "none">>,
    <<"BOOTING", "CONNECTING", "none">>,
    <<"UNPROVISIONED", "PROVISIONING", "portal">>,
    <<"UNPROVISIONED", "ERROR_RECOVERY", "none">>,
    <<"PROVISIONING", "CONNECTING", "none">>,
    <<"PROVISIONING", "ERROR_RECOVERY", "none">>,
    <<"CONNECTING", "CONNECTED_IDLE", "none">>,
    <<"CONNECTING", "ERROR_RECOVERY", "none">>,
    <<"ERROR_RECOVERY", "PROVISIONING", "portal">>,
    <<"ERROR_RECOVERY", "UNPROVISIONED", "none">>,
    <<"CONNECTED_IDLE", "UNPROVISIONED", "none">>,
    <<"CONNECTED_IDLE", "UNPROVISIONED", "mcp">> }

Start == mode = "BOOTING" /\ service = "none"

ChangeMode == <<mode, mode', service>> \in Edges /\ service' = service

OpenPortal ==
  /\ service = "none" /\ service' = "portal"
  /\ mode \in {"UNPROVISIONED", "ERROR_RECOVERY"} /\ mode' = mode

ClosePortal ==
  /\ service = "portal" /\ service' = "none"
  /\ mode = "PROVISIONING" /\ mode' = mode

OpenMcp ==
  /\ service = "none" /\ service' = "mcp"
  /\ mode = "CONNECTED_IDLE" /\ mode' = mode

CloseMcp ==
  /\ service = "mcp" /\ service' = "none"
  /\ mode = "UNPROVISIONED" /\ mode' = mode

Reboot == mode' = "BOOTING" /\ service' = "none"

Step == ChangeMode \/ OpenPortal \/ ClosePortal \/ OpenMcp \/ CloseMcp \/ Reboot

Behaviour == Start /\ [][Step]_lifecycle

=============================================================================
