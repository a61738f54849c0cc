-------------------------- MODULE AppRuntime_proofs ---------------------------
(***************************************************************************)
(* The runtime as a whole: the portal can be reached, the main loop has a  *)
(* way on, no write is lost, and the tasks implement the lifecycle.        *)
(***************************************************************************)
EXTENDS AppController_proofs

\* A portal is served only behind its access point.
ReachInv == PortalReachable /\ (pc = "http_start" => radio.ap)

\* Where the network must be gone, where a submitted one must be there, and
\* where the link is up unless it was lost.
StrandInv ==
  /\ NeverStranded
  /\ pc \in {"run_persist", "reset_persist", "disconnect", "start_provisioning",
             "mcp_stop", "start_ap", "http_start"} => ~provisioned
  /\ pc \in {"portal_stop", "stop_ap"} => prov.state = "CONNECTED" /\ provisioned
  /\ pc = "set_active" => portal.armed
  /\ pc \in {"discovery", "mcp_start", "mcp_policy"} => cutOff \/ radio.link

\* The mode at each point of the main task.
ModeInv ==
  /\ pc \in {"init", "run", "run_persist"} => state = "BOOTING"
  /\ pc = "connect" => state \in {"BOOTING", "PROVISIONING"}
  /\ pc = "await_link" => state = "CONNECTING"
  /\ pc \in {"reset_portal", "reset_persist"} => state = "ERROR_RECOVERY"
  /\ pc \in {"portal_stop", "stop_ap"} => state = "PROVISIONING"
  /\ pc = "disconnect" => state = "UNPROVISIONED"
  /\ pc \in {"start_provisioning", "mcp_stop", "start_ap", "http_start",
             "set_handlers", "set_active"}
       => state \in {"UNPROVISIONED", "ERROR_RECOVERY"}
  /\ pc \in {"start_provisioning", "mcp_stop"} /\ mcpUp => state = "UNPROVISIONED"
  /\ pc = "idle" => state \in {"PROVISIONING", "CONNECTED_IDLE", "ERROR_RECOVERY"}
  /\ pc = "idle" /\ mcpUp => state = "CONNECTED_IDLE"

RuntimeInv == ReachInv /\ StrandInv /\ ModeInv /\ BlobMatchesRam

\* Every step keeps the four parts, one case per action.
LEMMA RuntimeNext ==
  TypeOK /\ SafetyInv /\ RuntimeInv /\ [Next]_vars => RuntimeInv'
<1> SUFFICES ASSUME TypeOK, SafetyInv, RuntimeInv, [Next]_vars PROVE RuntimeInv'
  OBVIOUS
<1> USE ConstantsAssumption
<1>1. CASE InitOk
  <2>1. ReachInv'
    BY <1>1 DEF InitOk, Goto, history, RuntimeInv, ReachInv, PortalReachable
  <2>2. StrandInv'
    BY <1>1 DEF InitOk, Goto, history, RuntimeInv, StrandInv, NeverStranded,
        provisioned
  <2>3. ModeInv'
    BY <1>1 DEF InitOk, Goto, history, RuntimeInv, ModeInv
  <2>4. BlobMatchesRam'
    BY <1>1 DEF InitOk, Goto, history, RuntimeInv, BlobMatchesRam, MainWrites,
        PostWrites, ToolWrites
  <2> QED  BY <2>1, <2>2, <2>3, <2>4 DEF RuntimeInv
<1>2. CASE InitFails
  <2>1. ReachInv'
    BY <1>2 DEF InitFails, Goto, cfgVars, svcVars, history, RuntimeInv,
        ReachInv, PortalReachable
  <2>2. StrandInv'
    BY <1>2 DEF InitFails, Goto, cfgVars, svcVars, history, RuntimeInv,
        StrandInv, NeverStranded, provisioned
  <2>3. ModeInv'
    BY <1>2 DEF InitFails, Goto, cfgVars, svcVars, history, RuntimeInv, ModeInv
  <2>4. BlobMatchesRam'
    BY <1>2 DEF InitFails, Goto, cfgVars, svcVars, history, RuntimeInv,
        BlobMatchesRam, MainWrites, PostWrites, ToolWrites
  <2> QED  BY <2>1, <2>2, <2>3, <2>4 DEF RuntimeInv
<1>3. CASE RunButtonPressed
  <2>1. ReachInv'
    BY <1>3 DEF RunButtonPressed, Goto, svcVars, history, RuntimeInv, ReachInv,
        PortalReachable
  <2>2. StrandInv'
    BY <1>3 DEF RunButtonPressed, Goto, svcVars, history, RuntimeInv, StrandInv,
        NeverStranded, provisioned
  <2>3. ModeInv'
    BY <1>3 DEF RunButtonPressed, Goto, svcVars, history, RuntimeInv, ModeInv
  <2>4. BlobMatchesRam'
    BY <1>3 DEF RunButtonPressed, Goto, svcVars, history, RuntimeInv,
        BlobMatchesRam, MainWrites, PostWrites, ToolWrites
  <2> QED  BY <2>1, <2>2, <2>3, <2>4 DEF RuntimeInv
<1>4. CASE RunButtonPersist
  <2>1. ReachInv'
    BY <1>4 DEF RunButtonPersist, Goto, Persist, svcVars, PersistOk,
        PersistFails, RuntimeInv, ReachInv, PortalReachable
  <2>2. StrandInv'
    BY <1>4 DEF RunButtonPersist, Goto, Persist, svcVars, PersistOk,
        PersistFails, RuntimeInv, StrandInv, NeverStranded, provisioned
  <2>3. ModeInv'
    BY <1>4 DEF RunButtonPersist, Goto, Persist, svcVars, PersistOk,
        PersistFails, RuntimeInv, ModeInv
  <2>4. BlobMatchesRam'
    BY <1>4 DEF RunButtonPersist, Goto, Persist, svcVars, PersistOk,
        PersistFails, RuntimeInv, BlobMatchesRam, MainWrites, PostWrites,
        ToolWrites
  <2> QED  BY <2>1, <2>2, <2>3, <2>4 DEF RuntimeInv
<1>5. CASE RunUnprovisioned
  <2>1. ReachInv'
    BY <1>5 DEF RunUnprovisioned, Goto, provisioned, cfgVars, svcVars, history,
        RuntimeInv, ReachInv, PortalReachable
  <2>2. StrandInv'
    BY <1>5 DEF RunUnprovisioned, Goto, provisioned, cfgVars, svcVars, history,
        RuntimeInv, StrandInv, NeverStranded
  <2>3. ModeInv'
    BY <1>5 DEF RunUnprovisioned, Goto, provisioned, cfgVars, svcVars, history,
        RuntimeInv, ModeInv
  <2>4. BlobMatchesRam'
    BY <1>5 DEF RunUnprovisioned, Goto, provisioned, cfgVars, svcVars, history,
        RuntimeInv, BlobMatchesRam, MainWrites, PostWrites, ToolWrites
  <2> QED  BY <2>1, <2>2, <2>3, <2>4 DEF RuntimeInv
<1>6. CASE RunProvisioned
  <2>1. ReachInv'
    BY <1>6 DEF RunProvisioned, Goto, provisioned, cfgVars, svcVars, history,
        RuntimeInv, ReachInv, PortalReachable
  <2>2. StrandInv'
    BY <1>6 DEF RunProvisioned, Goto, provisioned, cfgVars, svcVars, history,
        RuntimeInv, StrandInv, NeverStranded
  <2>3. ModeInv'
    BY <1>6 DEF RunProvisioned, Goto, provisioned, cfgVars, svcVars, history,
        RuntimeInv, ModeInv
  <2>4. BlobMatchesRam'
    BY <1>6 DEF RunProvisioned, Goto, provisioned, cfgVars, svcVars, history,
        RuntimeInv, BlobMatchesRam, MainWrites, PostWrites, ToolWrites
  <2> QED  BY <2>1, <2>2, <2>3, <2>4 DEF RuntimeInv
<1>7. CASE ConnectBegin
  <2>1. ReachInv'
    BY <1>7 DEF ConnectBegin, Goto, provisioned, cfgVars, svcVars, history,
        RuntimeInv, ReachInv, PortalReachable, SafetyInv, PortalPlaces,
        McpPlaces
  <2>2. StrandInv'
    BY <1>7 DEF ConnectBegin, Goto, provisioned, cfgVars, svcVars, history,
        RuntimeInv, StrandInv, NeverStranded
  <2>3. ModeInv'
    BY <1>7 DEF ConnectBegin, Goto, provisioned, cfgVars, svcVars, history,
        RuntimeInv, ModeInv
  <2>4. BlobMatchesRam'
    BY <1>7 DEF ConnectBegin, Goto, provisioned, cfgVars, svcVars, history,
        RuntimeInv, BlobMatchesRam, MainWrites, PostWrites, ToolWrites
  <2> QED  BY <2>1, <2>2, <2>3, <2>4 DEF RuntimeInv
<1>8. CASE ConnectOk
  <2>1. ReachInv'
    BY <1>8 DEF ConnectOk, Goto, cfgVars, svcVars, history, RuntimeInv,
        ReachInv, PortalReachable
  <2>2. StrandInv'
    BY <1>8 DEF ConnectOk, Goto, cfgVars, svcVars, history, RuntimeInv,
        StrandInv, NeverStranded, provisioned, TypeOK, ServiceTypeOK
  <2>3. ModeInv'
    BY <1>8 DEF ConnectOk, Goto, cfgVars, svcVars, history, RuntimeInv, ModeInv
  <2>4. BlobMatchesRam'
    BY <1>8 DEF ConnectOk, Goto, cfgVars, svcVars, history, RuntimeInv,
        BlobMatchesRam, MainWrites, PostWrites, ToolWrites
  <2> QED  BY <2>1, <2>2, <2>3, <2>4 DEF RuntimeInv
<1>9. CASE ConnectFails
  <2>1. ReachInv'
    BY <1>9 DEF ConnectFails, Goto, cfgVars, svcVars, history, RuntimeInv,
        ReachInv, PortalReachable
  <2>2. StrandInv'
    BY <1>9 DEF ConnectFails, Goto, cfgVars, svcVars, history, RuntimeInv,
        StrandInv, NeverStranded, provisioned
  <2>3. ModeInv'
    BY <1>9 DEF ConnectFails, Goto, cfgVars, svcVars, history, RuntimeInv,
        ModeInv
  <2>4. BlobMatchesRam'
    BY <1>9 DEF ConnectFails, Goto, cfgVars, svcVars, history, RuntimeInv,
        BlobMatchesRam, MainWrites, PostWrites, ToolWrites
  <2> QED  BY <2>1, <2>2, <2>3, <2>4 DEF RuntimeInv
<1>10. CASE ResetPortal
  <2>1. ReachInv'
    BY <1>10 DEF ResetPortal, Goto, PortalQuiet, ClosePortal, history,
        RuntimeInv, ReachInv, PortalReachable
  <2>2. StrandInv'
    BY <1>10 DEF ResetPortal, Goto, PortalQuiet, ClosePortal, history,
        RuntimeInv, StrandInv, NeverStranded, provisioned
  <2>3. ModeInv'
    BY <1>10 DEF ResetPortal, Goto, PortalQuiet, ClosePortal, history,
        RuntimeInv, ModeInv
  <2>4. BlobMatchesRam'
    BY <1>10 DEF ResetPortal, Goto, PortalQuiet, ClosePortal, history,
        RuntimeInv, BlobMatchesRam, MainWrites, PostWrites, ToolWrites
  <2> QED  BY <2>1, <2>2, <2>3, <2>4 DEF RuntimeInv
<1>11. CASE ResetPersist
  <2>1. ReachInv'
    BY <1>11 DEF ResetPersist, Goto, Persist, StopApOk, StopApFails, svcVars,
        PersistOk, PersistFails, RuntimeInv, ReachInv, PortalReachable,
        SafetyInv, PortalPlaces, McpPlaces
  <2>2. StrandInv'
    BY <1>11 DEF ResetPersist, Goto, Persist, StopApOk, StopApFails, svcVars,
        PersistOk, PersistFails, RuntimeInv, StrandInv, NeverStranded,
        provisioned
  <2>3. ModeInv'
    BY <1>11 DEF ResetPersist, Goto, Persist, StopApOk, StopApFails, svcVars,
        PersistOk, PersistFails, RuntimeInv, ModeInv, SafetyInv, PortalPlaces,
        McpPlaces
  <2>4. BlobMatchesRam'
    BY <1>11 DEF ResetPersist, Goto, Persist, StopApOk, StopApFails, svcVars,
        PersistOk, PersistFails, RuntimeInv, BlobMatchesRam, MainWrites,
        PostWrites, ToolWrites
  <2> QED  BY <2>1, <2>2, <2>3, <2>4 DEF RuntimeInv
<1>12. CASE StartDiscovery
  <2>1. ReachInv'
    BY <1>12 DEF StartDiscovery, Goto, cfgVars, svcVars, history, RuntimeInv,
        ReachInv, PortalReachable
  <2>2. StrandInv'
    BY <1>12 DEF StartDiscovery, Goto, cfgVars, svcVars, history, RuntimeInv,
        StrandInv, NeverStranded, provisioned
  <2>3. ModeInv'
    BY <1>12 DEF StartDiscovery, Goto, cfgVars, svcVars, history, RuntimeInv,
        ModeInv
  <2>4. BlobMatchesRam'
    BY <1>12 DEF StartDiscovery, Goto, cfgVars, svcVars, history, RuntimeInv,
        BlobMatchesRam, MainWrites, PostWrites, ToolWrites
  <2> QED  BY <2>1, <2>2, <2>3, <2>4 DEF RuntimeInv
<1>13. CASE StartDiscoveryFails
  <2>1. ReachInv'
    BY <1>13 DEF StartDiscoveryFails, ReturnErr, cfgVars, svcVars, history,
        RuntimeInv, ReachInv, PortalReachable
  <2>2. StrandInv'
    BY <1>13 DEF StartDiscoveryFails, ReturnErr, cfgVars, svcVars, history,
        RuntimeInv, StrandInv, NeverStranded, provisioned, SafetyInv,
        PortalPlaces, McpPlaces
  <2>3. ModeInv'
    BY <1>13 DEF StartDiscoveryFails, ReturnErr, cfgVars, svcVars, history,
        RuntimeInv, ModeInv, SafetyInv, PortalPlaces, McpPlaces
  <2>4. BlobMatchesRam'
    BY <1>13 DEF StartDiscoveryFails, ReturnErr, cfgVars, svcVars, history,
        RuntimeInv, BlobMatchesRam, MainWrites, PostWrites, ToolWrites
  <2> QED  BY <2>1, <2>2, <2>3, <2>4 DEF RuntimeInv
<1>14. CASE McpStart
  <2>1. ReachInv'
    BY <1>14 DEF McpStart, Goto, cfgVars, history, RuntimeInv, ReachInv,
        PortalReachable
  <2>2. StrandInv'
    BY <1>14 DEF McpStart, Goto, cfgVars, history, RuntimeInv, StrandInv,
        NeverStranded, provisioned
  <2>3. ModeInv'
    BY <1>14 DEF McpStart, Goto, cfgVars, history, RuntimeInv, ModeInv
  <2>4. BlobMatchesRam'
    BY <1>14 DEF McpStart, Goto, cfgVars, history, RuntimeInv, BlobMatchesRam,
        MainWrites, PostWrites, ToolWrites
  <2> QED  BY <2>1, <2>2, <2>3, <2>4 DEF RuntimeInv
<1>15. CASE McpStartFails
  <2>1. ReachInv'
    BY <1>15 DEF McpStartFails, ReturnErr, cfgVars, svcVars, history,
        RuntimeInv, ReachInv, PortalReachable
  <2>2. StrandInv'
    BY <1>15 DEF McpStartFails, ReturnErr, cfgVars, svcVars, history,
        RuntimeInv, StrandInv, NeverStranded, provisioned, SafetyInv,
        PortalPlaces, McpPlaces
  <2>3. ModeInv'
    BY <1>15 DEF McpStartFails, ReturnErr, cfgVars, svcVars, history,
        RuntimeInv, ModeInv, SafetyInv, PortalPlaces, McpPlaces
  <2>4. BlobMatchesRam'
    BY <1>15 DEF McpStartFails, ReturnErr, cfgVars, svcVars, history,
        RuntimeInv, BlobMatchesRam, MainWrites, PostWrites, ToolWrites
  <2> QED  BY <2>1, <2>2, <2>3, <2>4 DEF RuntimeInv
<1>16. CASE McpPolicy
  <2>1. ReachInv'
    BY <1>16 DEF McpPolicy, ReturnOk, hasToken, cfgVars, svcVars, history,
        RuntimeInv, ReachInv, PortalReachable
  <2>2. StrandInv'
    BY <1>16 DEF McpPolicy, ReturnOk, hasToken, cfgVars, svcVars, history,
        RuntimeInv, StrandInv, NeverStranded, provisioned, SafetyInv,
        PortalPlaces, McpPlaces
  <2>3. ModeInv'
    BY <1>16 DEF McpPolicy, ReturnOk, hasToken, cfgVars, svcVars, history,
        RuntimeInv, ModeInv, SafetyInv, PortalPlaces, McpPlaces
  <2>4. BlobMatchesRam'
    BY <1>16 DEF McpPolicy, ReturnOk, hasToken, cfgVars, svcVars, history,
        RuntimeInv, BlobMatchesRam, MainWrites, PostWrites, ToolWrites
  <2> QED  BY <2>1, <2>2, <2>3, <2>4 DEF RuntimeInv
<1>17. CASE StartProvisioning
  <2>1. ReachInv'
    BY <1>17 DEF StartProvisioning, Goto, cfgVars, svcVars, history, RuntimeInv,
        ReachInv, PortalReachable
  <2>2. StrandInv'
    BY <1>17 DEF StartProvisioning, Goto, cfgVars, svcVars, history, RuntimeInv,
        StrandInv, NeverStranded, provisioned
  <2>3. ModeInv'
    BY <1>17 DEF StartProvisioning, Goto, cfgVars, svcVars, history, RuntimeInv,
        ModeInv
  <2>4. BlobMatchesRam'
    BY <1>17 DEF StartProvisioning, Goto, cfgVars, svcVars, history, RuntimeInv,
        BlobMatchesRam, MainWrites, PostWrites, ToolWrites
  <2> QED  BY <2>1, <2>2, <2>3, <2>4 DEF RuntimeInv
<1>18. CASE McpStop
  <2>1. ReachInv'
    BY <1>18 DEF McpStop, Goto, McpQuiet, cfgVars, history, RuntimeInv,
        ReachInv, PortalReachable
  <2>2. StrandInv'
    BY <1>18 DEF McpStop, Goto, McpQuiet, cfgVars, history, RuntimeInv,
        StrandInv, NeverStranded, provisioned
  <2>3. ModeInv'
    BY <1>18 DEF McpStop, Goto, McpQuiet, cfgVars, history, RuntimeInv, ModeInv
  <2>4. BlobMatchesRam'
    BY <1>18 DEF McpStop, Goto, McpQuiet, cfgVars, history, RuntimeInv,
        BlobMatchesRam, MainWrites, PostWrites, ToolWrites
  <2> QED  BY <2>1, <2>2, <2>3, <2>4 DEF RuntimeInv
<1>19. CASE StartAp
  <2>1. ReachInv'
    BY <1>19 DEF StartAp, Goto, cfgVars, svcVars, history, RuntimeInv, ReachInv,
        PortalReachable
  <2>2. StrandInv'
    BY <1>19 DEF StartAp, Goto, cfgVars, svcVars, history, RuntimeInv,
        StrandInv, NeverStranded, provisioned
  <2>3. ModeInv'
    BY <1>19 DEF StartAp, Goto, cfgVars, svcVars, history, RuntimeInv, ModeInv
  <2>4. BlobMatchesRam'
    BY <1>19 DEF StartAp, Goto, cfgVars, svcVars, history, RuntimeInv,
        BlobMatchesRam, MainWrites, PostWrites, ToolWrites
  <2> QED  BY <2>1, <2>2, <2>3, <2>4 DEF RuntimeInv
<1>20. CASE StartApFails
  <2>1. ReachInv'
    BY <1>20 DEF StartApFails, ReturnErr, cfgVars, svcVars, history, RuntimeInv,
        ReachInv, PortalReachable, SafetyInv, PortalPlaces, McpPlaces
  <2>2. StrandInv'
    BY <1>20 DEF StartApFails, ReturnErr, cfgVars, svcVars, history, RuntimeInv,
        StrandInv, NeverStranded, provisioned
  <2>3. ModeInv'
    BY <1>20 DEF StartApFails, ReturnErr, cfgVars, svcVars, history, RuntimeInv,
        ModeInv, SafetyInv, PortalPlaces, McpPlaces
  <2>4. BlobMatchesRam'
    BY <1>20 DEF StartApFails, ReturnErr, cfgVars, svcVars, history, RuntimeInv,
        BlobMatchesRam, MainWrites, PostWrites, ToolWrites
  <2> QED  BY <2>1, <2>2, <2>3, <2>4 DEF RuntimeInv
<1>21. CASE HttpStart
  <2>1. ReachInv'
    BY <1>21 DEF HttpStart, Goto, cfgVars, history, RuntimeInv, ReachInv,
        PortalReachable
  <2>2. StrandInv'
    BY <1>21 DEF HttpStart, Goto, cfgVars, history, RuntimeInv, StrandInv,
        NeverStranded, provisioned
  <2>3. ModeInv'
    BY <1>21 DEF HttpStart, Goto, cfgVars, history, RuntimeInv, ModeInv
  <2>4. BlobMatchesRam'
    BY <1>21 DEF HttpStart, Goto, cfgVars, history, RuntimeInv, BlobMatchesRam,
        MainWrites, PostWrites, ToolWrites
  <2> QED  BY <2>1, <2>2, <2>3, <2>4 DEF RuntimeInv
<1>22. CASE HttpStartFails
  <2>1. ReachInv'
    BY <1>22 DEF HttpStartFails, ReturnErr, StopApOk, StopApFails, cfgVars,
        svcVars, history, RuntimeInv, ReachInv, PortalReachable
  <2>2. StrandInv'
    BY <1>22 DEF HttpStartFails, ReturnErr, StopApOk, StopApFails, cfgVars,
        svcVars, history, RuntimeInv, StrandInv, NeverStranded, provisioned
  <2>3. ModeInv'
    BY <1>22 DEF HttpStartFails, ReturnErr, StopApOk, StopApFails, cfgVars,
        svcVars, history, RuntimeInv, ModeInv, SafetyInv, PortalPlaces,
        McpPlaces
  <2>4. BlobMatchesRam'
    BY <1>22 DEF HttpStartFails, ReturnErr, StopApOk, StopApFails, cfgVars,
        svcVars, history, RuntimeInv, BlobMatchesRam, MainWrites, PostWrites,
        ToolWrites
  <2> QED  BY <2>1, <2>2, <2>3, <2>4 DEF RuntimeInv
<1>23. CASE SetHandlers
  <2>1. ReachInv'
    BY <1>23 DEF SetHandlers, Goto, cfgVars, history, RuntimeInv, ReachInv,
        PortalReachable
  <2>2. StrandInv'
    BY <1>23 DEF SetHandlers, Goto, cfgVars, history, RuntimeInv, StrandInv,
        NeverStranded, provisioned
  <2>3. ModeInv'
    BY <1>23 DEF SetHandlers, Goto, cfgVars, history, RuntimeInv, ModeInv
  <2>4. BlobMatchesRam'
    BY <1>23 DEF SetHandlers, Goto, cfgVars, history, RuntimeInv,
        BlobMatchesRam, MainWrites, PostWrites, ToolWrites
  <2> QED  BY <2>1, <2>2, <2>3, <2>4 DEF RuntimeInv
<1>24. CASE SetActive
  <2>1. ReachInv'
    BY <1>24 DEF SetActive, ReturnOk, cfgVars, history, RuntimeInv, ReachInv,
        PortalReachable
  <2>2. StrandInv'
    BY <1>24 DEF SetActive, ReturnOk, cfgVars, history, RuntimeInv, StrandInv,
        NeverStranded, provisioned
  <2>3. ModeInv'
    BY <1>24 DEF SetActive, ReturnOk, cfgVars, history, RuntimeInv, ModeInv,
        SafetyInv, PortalPlaces, McpPlaces
  <2>4. BlobMatchesRam'
    BY <1>24 DEF SetActive, ReturnOk, cfgVars, history, RuntimeInv,
        BlobMatchesRam, MainWrites, PostWrites, ToolWrites
  <2> QED  BY <2>1, <2>2, <2>3, <2>4 DEF RuntimeInv
<1>25. CASE TickUnprovisioned
  <2>1. ReachInv'
    BY <1>25 DEF TickUnprovisioned, Goto, provisioned, cfgVars, svcVars,
        history, RuntimeInv, ReachInv, PortalReachable
  <2>2. StrandInv'
    BY <1>25 DEF TickUnprovisioned, Goto, provisioned, cfgVars, svcVars,
        history, RuntimeInv, StrandInv, NeverStranded
  <2>3. ModeInv'
    BY <1>25 DEF TickUnprovisioned, Goto, provisioned, cfgVars, svcVars,
        history, RuntimeInv, ModeInv
  <2>4. BlobMatchesRam'
    BY <1>25 DEF TickUnprovisioned, Goto, provisioned, cfgVars, svcVars,
        history, RuntimeInv, BlobMatchesRam, MainWrites, PostWrites, ToolWrites
  <2> QED  BY <2>1, <2>2, <2>3, <2>4 DEF RuntimeInv
<1>26. CASE TickSubmitted
  <2>1. ReachInv'
    BY <1>26 DEF TickSubmitted, Goto, provisioned, cfgVars, svcVars, history,
        RuntimeInv, ReachInv, PortalReachable
  <2>2. StrandInv'
    BY <1>26 DEF TickSubmitted, Goto, provisioned, cfgVars, svcVars, history,
        RuntimeInv, StrandInv, NeverStranded
  <2>3. ModeInv'
    BY <1>26 DEF TickSubmitted, Goto, provisioned, cfgVars, svcVars, history,
        RuntimeInv, ModeInv
  <2>4. BlobMatchesRam'
    BY <1>26 DEF TickSubmitted, Goto, provisioned, cfgVars, svcVars, history,
        RuntimeInv, BlobMatchesRam, MainWrites, PostWrites, ToolWrites
  <2> QED  BY <2>1, <2>2, <2>3, <2>4 DEF RuntimeInv
<1>27. CASE Disconnect
  <2>1. ReachInv'
    BY <1>27 DEF Disconnect, Goto, cfgVars, svcVars, history, RuntimeInv,
        ReachInv, PortalReachable
  <2>2. StrandInv'
    BY <1>27 DEF Disconnect, Goto, cfgVars, svcVars, history, RuntimeInv,
        StrandInv, NeverStranded, provisioned
  <2>3. ModeInv'
    BY <1>27 DEF Disconnect, Goto, cfgVars, svcVars, history, RuntimeInv,
        ModeInv
  <2>4. BlobMatchesRam'
    BY <1>27 DEF Disconnect, Goto, cfgVars, svcVars, history, RuntimeInv,
        BlobMatchesRam, MainWrites, PostWrites, ToolWrites
  <2> QED  BY <2>1, <2>2, <2>3, <2>4 DEF RuntimeInv
<1>28. CASE PortalStop
  <2>1. ReachInv'
    BY <1>28 DEF PortalStop, Goto, PortalQuiet, ClosePortal, cfgVars, history,
        RuntimeInv, ReachInv, PortalReachable
  <2>2. StrandInv'
    BY <1>28 DEF PortalStop, Goto, PortalQuiet, ClosePortal, cfgVars, history,
        RuntimeInv, StrandInv, NeverStranded, provisioned
  <2>3. ModeInv'
    BY <1>28 DEF PortalStop, Goto, PortalQuiet, ClosePortal, cfgVars, history,
        RuntimeInv, ModeInv
  <2>4. BlobMatchesRam'
    BY <1>28 DEF PortalStop, Goto, PortalQuiet, ClosePortal, cfgVars, history,
        RuntimeInv, BlobMatchesRam, MainWrites, PostWrites, ToolWrites
  <2> QED  BY <2>1, <2>2, <2>3, <2>4 DEF RuntimeInv
<1>29. CASE StopAp
  <2>1. ReachInv'
    BY <1>29 DEF StopAp, Goto, StopApOk, cfgVars, svcVars, history, RuntimeInv,
        ReachInv, PortalReachable, SafetyInv, PortalPlaces, McpPlaces
  <2>2. StrandInv'
    BY <1>29 DEF StopAp, Goto, StopApOk, cfgVars, svcVars, history, RuntimeInv,
        StrandInv, NeverStranded, provisioned
  <2>3. ModeInv'
    BY <1>29 DEF StopAp, Goto, StopApOk, cfgVars, svcVars, history, RuntimeInv,
        ModeInv
  <2>4. BlobMatchesRam'
    BY <1>29 DEF StopAp, Goto, StopApOk, cfgVars, svcVars, history, RuntimeInv,
        BlobMatchesRam, MainWrites, PostWrites, ToolWrites
  <2> QED  BY <2>1, <2>2, <2>3, <2>4 DEF RuntimeInv
<1>30. CASE StopApError
  <2>1. ReachInv'
    BY <1>30 DEF StopApError, ReturnErr, StopApFails, cfgVars, svcVars, history,
        RuntimeInv, ReachInv, PortalReachable
  <2>2. StrandInv'
    BY <1>30 DEF StopApError, ReturnErr, StopApFails, cfgVars, svcVars, history,
        RuntimeInv, StrandInv, NeverStranded, provisioned, ModeInv
  <2>3. ModeInv'
    BY <1>30 DEF StopApError, ReturnErr, StopApFails, cfgVars, svcVars, history,
        RuntimeInv, ModeInv, SafetyInv, PortalPlaces, McpPlaces
  <2>4. BlobMatchesRam'
    BY <1>30 DEF StopApError, ReturnErr, StopApFails, cfgVars, svcVars, history,
        RuntimeInv, BlobMatchesRam, MainWrites, PostWrites, ToolWrites
  <2> QED  BY <2>1, <2>2, <2>3, <2>4 DEF RuntimeInv
<1>31. CASE PostSetWifi
  <2>1. ReachInv'
    BY <1>31 DEF PostSetWifi, mainVars, svcVars, history, RuntimeInv, ReachInv,
        PortalReachable
  <2>2. StrandInv'
    BY <1>31 DEF PostSetWifi, mainVars, svcVars, history, RuntimeInv, StrandInv,
        NeverStranded, provisioned, SafetyInv, PortalPlaces, McpPlaces,
        FormInHand, ResetInHand, TypeOK, MainTypeOK, ServiceTypeOK,
        ConfigTypeOK, TaskTypeOK, Configs, Submissions
  <2>3. ModeInv'
    BY <1>31 DEF PostSetWifi, mainVars, svcVars, history, RuntimeInv, ModeInv
  <2>4. BlobMatchesRam'
    BY <1>31 DEF PostSetWifi, mainVars, svcVars, history, RuntimeInv,
        BlobMatchesRam, MainWrites, PostWrites, ToolWrites
  <2> QED  BY <2>1, <2>2, <2>3, <2>4 DEF RuntimeInv
<1>32. CASE PostPersistWifi
  <2>1. ReachInv'
    BY <1>32 DEF PostPersistWifi, PersistOk, mainVars, svcVars, RuntimeInv,
        ReachInv, PortalReachable
  <2>2. StrandInv'
    BY <1>32 DEF PostPersistWifi, PersistOk, mainVars, svcVars, RuntimeInv,
        StrandInv, NeverStranded, provisioned
  <2>3. ModeInv'
    BY <1>32 DEF PostPersistWifi, PersistOk, mainVars, svcVars, RuntimeInv,
        ModeInv
  <2>4. BlobMatchesRam'
    BY <1>32 DEF PostPersistWifi, PersistOk, mainVars, svcVars, RuntimeInv,
        BlobMatchesRam, MainWrites, PostWrites, ToolWrites
  <2> QED  BY <2>1, <2>2, <2>3, <2>4 DEF RuntimeInv
<1>33. CASE PostRejected
  <2>1. ReachInv'
    BY <1>33 DEF PostRejected, PersistFails, mainVars, svcVars, IdlePost,
        RuntimeInv, ReachInv, PortalReachable
  <2>2. StrandInv'
    BY <1>33 DEF PostRejected, PersistFails, mainVars, svcVars, IdlePost,
        RuntimeInv, StrandInv, NeverStranded, provisioned
  <2>3. ModeInv'
    BY <1>33 DEF PostRejected, PersistFails, mainVars, svcVars, IdlePost,
        RuntimeInv, ModeInv
  <2>4. BlobMatchesRam'
    BY <1>33 DEF PostRejected, PersistFails, mainVars, svcVars, IdlePost,
        RuntimeInv, BlobMatchesRam, MainWrites, PostWrites, ToolWrites
  <2> QED  BY <2>1, <2>2, <2>3, <2>4 DEF RuntimeInv
<1>34. CASE PostPatch
  <2>1. ReachInv'
    BY <1>34 DEF PostPatch, Persist, mainVars, svcVars, history, PersistOk,
        PersistFails, RuntimeInv, ReachInv, PortalReachable
  <2>2. StrandInv'
    BY <1>34 DEF PostPatch, Persist, mainVars, svcVars, history, PersistOk,
        PersistFails, RuntimeInv, StrandInv, NeverStranded, provisioned
  <2>3. ModeInv'
    BY <1>34 DEF PostPatch, Persist, mainVars, svcVars, history, PersistOk,
        PersistFails, RuntimeInv, ModeInv
  <2>4. BlobMatchesRam'
    BY <1>34 DEF PostPatch, Persist, mainVars, svcVars, history, PersistOk,
        PersistFails, RuntimeInv, BlobMatchesRam, MainWrites, PostWrites,
        ToolWrites
  <2> QED  BY <2>1, <2>2, <2>3, <2>4 DEF RuntimeInv
<1>35. CASE PostSetToken
  <2>1. ReachInv'
    BY <1>35 DEF PostSetToken, mainVars, svcVars, history, RuntimeInv, ReachInv,
        PortalReachable
  <2>2. StrandInv'
    BY <1>35 DEF PostSetToken, mainVars, svcVars, history, RuntimeInv,
        StrandInv, NeverStranded, provisioned
  <2>3. ModeInv'
    BY <1>35 DEF PostSetToken, mainVars, svcVars, history, RuntimeInv, ModeInv
  <2>4. BlobMatchesRam'
    BY <1>35 DEF PostSetToken, mainVars, svcVars, history, RuntimeInv,
        BlobMatchesRam, MainWrites, PostWrites, ToolWrites
  <2> QED  BY <2>1, <2>2, <2>3, <2>4 DEF RuntimeInv
<1>36. CASE PostPersistToken
  <2>1. ReachInv'
    BY <1>36 DEF PostPersistToken, Persist, mainVars, svcVars, history,
        PersistOk, PersistFails, RuntimeInv, ReachInv, PortalReachable
  <2>2. StrandInv'
    BY <1>36 DEF PostPersistToken, Persist, mainVars, svcVars, history,
        PersistOk, PersistFails, RuntimeInv, StrandInv, NeverStranded,
        provisioned
  <2>3. ModeInv'
    BY <1>36 DEF PostPersistToken, Persist, mainVars, svcVars, history,
        PersistOk, PersistFails, RuntimeInv, ModeInv
  <2>4. BlobMatchesRam'
    BY <1>36 DEF PostPersistToken, Persist, mainVars, svcVars, history,
        PersistOk, PersistFails, RuntimeInv, BlobMatchesRam, MainWrites,
        PostWrites, ToolWrites
  <2> QED  BY <2>1, <2>2, <2>3, <2>4 DEF RuntimeInv
<1>37. CASE PostFinish
  <2>1. ReachInv'
    BY <1>37 DEF PostFinish, mainVars, cfgVars, IdlePost, RuntimeInv, ReachInv,
        PortalReachable
  <2>2. StrandInv'
    BY <1>37 DEF PostFinish, mainVars, cfgVars, IdlePost, RuntimeInv, StrandInv,
        NeverStranded, provisioned
  <2>3. ModeInv'
    BY <1>37 DEF PostFinish, mainVars, cfgVars, IdlePost, RuntimeInv, ModeInv
  <2>4. BlobMatchesRam'
    BY <1>37 DEF PostFinish, mainVars, cfgVars, IdlePost, RuntimeInv,
        BlobMatchesRam, MainWrites, PostWrites, ToolWrites
  <2> QED  BY <2>1, <2>2, <2>3, <2>4 DEF RuntimeInv
<1>38. CASE ToolWorking
  <2>1. ReachInv'
    BY <1>38 DEF ToolWorking, mainVars, cfgVars, svcVars, history, RuntimeInv,
        ReachInv, PortalReachable
  <2>2. StrandInv'
    BY <1>38 DEF ToolWorking, mainVars, cfgVars, svcVars, history, RuntimeInv,
        StrandInv, NeverStranded, provisioned
  <2>3. ModeInv'
    BY <1>38 DEF ToolWorking, mainVars, cfgVars, svcVars, history, RuntimeInv,
        ModeInv
  <2>4. BlobMatchesRam'
    BY <1>38 DEF ToolWorking, mainVars, cfgVars, svcVars, history, RuntimeInv,
        BlobMatchesRam, MainWrites, PostWrites, ToolWrites
  <2> QED  BY <2>1, <2>2, <2>3, <2>4 DEF RuntimeInv
<1>39. CASE ToolDisconnect
  <2>1. ReachInv'
    BY <1>39 DEF ToolDisconnect, mainVars, cfgVars, svcVars, history,
        RuntimeInv, ReachInv, PortalReachable
  <2>2. StrandInv'
    BY <1>39 DEF ToolDisconnect, mainVars, cfgVars, svcVars, history,
        RuntimeInv, StrandInv, NeverStranded, provisioned, TypeOK,
        ServiceTypeOK
  <2>3. ModeInv'
    BY <1>39 DEF ToolDisconnect, mainVars, cfgVars, svcVars, history,
        RuntimeInv, ModeInv
  <2>4. BlobMatchesRam'
    BY <1>39 DEF ToolDisconnect, mainVars, cfgVars, svcVars, history,
        RuntimeInv, BlobMatchesRam, MainWrites, PostWrites, ToolWrites
  <2> QED  BY <2>1, <2>2, <2>3, <2>4 DEF RuntimeInv
<1>40. CASE ToolHttpStop
  <2>1. ReachInv'
    BY <1>40 DEF ToolHttpStop, PortalQuiet, ClosePortal, mainVars, cfgVars,
        history, RuntimeInv, ReachInv, PortalReachable
  <2>2. StrandInv'
    BY <1>40 DEF ToolHttpStop, PortalQuiet, ClosePortal, mainVars, cfgVars,
        history, RuntimeInv, StrandInv, NeverStranded, provisioned, SafetyInv,
        PortalPlaces, McpPlaces
  <2>3. ModeInv'
    BY <1>40 DEF ToolHttpStop, PortalQuiet, ClosePortal, mainVars, cfgVars,
        history, RuntimeInv, ModeInv
  <2>4. BlobMatchesRam'
    BY <1>40 DEF ToolHttpStop, PortalQuiet, ClosePortal, mainVars, cfgVars,
        history, RuntimeInv, BlobMatchesRam, MainWrites, PostWrites, ToolWrites
  <2> QED  BY <2>1, <2>2, <2>3, <2>4 DEF RuntimeInv
<1>41. CASE ToolClear
  <2>1. ReachInv'
    BY <1>41 DEF ToolClear, mainVars, history, RuntimeInv, ReachInv,
        PortalReachable
  <2>2. StrandInv'
    BY <1>41 DEF ToolClear, mainVars, history, RuntimeInv, StrandInv,
        NeverStranded, provisioned, SafetyInv, PortalPlaces, McpPlaces
  <2>3. ModeInv'
    BY <1>41 DEF ToolClear, mainVars, history, RuntimeInv, ModeInv
  <2>4. BlobMatchesRam'
    BY <1>41 DEF ToolClear, mainVars, history, RuntimeInv, BlobMatchesRam,
        MainWrites, PostWrites, ToolWrites
  <2> QED  BY <2>1, <2>2, <2>3, <2>4 DEF RuntimeInv
<1>42. CASE ToolPersist
  <2>1. ReachInv'
    BY <1>42 DEF ToolPersist, PersistOk, PersistFails, mainVars, svcVars,
        RuntimeInv, ReachInv, PortalReachable
  <2>2. StrandInv'
    BY <1>42 DEF ToolPersist, PersistOk, PersistFails, mainVars, svcVars,
        RuntimeInv, StrandInv, NeverStranded, provisioned
  <2>3. ModeInv'
    BY <1>42 DEF ToolPersist, PersistOk, PersistFails, mainVars, svcVars,
        RuntimeInv, ModeInv
  <2>4. BlobMatchesRam'
    BY <1>42 DEF ToolPersist, PersistOk, PersistFails, mainVars, svcVars,
        RuntimeInv, BlobMatchesRam, MainWrites, PostWrites, ToolWrites
  <2> QED  BY <2>1, <2>2, <2>3, <2>4 DEF RuntimeInv
<1>43. CASE ToolArrives
  <2>1. ReachInv'
    BY <1>43 DEF ToolArrives, hasToken, mainVars, cfgVars, svcVars, history,
        RuntimeInv, ReachInv, PortalReachable
  <2>2. StrandInv'
    BY <1>43 DEF ToolArrives, hasToken, mainVars, cfgVars, svcVars, history,
        RuntimeInv, StrandInv, NeverStranded, provisioned
  <2>3. ModeInv'
    BY <1>43 DEF ToolArrives, hasToken, mainVars, cfgVars, svcVars, history,
        RuntimeInv, ModeInv
  <2>4. BlobMatchesRam'
    BY <1>43 DEF ToolArrives, hasToken, mainVars, cfgVars, svcVars, history,
        RuntimeInv, BlobMatchesRam, MainWrites, PostWrites, ToolWrites
  <2> QED  BY <2>1, <2>2, <2>3, <2>4 DEF RuntimeInv
<1>44. ASSUME NEW form \in Submissions, PostArrives(form) PROVE RuntimeInv'
  <2>1. ReachInv'
    BY <1>44 DEF PostArrives, mainVars, cfgVars, svcVars, history, RuntimeInv,
        ReachInv, PortalReachable
  <2>2. StrandInv'
    BY <1>44 DEF PostArrives, mainVars, cfgVars, svcVars, history, RuntimeInv,
        StrandInv, NeverStranded, provisioned
  <2>3. ModeInv'
    BY <1>44 DEF PostArrives, mainVars, cfgVars, svcVars, history, RuntimeInv,
        ModeInv
  <2>4. BlobMatchesRam'
    BY <1>44 DEF PostArrives, mainVars, cfgVars, svcVars, history, RuntimeInv,
        BlobMatchesRam, MainWrites, PostWrites, ToolWrites
  <2> QED  BY <2>1, <2>2, <2>3, <2>4 DEF RuntimeInv
<1>45. CASE LinkLost
  <2>1. ReachInv'
    BY <1>45 DEF LinkLost, mainVars, cfgVars, svcVars, history, RuntimeInv,
        ReachInv, PortalReachable
  <2>2. StrandInv'
    BY <1>45 DEF LinkLost, mainVars, cfgVars, svcVars, history, RuntimeInv,
        StrandInv, NeverStranded, provisioned
  <2>3. ModeInv'
    BY <1>45 DEF LinkLost, mainVars, cfgVars, svcVars, history, RuntimeInv,
        ModeInv
  <2>4. BlobMatchesRam'
    BY <1>45 DEF LinkLost, mainVars, cfgVars, svcVars, history, RuntimeInv,
        BlobMatchesRam, MainWrites, PostWrites, ToolWrites
  <2> QED  BY <2>1, <2>2, <2>3, <2>4 DEF RuntimeInv
<1>46. CASE PowerCycle
  <2>1. ReachInv'
    BY <1>46 DEF PowerCycle, ClosePortal, history, IdlePost, Blank, RuntimeInv,
        ReachInv, PortalReachable
  <2>2. StrandInv'
    BY <1>46 DEF PowerCycle, ClosePortal, history, IdlePost, Blank, RuntimeInv,
        StrandInv, NeverStranded, provisioned
  <2>3. ModeInv'
    BY <1>46 DEF PowerCycle, ClosePortal, history, IdlePost, Blank, RuntimeInv,
        ModeInv
  <2>4. BlobMatchesRam'
    BY <1>46 DEF PowerCycle, ClosePortal, history, IdlePost, Blank, RuntimeInv,
        BlobMatchesRam, MainWrites, PostWrites, ToolWrites
  <2> QED  BY <2>1, <2>2, <2>3, <2>4 DEF RuntimeInv
<1>47. CASE UNCHANGED vars
  BY <1>47 DEF vars, mainVars, cfgVars, svcVars, history, RuntimeInv, ReachInv,
      PortalReachable, StrandInv, NeverStranded, provisioned, ModeInv,
      BlobMatchesRam, MainWrites, PostWrites, ToolWrites
<1> QED
  BY <1>1, <1>2, <1>3, <1>4, <1>5, <1>6, <1>7, <1>8, <1>9, <1>10, <1>11, <1>12,
     <1>13, <1>14, <1>15, <1>16, <1>17, <1>18, <1>19, <1>20, <1>21, <1>22,
     <1>23, <1>24, <1>25, <1>26, <1>27, <1>28, <1>29, <1>30, <1>31, <1>32,
     <1>33, <1>34, <1>35, <1>36, <1>37, <1>38, <1>39, <1>40, <1>41, <1>42,
     <1>43, <1>44, <1>45, <1>46, <1>47
     DEF Next, MainStep, MainInit, MainRun, Connect, EnableMcp, Provision, Tick,
         PostStep, ToolStep, Requests
\* Each step of a task is one step of the lifecycle, or none.
LEMMA LifeNext ==
  TypeOK /\ SafetyInv /\ RuntimeInv /\ [Next]_vars => [Life!Step]_(Life!lifecycle)
<1> SUFFICES ASSUME TypeOK, SafetyInv, RuntimeInv, [Next]_vars
             PROVE  [Life!Step]_(Life!lifecycle)
  OBVIOUS
<1>1. ASSUME UNCHANGED <<state, portal, mcpUp>> PROVE [Life!Step]_(Life!lifecycle)
  BY <1>1 DEF Life!lifecycle, Offered
<1>2. CASE RunButtonPersist
  BY <1>2 DEF RunButtonPersist, Goto, Persist, svcVars, PersistOk, PersistFails,
      SafetyInv, PortalPlaces, McpPlaces, RuntimeInv, ModeInv, Offered, TypeOK,
      ServiceTypeOK, Life!Step, Life!ChangeMode, Life!Edges, Life!lifecycle
<1>3. CASE RunUnprovisioned
  BY <1>3 DEF RunUnprovisioned, Goto, provisioned, cfgVars, svcVars, history,
      SafetyInv, PortalPlaces, McpPlaces, RuntimeInv, ModeInv, Offered, TypeOK,
      ServiceTypeOK, Life!Step, Life!ChangeMode, Life!Edges, Life!lifecycle
<1>4. CASE ConnectBegin
  BY <1>4 DEF ConnectBegin, Goto, provisioned, cfgVars, svcVars, history,
      SafetyInv, PortalPlaces, McpPlaces, RuntimeInv, ModeInv, Offered, TypeOK,
      ServiceTypeOK, Life!Step, Life!ChangeMode, Life!Edges, Life!lifecycle
<1>5. CASE ConnectOk
  BY <1>5 DEF ConnectOk, Goto, cfgVars, svcVars, history, SafetyInv,
      PortalPlaces, McpPlaces, RuntimeInv, ModeInv, Offered, TypeOK,
      ServiceTypeOK, Life!Step, Life!ChangeMode, Life!Edges, Life!lifecycle
<1>6. CASE ConnectFails
  BY <1>6 DEF ConnectFails, Goto, cfgVars, svcVars, history, SafetyInv,
      PortalPlaces, McpPlaces, RuntimeInv, ModeInv, Offered, TypeOK,
      ServiceTypeOK, Life!Step, Life!ChangeMode, Life!Edges, Life!lifecycle
<1>7. CASE StartApFails
  BY <1>7 DEF StartApFails, ReturnErr, cfgVars, svcVars, history, SafetyInv,
      PortalPlaces, McpPlaces, RuntimeInv, ModeInv, Offered, TypeOK,
      ServiceTypeOK, Life!Step, Life!ChangeMode, Life!Edges, Life!lifecycle
<1>8. CASE HttpStartFails
  BY <1>8 DEF HttpStartFails, ReturnErr, StopApOk, StopApFails, cfgVars,
      svcVars, history, SafetyInv, PortalPlaces, McpPlaces, RuntimeInv, ModeInv,
      Offered, TypeOK, ServiceTypeOK, Life!Step, Life!ChangeMode, Life!Edges,
      Life!lifecycle
<1>9. CASE SetActive
  BY <1>9 DEF SetActive, ReturnOk, cfgVars, history, SafetyInv, PortalPlaces,
      McpPlaces, RuntimeInv, ModeInv, Offered, TypeOK, ServiceTypeOK, Life!Step,
      Life!ChangeMode, Life!Edges, Life!lifecycle
<1>10. CASE TickUnprovisioned
  BY <1>10 DEF TickUnprovisioned, Goto, provisioned, cfgVars, svcVars, history,
      SafetyInv, PortalPlaces, McpPlaces, RuntimeInv, ModeInv, Offered, TypeOK,
      ServiceTypeOK, Life!Step, Life!ChangeMode, Life!Edges, Life!lifecycle
<1>11. CASE McpStart
  BY <1>11 DEF McpStart, Goto, cfgVars, history, SafetyInv, PortalPlaces,
      McpPlaces, RuntimeInv, ModeInv, Offered, TypeOK, ServiceTypeOK, Life!Step,
      Life!OpenMcp, Life!lifecycle
<1>12. CASE McpStop
  BY <1>12 DEF McpStop, Goto, McpQuiet, cfgVars, history, SafetyInv,
      PortalPlaces, McpPlaces, RuntimeInv, ModeInv, Offered, TypeOK,
      ServiceTypeOK, Life!Step, Life!CloseMcp, Life!lifecycle
<1>13. CASE HttpStart
  BY <1>13 DEF HttpStart, Goto, cfgVars, history, SafetyInv, PortalPlaces,
      McpPlaces, RuntimeInv, ModeInv, Offered, TypeOK, ServiceTypeOK, Life!Step,
      Life!OpenPortal, Life!lifecycle
<1>14. CASE PortalStop
  BY <1>14 DEF PortalStop, Goto, PortalQuiet, ClosePortal, cfgVars, history,
      SafetyInv, PortalPlaces, McpPlaces, RuntimeInv, ModeInv, Offered, TypeOK,
      ServiceTypeOK, Life!Step, Life!ClosePortal, Life!lifecycle
<1>15. CASE PowerCycle
  BY <1>15 DEF PowerCycle, ClosePortal, history, IdlePost, Blank, SafetyInv,
      PortalPlaces, McpPlaces, RuntimeInv, ModeInv, Offered, TypeOK,
      ServiceTypeOK, Life!Step, Life!Reboot, Life!lifecycle
<1>16. CASE ResetPortal
  BY <1>16 DEF ResetPortal, Goto, PortalQuiet, ClosePortal, history, SafetyInv,
      PortalPlaces, McpPlaces, RuntimeInv, ModeInv, Offered, TypeOK,
      ServiceTypeOK, Life!lifecycle
<1>17. CASE ToolHttpStop
  BY <1>17 DEF ToolHttpStop, PortalQuiet, ClosePortal, mainVars, cfgVars,
      history, SafetyInv, PortalPlaces, McpPlaces, RuntimeInv, ModeInv, Offered,
      TypeOK, ServiceTypeOK, Life!lifecycle
<1>18. CASE SetHandlers
  BY <1>18 DEF SetHandlers, Goto, cfgVars, history, SafetyInv, PortalPlaces,
      McpPlaces, RuntimeInv, ModeInv, Offered, TypeOK, ServiceTypeOK,
      Life!lifecycle
<1>19. CASE InitOk \/ InitFails
  BY <1>1, <1>19 DEF InitOk, InitFails, svcVars
<1>20. CASE RunButtonPressed \/ RunProvisioned
  BY <1>1, <1>20 DEF RunButtonPressed, RunProvisioned, svcVars
<1>21. CASE ResetPersist \/ StartDiscovery \/ StartDiscoveryFails
  BY <1>1, <1>21 DEF ResetPersist, StartDiscovery, StartDiscoveryFails, svcVars
<1>22. CASE McpStartFails \/ McpPolicy
  BY <1>1, <1>22 DEF McpStartFails, McpPolicy, svcVars
<1>23. CASE StartProvisioning \/ StartAp
  BY <1>1, <1>23 DEF StartProvisioning, StartAp, svcVars
<1>24. CASE TickSubmitted \/ Disconnect \/ StopAp \/ StopApError
  BY <1>1, <1>24 DEF TickSubmitted, Disconnect, StopAp, StopApError, svcVars
<1>25. CASE \/ PostSetWifi \/ PostPersistWifi \/ PostRejected
           \/ PostPatch \/ PostSetToken \/ PostPersistToken \/ PostFinish
  BY <1>1, <1>25 DEF PostSetWifi, PostPersistWifi, PostRejected, PostPatch,
      PostSetToken, PostPersistToken, PostFinish, mainVars, svcVars
<1>26. CASE ToolWorking \/ ToolDisconnect \/ ToolClear \/ ToolPersist
  BY <1>1, <1>26 DEF ToolWorking, ToolDisconnect, ToolClear, ToolPersist,
      mainVars, svcVars
<1>27. CASE Requests
  BY <1>1, <1>27 DEF Requests, ToolArrives, PostArrives, mainVars, svcVars
<1>28. CASE LinkLost
  BY <1>1, <1>28 DEF LinkLost, mainVars, svcVars
<1>29. CASE UNCHANGED vars
  BY <1>1, <1>29 DEF vars, mainVars, svcVars
<1> QED
  BY <1>2, <1>3, <1>4, <1>5, <1>6, <1>7, <1>8, <1>9, <1>10, <1>11, <1>12, <1>13,
     <1>14, <1>15, <1>16, <1>17, <1>18, <1>19, <1>20, <1>21, <1>22, <1>23,
     <1>24, <1>25, <1>26, <1>27, <1>28, <1>29
     DEF Next, MainStep, MainInit, MainRun, Connect, EnableMcp, Provision, Tick,
         PostStep, ToolStep

LEMMA RuntimeInit == Init => RuntimeInv
BY DEF Init, RuntimeInv, ReachInv, PortalReachable, StrandInv, NeverStranded, ModeInv,
       BlobMatchesRam

\* Where the main task is decides the mode, and what it may rely on.
THEOREM RuntimeCorrect == Spec => []RuntimeInv
BY RuntimeInit, RuntimeNext, TypeCorrect, SafetyCorrect, PTL DEF Spec

\* PortalReachable: the portal's server is up only while its access point is,
\* whatever starts and stops fail.
THEOREM PortalIsReachable == Spec => []PortalReachable
<1>1. RuntimeInv => PortalReachable
  BY DEF RuntimeInv, ReachInv
<1>2. QED
  BY <1>1, RuntimeCorrect, PTL

\* NeverStranded: whatever starts and stops fail, an idle main loop takes forms,
\* or acts at its next tick, or is connected with the link and the MCP server up,
\* unless it was cut off; a connect has credentials.
THEOREM IsNeverStranded == Spec => []NeverStranded
<1>1. RuntimeInv => NeverStranded
  BY DEF RuntimeInv, StrandInv
<1>2. QED
  BY <1>1, RuntimeCorrect, PTL

\* BlobMatchesRam: no task overwrites in the blob what another one has changed
\* in g_cfg.
THEOREM BlobCorrect == Spec => []BlobMatchesRam
<1>1. RuntimeInv => BlobMatchesRam
  BY DEF RuntimeInv
<1>2. QED
  BY <1>1, RuntimeCorrect, PTL

\* LifecycleImplemented: the three tasks, whatever fails and in any order,
\* implement Lifecycle with state for mode and Offered for service.
THEOREM LifecycleCorrect == Spec => LifecycleImplemented
<1>1. Init => Life!Start
  BY DEF Init, Life!Start, Offered
<1>2. TypeOK /\ SafetyInv /\ RuntimeInv /\ [Next]_vars => [Life!Step]_(Life!lifecycle)
  BY LifeNext
<1>3. QED
  BY <1>1, <1>2, TypeCorrect, SafetyCorrect, RuntimeCorrect, PTL
     DEF Spec, LifecycleImplemented, Life!Behaviour

=============================================================================
