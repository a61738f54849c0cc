--------------------------- MODULE AppController ---------------------------
(***************************************************************************)
(* The runtime of the firmware: the main task (app_main.c and              *)
(* app_controller.c) with the provisioning portal's httpd task, the MCP    *)
(* server's httpd task, the Wi-Fi link and the configuration in RAM and in *)
(* NVS.  There is no lock in this program; the tasks share plain globals.  *)
(*                                                                         *)
(* Every task has a program point, named for the call it is about to make. *)
(* One step runs from one point where another task can observe or disturb  *)
(* it to the next one: a call into the Wi-Fi driver, into NVS, into        *)
(* esp_http_server, or an assignment another task reads.                   *)
(***************************************************************************)
CONSTANTS
  Networks,       \* Wi-Fi credentials a user may submit
  Tokens,         \* MCP auth tokens a user may submit
  NoNetwork,      \* wifi.configured = false
  NoToken,        \* auth_token_set = false
  NoSubmission,   \* nothing submitted, or nothing accepted
  MdnsAvailable   \* NETWORK_MDNS_AVAILABLE: the mdns component is built in

ASSUME ConstantsAssumption ==
  /\ NoNetwork \notin Networks
  /\ NoToken \notin Tokens
  /\ MdnsAvailable \in BOOLEAN

VARIABLES
  pc,             \* the main task's point
  caller,         \* who gets the result: app_controller_run or _tick
  state,          \* g_state
  mcpEnabled,     \* g_mcp_enabled
  prov,           \* provisioning_service: g_status.state and g_active
  portal,         \* provisioning_http: server started, g_handlers set
  mcpUp,          \* mcp_server: server started
  radio,          \* AP started, station link with an address
  ram,            \* config_service: g_cfg
  nvs,            \* the "device" blob
  post,           \* portal task: its point and the form it is handling
  tool,           \* MCP task: its point
  persistFailed,  \* history: the last write of the blob reported an error
  resetAcked,     \* history: reset_network answered ok, nothing stored since
  accepted,       \* history: the form last answered with "saved"
  cutOff          \* history: since the connect began the link was lost or given
                  \* up, or discovery or the MCP server did not start

mainVars == <<pc, caller, state, mcpEnabled>>
cfgVars  == <<ram, nvs, persistFailed>>
svcVars  == <<prov, portal, mcpUp>>
history  == <<resetAcked, accepted, cutOff>>
vars     == <<mainVars, cfgVars, svcVars, radio, post, tool, history>>

Configs     == [net : Networks \cup {NoNetwork}, token : Tokens \cup {NoToken}]
Submissions == [net : Networks, token : Tokens \cup {NoToken}]

AppStates  == {"BOOTING", "UNPROVISIONED", "PROVISIONING", "CONNECTING",
               "CONNECTED_IDLE", "ERROR_RECOVERY"}
ProvStates == {"UNPROVISIONED", "ACTIVE", "CONNECTED"}

MainPoints == {"init", "run", "run_persist", "connect", "await_link",
               "reset_portal", "reset_persist", "discovery", "mcp_start",
               "mcp_policy", "start_provisioning", "mcp_stop", "start_ap",
               "http_start", "set_handlers", "set_active", "idle",
               "disconnect", "portal_stop", "stop_ap", "halted"}
PostPoints == {"idle", "set_wifi", "persist_wifi", "patch", "set_token",
               "persist_token", "finish"}
ToolPoints == {"idle", "working", "disconnect", "http_stop", "clear", "persist"}

Blank    == [net |-> NoNetwork, token |-> NoToken]
IdlePost == [at |-> "idle", form |-> NoSubmission]

provisioned == ram.net # NoNetwork
hasToken    == ram.token # NoToken

-----------------------------------------------------------------------------
(* Shared steps *)

PersistOk == nvs' = ram /\ persistFailed' = FALSE

\* nvs_set_blob may have failed, or only nvs_commit after it
PersistFails == nvs' \in {nvs, ram} /\ persistFailed' = TRUE

Persist == PersistOk \/ PersistFails

ReturnOk  == pc' = "idle" /\ caller' = "tick"
ReturnErr == /\ pc' = IF caller = "run" THEN "halted" ELSE "idle"
             /\ UNCHANGED caller

Goto(point) == pc' = point /\ UNCHANGED caller

PortalNotJoined == TRUE          \* mutated: the stop does not wait

\* httpd_stop joins the server's task: the handler it is running ends first
PortalQuiet == portal.up => post.at = "idle"
McpQuiet    == mcpUp => tool = "idle"

ClosePortal == portal' = [up |-> FALSE, armed |-> FALSE]

\* wifi_stop_ap: esp_wifi_stop takes the station link down as well
StopApOk    == radio' = [ap |-> FALSE, link |-> FALSE]
StopApFails == UNCHANGED radio

-----------------------------------------------------------------------------
(* app_main and app_controller_init *)

Init ==
  /\ pc = "init" /\ caller = "run" /\ state = "BOOTING" /\ mcpEnabled = FALSE
  /\ prov = [state |-> "UNPROVISIONED", active |-> FALSE]
  /\ portal = [up |-> FALSE, armed |-> FALSE] /\ mcpUp = FALSE
  /\ radio = [ap |-> FALSE, link |-> FALSE]
  /\ ram = Blank /\ nvs \in Configs /\ persistFailed = FALSE
  /\ post = IdlePost /\ tool = "idle"
  /\ resetAcked = FALSE /\ accepted = NoSubmission /\ cutOff = FALSE

InitOk ==
  /\ pc = "init" /\ Goto("run")
  /\ ram' = nvs
  /\ prov' = [prov EXCEPT !.state =
                IF nvs.net # NoNetwork THEN "CONNECTED" ELSE "UNPROVISIONED"]
  /\ UNCHANGED <<state, mcpEnabled, nvs, persistFailed, portal, mcpUp, radio,
                 post, tool, history>>

InitFails ==
  /\ pc = "init" /\ Goto("halted")
  /\ UNCHANGED <<state, mcpEnabled, cfgVars, svcVars, radio, post, tool, history>>

-----------------------------------------------------------------------------
(* app_controller_run *)

RunButtonPressed ==
  /\ pc = "run" /\ Goto("run_persist")
  /\ ram' = [ram EXCEPT !.net = NoNetwork]
  /\ UNCHANGED <<state, mcpEnabled, nvs, persistFailed, svcVars, radio, post,
                 tool, history>>

RunButtonPersist ==
  /\ pc = "run_persist" /\ Goto("start_provisioning")
  /\ Persist
  /\ accepted' = NoSubmission
  /\ state' = "UNPROVISIONED"
  /\ UNCHANGED <<mcpEnabled, ram, svcVars, radio, post, tool, resetAcked, cutOff>>

RunUnprovisioned ==
  /\ pc = "run" /\ ~provisioned /\ Goto("start_provisioning")
  /\ state' = "UNPROVISIONED"
  /\ UNCHANGED <<mcpEnabled, cfgVars, svcVars, radio, post, tool, history>>

RunProvisioned ==
  /\ pc = "run" /\ provisioned /\ Goto("connect")
  /\ UNCHANGED <<state, mcpEnabled, cfgVars, svcVars, radio, post, tool, history>>

-----------------------------------------------------------------------------
(* app_controller_connect_runtime *)

\* up to esp_wifi_connect: the mode switch has stopped AP and station
ConnectBegin ==
  /\ pc = "connect" /\ provisioned /\ Goto("await_link")
  /\ state' = "CONNECTING"
  /\ radio' = [ap |-> FALSE, link |-> FALSE]
  /\ cutOff' = FALSE
  /\ UNCHANGED <<mcpEnabled, cfgVars, svcVars, post, tool, resetAcked, accepted>>

\* ERR_OK needs only the CONNECTED bit: the link may be lost again by then
ConnectOk ==
  /\ pc = "await_link" /\ Goto("discovery")
  /\ \E stillUp \in BOOLEAN :
       radio' = [radio EXCEPT !.link = stillUp] /\ cutOff' = ~stillUp
  /\ state' = "CONNECTED_IDLE"
  /\ UNCHANGED <<mcpEnabled, cfgVars, svcVars, post, tool, resetAcked, accepted>>

\* driver error, STA_DISCONNECTED or the 10 s timeout: all the same here
ConnectFails ==
  /\ pc = "await_link" /\ Goto("reset_portal")
  /\ state' = "ERROR_RECOVERY"
  /\ UNCHANGED <<mcpEnabled, cfgVars, svcVars, radio, post, tool, history>>

\* provisioning_service_reset: request_reset up to the write of the blob
ResetPortal ==
  /\ pc = "reset_portal" /\ PortalQuiet /\ Goto("reset_persist")
  /\ ClosePortal
  /\ prov' = [state |-> "UNPROVISIONED", active |-> FALSE]
  /\ ram' = [ram EXCEPT !.net = NoNetwork]
  /\ UNCHANGED <<state, mcpEnabled, nvs, persistFailed, mcpUp, radio, post,
                 tool, history>>

ResetPersist ==
  /\ pc = "reset_persist" /\ Goto("start_provisioning")
  /\ Persist
  /\ StopApOk \/ StopApFails
  /\ accepted' = NoSubmission
  /\ UNCHANGED <<state, mcpEnabled, ram, svcVars, post, tool, resetAcked, cutOff>>

StartDiscovery ==
  /\ pc = "discovery" /\ Goto("mcp_start")
  /\ UNCHANGED <<state, mcpEnabled, cfgVars, svcVars, radio, post, tool, history>>

StartDiscoveryFails ==
  /\ pc = "discovery" /\ MdnsAvailable /\ ReturnErr
  /\ cutOff' = TRUE
  /\ UNCHANGED <<state, mcpEnabled, cfgVars, svcVars, radio, post, tool,
                 resetAcked, accepted>>

-----------------------------------------------------------------------------
(* app_controller_enable_mcp_if_allowed *)

McpStart ==
  /\ pc = "mcp_start" /\ Goto("mcp_policy")
  /\ mcpUp' = TRUE
  /\ UNCHANGED <<state, mcpEnabled, cfgVars, prov, portal, radio, post, tool,
                 history>>

\* mutated: a failed registration leaves the server running
McpStartFailsLeaks ==
  /\ pc = "mcp_start" /\ ~mcpUp /\ ReturnErr
  /\ mcpEnabled' = FALSE /\ mcpUp' = TRUE /\ cutOff' = TRUE
  /\ UNCHANGED <<state, cfgVars, prov, portal, radio, post, tool, resetAcked,
                 accepted>>

McpStartFails ==
  /\ pc = "mcp_start" /\ ~mcpUp /\ ReturnErr
  /\ mcpEnabled' = FALSE /\ cutOff' = TRUE
  /\ UNCHANGED <<state, cfgVars, svcVars, radio, post, tool, resetAcked, accepted>>

\* power_operation_allowed always holds: the power policy is a stub
McpPolicy ==
  /\ pc = "mcp_policy" /\ ReturnOk
  /\ mcpEnabled' = hasToken
  /\ UNCHANGED <<state, cfgVars, svcVars, radio, post, tool, history>>

-----------------------------------------------------------------------------
(* app_controller_start_provisioning *)

\* mutated: the flag is left as it was
StartProvisioningKeepsFlag ==
  /\ pc = "start_provisioning" /\ Goto("mcp_stop")
  /\ UNCHANGED <<state, mcpEnabled, cfgVars, svcVars, radio, post, tool, history>>

StartProvisioning ==
  /\ pc = "start_provisioning" /\ Goto("mcp_stop")
  /\ mcpEnabled' = FALSE
  /\ UNCHANGED <<state, cfgVars, svcVars, radio, post, tool, history>>

\* mutated: the server is not stopped
McpStopSkipped ==
  /\ pc = "mcp_stop" /\ McpQuiet /\ Goto("start_ap")
  /\ UNCHANGED <<state, mcpEnabled, cfgVars, svcVars, radio, post, tool, history>>

McpStop ==
  /\ pc = "mcp_stop" /\ McpQuiet /\ Goto("start_ap")
  /\ mcpUp' = FALSE
  /\ UNCHANGED <<state, mcpEnabled, cfgVars, prov, portal, radio, post, tool,
                 history>>

\* wifi_start_ap restarts the driver in APSTA mode: any station link is gone
StartAp ==
  /\ pc = "start_ap" /\ Goto("http_start")
  /\ radio' = [ap |-> TRUE, link |-> FALSE]
  /\ UNCHANGED <<state, mcpEnabled, cfgVars, svcVars, post, tool, history>>

\* mutated: the error of wifi_start_ap is dropped
StartApErrorDropped ==
  /\ pc = "start_ap" /\ Goto("http_start")
  /\ radio' = [ap |-> FALSE, link |-> FALSE]
  /\ UNCHANGED <<state, mcpEnabled, cfgVars, svcVars, post, tool, history>>

StartApFails ==
  /\ pc = "start_ap" /\ ReturnErr
  /\ \E started \in BOOLEAN : radio' = [ap |-> started, link |-> FALSE]
  /\ state' = "ERROR_RECOVERY"
  /\ UNCHANGED <<mcpEnabled, cfgVars, svcVars, post, tool, history>>

HttpStart ==
  /\ pc = "http_start" /\ Goto("set_handlers")
  /\ portal' = [portal EXCEPT !.up = TRUE]
  /\ UNCHANGED <<state, mcpEnabled, cfgVars, prov, mcpUp, radio, post, tool,
                 history>>

HttpStartFails ==
  /\ pc = "http_start" /\ ~portal.up /\ ReturnErr
  /\ StopApOk \/ StopApFails
  /\ state' = "ERROR_RECOVERY"
  /\ UNCHANGED <<mcpEnabled, cfgVars, svcVars, post, tool, history>>

\* from here on the portal takes forms
SetHandlers ==
  /\ pc = "set_handlers" /\ Goto("set_active")
  /\ portal' = [portal EXCEPT !.armed = TRUE]
  /\ UNCHANGED <<state, mcpEnabled, cfgVars, prov, mcpUp, radio, post, tool,
                 history>>

SetActive ==
  /\ pc = "set_active" /\ ReturnOk
  /\ prov' = [state |-> "ACTIVE", active |-> TRUE]
  /\ state' = "PROVISIONING"
  /\ UNCHANGED <<mcpEnabled, cfgVars, portal, mcpUp, radio, post, tool, history>>

-----------------------------------------------------------------------------
(* app_controller_tick; a tick that finds nothing to do is a stutter *)

\* mutated: only a failed start is retried
TickRetriesRecoveryOnly ==
  /\ pc = "idle" /\ state = "ERROR_RECOVERY" /\ ~provisioned
  /\ Goto("disconnect")
  /\ state' = "UNPROVISIONED"
  /\ UNCHANGED <<mcpEnabled, cfgVars, svcVars, radio, post, tool, history>>

TickUnprovisioned ==
  /\ pc = "idle" /\ state # "PROVISIONING" /\ ~provisioned
  /\ Goto("disconnect")
  /\ state' = "UNPROVISIONED"
  /\ UNCHANGED <<mcpEnabled, cfgVars, svcVars, radio, post, tool, history>>

\* mutated: connects without stopping the portal
TickSkipsPortalStop ==
  /\ pc = "idle" /\ state = "PROVISIONING"
  /\ prov.state = "CONNECTED" /\ provisioned
  /\ Goto("connect")
  /\ UNCHANGED <<state, mcpEnabled, cfgVars, svcVars, radio, post, tool, history>>

\* mutated: expects the portal to be active still
TickWantsActive ==
  /\ pc = "idle" /\ state = "PROVISIONING"
  /\ prov = [state |-> "CONNECTED", active |-> TRUE] /\ provisioned
  /\ Goto("portal_stop")
  /\ UNCHANGED <<state, mcpEnabled, cfgVars, svcVars, radio, post, tool, history>>

TickSubmitted ==
  /\ pc = "idle" /\ state = "PROVISIONING"
  /\ prov.state = "CONNECTED" /\ provisioned
  /\ Goto("portal_stop")
  /\ UNCHANGED <<state, mcpEnabled, cfgVars, svcVars, radio, post, tool, history>>

\* app_controller_enter_provisioning_runtime: the result is ignored
Disconnect ==
  /\ pc = "disconnect" /\ Goto("start_provisioning")
  /\ \E down \in BOOLEAN : radio' = [radio EXCEPT !.link = @ /\ ~down]
  /\ UNCHANGED <<state, mcpEnabled, cfgVars, svcVars, post, tool, history>>

\* mutated: forgets that a form was submitted
PortalStopForgets ==
  /\ pc = "portal_stop" /\ PortalQuiet /\ Goto("stop_ap")
  /\ ClosePortal
  /\ prov' = [active |-> FALSE, state |-> "UNPROVISIONED"]
  /\ UNCHANGED <<state, mcpEnabled, cfgVars, mcpUp, radio, post, tool, history>>

\* provisioning_service_stop
PortalStop ==
  /\ pc = "portal_stop" /\ PortalQuiet /\ Goto("stop_ap")
  /\ ClosePortal
  /\ prov' = [active |-> FALSE,
              state  |-> IF prov.state = "ACTIVE" THEN "UNPROVISIONED"
                                                  ELSE prov.state]
  /\ UNCHANGED <<state, mcpEnabled, cfgVars, mcpUp, radio, post, tool, history>>

StopAp ==
  /\ pc = "stop_ap" /\ Goto("connect")
  /\ StopApOk
  /\ UNCHANGED <<state, mcpEnabled, cfgVars, svcVars, post, tool, history>>

StopApError ==
  /\ pc = "stop_ap" /\ ReturnErr
  /\ StopApFails
  /\ UNCHANGED <<state, mcpEnabled, cfgVars, svcVars, post, tool, history>>

-----------------------------------------------------------------------------
(* POST /api/provision in the portal's task.  A form without SSID or device *)
(* name, or one that finds g_handlers unset, is answered without effect.    *)

PostArrives(form) ==
  /\ post.at = "idle" /\ portal.up /\ portal.armed
  /\ post' = [at |-> "set_wifi", form |-> form]
  /\ UNCHANGED <<mainVars, cfgVars, svcVars, radio, tool, history>>

\* mutated: the fields of the form are swapped
PostSetWifiSwapped ==
  /\ post.at = "set_wifi" /\ post' = [post EXCEPT !.at = "persist_wifi"]
  /\ ram' = [ram EXCEPT !.net = post.form.token]
  /\ UNCHANGED <<mainVars, nvs, persistFailed, svcVars, radio, tool, history>>

PostSetWifi ==
  /\ post.at = "set_wifi" /\ post' = [post EXCEPT !.at = "persist_wifi"]
  /\ ram' = [ram EXCEPT !.net = post.form.net]
  /\ UNCHANGED <<mainVars, nvs, persistFailed, svcVars, radio, tool, history>>

PostPersistWifi ==
  /\ post.at = "persist_wifi" /\ post' = [post EXCEPT !.at = "patch"]
  /\ PersistOk
  /\ resetAcked' = FALSE /\ accepted' = NoSubmission
  /\ UNCHANGED <<mainVars, ram, svcVars, radio, tool, cutOff>>

\* mutated: the result of the write is ignored, as for the other fields
PostRejectedIgnored ==
  /\ post.at = "persist_wifi" /\ post' = [post EXCEPT !.at = "patch"]
  /\ PersistFails
  /\ resetAcked' = FALSE /\ accepted' = NoSubmission
  /\ UNCHANGED <<mainVars, ram, svcVars, radio, tool, cutOff>>

\* answered "Invalid setup data"; g_cfg keeps the new credentials
PostRejected ==
  /\ post.at = "persist_wifi" /\ post' = IdlePost
  /\ PersistFails
  /\ resetAcked' = FALSE
  /\ accepted' = IF nvs' = nvs THEN accepted ELSE NoSubmission
  /\ UNCHANGED <<mainVars, ram, svcVars, radio, tool, cutOff>>

\* config_service_patch writes the blob again; its result is ignored
PostPatch ==
  /\ post.at = "patch"
  /\ post' = [post EXCEPT !.at = IF post.form.token = NoToken THEN "finish"
                                                              ELSE "set_token"]
  /\ Persist
  /\ UNCHANGED <<mainVars, ram, svcVars, radio, tool, history>>

PostSetToken ==
  /\ post.at = "set_token" /\ post' = [post EXCEPT !.at = "persist_token"]
  /\ ram' = [ram EXCEPT !.token = post.form.token]
  /\ UNCHANGED <<mainVars, nvs, persistFailed, svcVars, radio, tool, history>>

\* mutated: the token is set in RAM only
PostTokenNotPersisted ==
  /\ post.at = "persist_token" /\ post' = [post EXCEPT !.at = "finish"]
  /\ UNCHANGED <<mainVars, cfgVars, svcVars, radio, tool, history>>

PostPersistToken ==
  /\ post.at = "persist_token" /\ post' = [post EXCEPT !.at = "finish"]
  /\ Persist
  /\ UNCHANGED <<mainVars, ram, svcVars, radio, tool, history>>

\* mutated: the handler stops the portal it runs in, and waits for itself
PostStopsOwnPortal ==
  /\ post.at = "finish"
  /\ prov' = [state |-> "CONNECTED", active |-> FALSE]
  /\ accepted' = post.form
  /\ UNCHANGED <<mainVars, cfgVars, portal, mcpUp, radio, post, tool,
                 resetAcked, cutOff>>

\* answered "Configuration saved"
PostFinish ==
  /\ post.at = "finish" /\ post' = IdlePost
  /\ prov' = [state |-> "CONNECTED", active |-> FALSE]
  /\ accepted' = post.form
  /\ UNCHANGED <<mainVars, cfgVars, portal, mcpUp, radio, tool, resetAcked, cutOff>>

-----------------------------------------------------------------------------
(* An authorised tool call in the MCP server's task.  A request may still   *)
(* be read from its socket after the link is lost.                          *)

ToolArrives ==
  /\ tool = "idle" /\ mcpUp /\ hasToken
  /\ tool' \in {"working", "disconnect", "http_stop"}
  /\ UNCHANGED <<mainVars, cfgVars, svcVars, radio, post, history>>

\* a tool that scans, renders or reads: bounded by its own timeouts
ToolWorking ==
  /\ tool = "working" /\ tool' = "idle"
  /\ UNCHANGED <<mainVars, cfgVars, svcVars, radio, post, history>>

ToolDisconnect ==
  /\ tool = "disconnect" /\ tool' = "idle"
  /\ \E down \in BOOLEAN :
       radio' = [radio EXCEPT !.link = @ /\ ~down] /\ cutOff' = (cutOff \/ down)
  /\ UNCHANGED <<mainVars, cfgVars, svcVars, post, resetAcked, accepted>>

\* reset_network: provisioning_service_request_reset
ToolHttpStop ==
  /\ tool = "http_stop" /\ PortalQuiet /\ tool' = "clear"
  /\ ClosePortal
  /\ UNCHANGED <<mainVars, cfgVars, prov, mcpUp, radio, post, history>>

ToolClear ==
  /\ tool = "clear" /\ tool' = "persist"
  /\ prov' = [state |-> "UNPROVISIONED", active |-> FALSE]
  /\ ram' = [ram EXCEPT !.net = NoNetwork]
  /\ UNCHANGED <<mainVars, nvs, persistFailed, portal, mcpUp, radio, post, history>>

\* mutated: answers ok whatever the write returned
ToolPersistUnchecked ==
  /\ tool = "persist" /\ tool' = "idle"
  /\ Persist
  /\ resetAcked' = TRUE /\ accepted' = NoSubmission
  /\ UNCHANGED <<mainVars, ram, svcVars, radio, post, cutOff>>

ToolPersist ==
  /\ tool = "persist" /\ tool' = "idle"
  /\ \/ PersistOk /\ resetAcked' = TRUE
     \/ PersistFails /\ UNCHANGED resetAcked
  /\ accepted' = NoSubmission
  /\ UNCHANGED <<mainVars, ram, svcVars, radio, post, cutOff>>

-----------------------------------------------------------------------------
(* The environment *)

LinkLost ==
  /\ radio.link /\ radio' = [radio EXCEPT !.link = FALSE]
  /\ cutOff' = TRUE
  /\ UNCHANGED <<mainVars, cfgVars, svcVars, post, tool, resetAcked, accepted>>

\* power loss or reset at any moment: only the blob survives
PowerCycle ==
  /\ pc' = "init" /\ caller' = "run" /\ state' = "BOOTING" /\ mcpEnabled' = FALSE
  /\ prov' = [state |-> "UNPROVISIONED", active |-> FALSE]
  /\ ClosePortal /\ mcpUp' = FALSE
  /\ radio' = [ap |-> FALSE, link |-> FALSE]
  /\ ram' = Blank /\ persistFailed' = FALSE
  /\ post' = IdlePost /\ tool' = "idle"
  /\ cutOff' = FALSE
  /\ UNCHANGED <<nvs, resetAcked, accepted>>

-----------------------------------------------------------------------------

MainInit  == InitOk \/ InitFails
MainRun   == \/ RunButtonPressed \/ RunButtonPersist
             \/ RunUnprovisioned \/ RunProvisioned
Connect   == \/ ConnectBegin \/ ConnectOk \/ ConnectFails
             \/ ResetPortal \/ ResetPersist \/ StartDiscovery \/ StartDiscoveryFails
EnableMcp == McpStart \/ McpStartFails \/ McpPolicy
Provision == \/ StartProvisioning \/ McpStop \/ StartAp \/ StartApFails
             \/ HttpStart \/ HttpStartFails \/ SetHandlers \/ SetActive
Tick      == \/ TickUnprovisioned \/ TickSubmitted \/ Disconnect
             \/ PortalStop \/ StopAp \/ StopApError

MainStep == MainInit \/ MainRun \/ Connect \/ EnableMcp \/ Provision \/ Tick

PostStep == \/ PostSetWifi \/ PostPersistWifi \/ PostRejected \/ PostPatch
            \/ PostSetToken \/ PostPersistToken \/ PostFinish
ToolStep == \/ ToolWorking \/ ToolDisconnect \/ ToolHttpStop \/ ToolClear
            \/ ToolPersist
Requests == ToolArrives \/ \E form \in Submissions : PostArrives(form)

Next == MainStep \/ PostStep \/ ToolStep \/ Requests \/ LinkLost \/ PowerCycle

Spec == Init /\ [][Next]_vars

\* The scheduler runs every ready task.  A join waits while handlers come and
\* go, but the server's task serves at most the sessions already readable
\* before it sees the stop message: the join is enabled again and again.
Fairness == /\ WF_vars(MainStep) /\ SF_vars(McpStop) /\ SF_vars(PortalStop)
            /\ SF_vars(ResetPortal) /\ WF_vars(PostStep) /\ WF_vars(ToolStep)

FairSpec == Spec /\ Fairness

-----------------------------------------------------------------------------
(* Properties *)

MainTypeOK ==
  /\ pc \in MainPoints /\ caller \in {"run", "tick"}
  /\ state \in AppStates /\ mcpEnabled \in BOOLEAN
ServiceTypeOK ==
  /\ prov \in [state : ProvStates, active : BOOLEAN]
  /\ portal \in [up : BOOLEAN, armed : BOOLEAN] /\ mcpUp \in BOOLEAN
  /\ radio \in [ap : BOOLEAN, link : BOOLEAN]
ConfigTypeOK ==
  /\ ram \in Configs /\ nvs \in Configs /\ persistFailed \in BOOLEAN
  /\ resetAcked \in BOOLEAN /\ accepted \in Submissions \cup {NoSubmission}
  /\ cutOff \in BOOLEAN
TaskTypeOK ==
  /\ post \in [at : PostPoints, form : Submissions \cup {NoSubmission}]
  /\ post.at # "idle" => post.form \in Submissions
  /\ tool \in ToolPoints

\* Every variable has its type; a form is in hand whenever the portal's task
\* is past accepting one.
TypeOK == MainTypeOK /\ ServiceTypeOK /\ ConfigTypeOK /\ TaskTypeOK

\* The portal's server and the MCP server are never up together, whatever the
\* order of joins, failures and requests: both take esp_http_server's default
\* control port, and the portal is unauthenticated.
PortalAndMcpExclusive == ~(portal.up /\ mcpUp)

MainWrites == pc \in {"run_persist", "reset_persist"}
PostWrites == post.at \in {"persist_wifi", "patch", "persist_token"}
ToolWrites == tool = "persist"

\* No two tasks are between changing g_cfg and writing the blob.  Nothing
\* locks g_cfg; only the joins in the stop functions keep the writers apart.
OneConfigWriter == /\ ~(MainWrites /\ PostWrites)
                   /\ ~(MainWrites /\ ToolWrites)
                   /\ ~(PostWrites /\ ToolWrites)

\* When app_main has returned after a failed init or run, neither server is
\* left running without a main loop to react to it.
HaltedServesNothing == pc = "halted" => ~portal.up /\ ~mcpUp

\* g_mcp_enabled, shown on the screen, is true only while the MCP server runs
\* and a token exists, at every point of every task.
EnabledMeansServing == mcpEnabled => mcpUp /\ hasToken

\* Whenever the portal's server is up its access point is up too: tools, stops
\* and failed stops never leave a portal nobody can reach.
PortalReachable == portal.up => radio.ap

\* An idle main loop takes forms, or its next tick leaves provisioning for the
\* submitted network, or its next tick enters provisioning, or the device is
\* connected with the link and the MCP server up; and no connect starts after
\* its credentials are gone.  The exception is named: a connected device whose
\* link was lost or given up, or whose discovery or MCP server did not start
\* (cutOff), waits as it is: no tick takes that up (app_controller.c:180-185).
NeverStranded ==
  /\ pc = "idle" =>
       \/ state = "PROVISIONING" /\ portal.armed
       \/ state = "PROVISIONING" /\ prov.state = "CONNECTED" /\ provisioned
       \/ state # "PROVISIONING" /\ ~provisioned
       \/ state = "CONNECTED_IDLE" /\ (cutOff \/ (radio.link /\ mcpUp))
  /\ pc = "connect" => provisioned

\* Once reset_network has answered ok, no reboot finds the old network in NVS
\* until a form stores a new one.
AckedResetDurable == resetAcked => nvs.net = NoNetwork

\* The network of a form answered with "saved" is in NVS until something
\* clears or replaces it, across any power cycle.
AcceptedNetworkDurable ==
  accepted # NoSubmission => nvs.net = accepted.net

\* With no write pending and the last one successful, the blob is what RAM
\* holds: no task's change is lost by another task's write.
BlobMatchesRam ==
  pc \notin {"init", "halted"} /\ ~persistFailed
    /\ ~MainWrites /\ ~PostWrites /\ ~ToolWrites => nvs = ram

(* The inductive strengthening of the invariants above: where the main task  *)
(* must be for a server to be up, and what a handler in progress may assume. *)

PortalPlaces ==
  /\ portal.armed => portal.up
  /\ portal.up => \/ pc \in {"set_handlers", "set_active", "portal_stop"}
                  \/ pc = "idle" /\ state = "PROVISIONING"
  /\ pc \in {"set_handlers", "set_active"} => portal.up
  /\ post.at # "idle" => portal.up

McpPlaces ==
  /\ mcpUp => \/ pc \in {"mcp_policy", "disconnect", "start_provisioning",
                          "mcp_stop"}
              \/ pc = "idle" /\ state # "PROVISIONING"
  /\ pc \in {"discovery", "mcp_start", "mcp_policy"} => state = "CONNECTED_IDLE"
  /\ pc = "mcp_policy" \/ tool # "idle" => mcpUp
  /\ mcpEnabled => mcpUp /\ hasToken /\ pc # "mcp_stop"

FormInHand ==
  /\ post.at \in {"set_token", "persist_token"} => post.form.token # NoToken
  /\ post.at \notin {"idle", "set_wifi"} => ram.net = post.form.net
  /\ post.at \notin {"idle", "set_wifi", "persist_wifi"}
       => nvs.net = post.form.net /\ accepted = NoSubmission /\ ~resetAcked

ResetInHand ==
  /\ tool = "persist" => ram.net = NoNetwork
  /\ resetAcked => nvs.net = NoNetwork
  /\ resetAcked /\ post.at # "persist_wifi" => ram.net = NoNetwork

\* What keeps the servers apart and the acknowledged configuration durable.
SafetyInv == /\ PortalPlaces /\ McpPlaces /\ FormInHand /\ ResetInHand
             /\ AcceptedNetworkDurable

\* The service a client can reach; "both" is no service of the lifecycle.
Offered == IF portal.up /\ mcpUp THEN "both"
           ELSE IF portal.up THEN "portal"
           ELSE IF mcpUp THEN "mcp" ELSE "none"

Life == INSTANCE Lifecycle WITH mode <- state, service <- Offered

\* The tasks together implement the lifecycle: modes follow its edges only, and
\* a server starts and stops only in the modes that allow it.
LifecycleImplemented == Life!Behaviour

\* The main task never waits forever: no join waits on a handler that waits
\* for the main task.
MainTaskNeverStuck ==
  \A point \in MainPoints \ {"idle", "halted"} : pc = point ~> pc # point

\* A reset_network answered ok brings the device into provisioning, or to a
\* failed attempt at it, or it is power-cycled first.
ResetLeadsToProvisioning ==
  (resetAcked /\ mcpUp) ~>
    (state \in {"PROVISIONING", "ERROR_RECOVERY"} \/ pc = "init")

\* A submission the tick can see is acted on: the device connects, or fails to
\* take its access point down and tries again, or it is power-cycled first.
SubmissionIsTried ==
  (pc = "idle" /\ state = "PROVISIONING" /\ prov.state = "CONNECTED") ~>
    (pc \in {"stop_ap", "connect", "init"})

-----------------------------------------------------------------------------
(* What the repository says of the program, and the code does not do *)

\* provisioning_http.c:168 answers "Configuration saved. The device is
\* switching to your Wi-Fi network now.": while the main loop idles in
\* provisioning, an accepted form is visible to its next tick.
AcceptedFormIsPending ==
  pc = "idle" /\ state = "PROVISIONING" /\ accepted # NoSubmission
    => prov.state = "CONNECTED"

\* provisioning_http.c:165 answers "Invalid setup data" to a form that was not
\* taken: the device then connects only with what it accepted.
ConnectsAsAccepted ==
  pc = "await_link" /\ accepted # NoSubmission => ram.net = accepted.net

=============================================================================
