----------------------------- MODULE WifiStation ---------------------------
(***************************************************************************)
(* The Wi-Fi driver layer (wifi.c) under the sequence of calls the         *)
(* controller makes through network_service.c and provisioning_service.c,  *)
(* with one MCP tool that scans or disconnects at the same time.           *)
(*                                                                         *)
(* Three actors meet in g_status, the two netif flags and the event bits:  *)
(* the calling tasks, the ESP-IDF driver that posts events, and the event  *)
(* task that handles them later, in the order they were posted.            *)
(***************************************************************************)
EXTENDS Naturals, Sequences

CONSTANT MaxEvents    \* length of the event task's queue

\* One call posts at most four events
ASSUME QueueAssumption == MaxEvents \in Nat /\ MaxEvents >= 4

VARIABLES
  main,      \* the main task: the driver call it is about to make
  tool,      \* the MCP task's tool; "down" when the server is not running
  st,        \* g_status, g_sta_netif_up, g_ap_netif_up
  bits,      \* g_wifi_events
  driver,    \* mode, started, the station's link, a scan in progress
  events,    \* posted and not handled yet
  answer,    \* result of the last wifi_connect_sta
  attempt,   \* history: what the driver did since esp_wifi_connect
  ignored    \* history: wifi_set_mode_and_start ignored a failed stop

vars == <<main, tool, st, bits, driver, events, answer, attempt, ignored>>

MainPoints == {"begin", "connect", "clear", "join", "wait", "online",
               "reset_stop", "start_ap", "ap_status", "portal", "recovery",
               "stop_ap", "disconnect", "disconnect_status", "mcp_join"}
ToolPoints == {"down", "idle", "scan_wait", "disconnect_status"}
Events == {"AP_START", "AP_STOP", "STA_CONNECTED", "GOT_IP",
           "STA_DISCONNECTED", "SCAN_DONE"}
Bits    == {"CONNECTED", "FAILED", "SCAN_DONE"}
Answers == {"none", "ok", "failed", "timeout", "refused"}
Links   == {"none", "joining", "associated", "address"}

-----------------------------------------------------------------------------
(* The driver, as wifi.c uses it *)

ApOn(d) == d.on /\ d.mode = "APSTA"

EventIf(condition, e) == IF condition THEN <<e>> ELSE <<>>

Stopped(d)    == [d EXCEPT !.on = FALSE, !.link = "none", !.scanning = FALSE]
StopEvents(d) == EventIf(d.link # "none", "STA_DISCONNECTED")
                   \o EventIf(d.scanning, "SCAN_DONE")
                   \o EventIf(ApOn(d), "AP_STOP")

\* esp_wifi_set_mode and esp_wifi_start
Started(d, mode)     == [d EXCEPT !.mode = mode, !.on = TRUE]
StartEvents(d, mode) == EventIf(ApOn(d) /\ mode = "STA", "AP_STOP")
                          \o EventIf(~ApOn(d) /\ mode = "APSTA", "AP_START")

\* The driver waits when the queue has no room
Post(es) == /\ Len(events) + Len(es) <= MaxEvents
            /\ events' = events \o es

\* What the driver does on its own

Associate ==
  /\ driver.link = "joining"
  /\ driver' = [driver EXCEPT !.link = "associated"]
  /\ Post(<<"STA_CONNECTED">>)
  /\ UNCHANGED <<main, tool, st, bits, answer, attempt, ignored>>

ObtainAddress ==
  /\ driver.link = "associated"
  /\ driver' = [driver EXCEPT !.link = "address"]
  /\ Post(<<"GOT_IP">>)
  /\ attempt' = attempt \cup {"address"}
  /\ UNCHANGED <<main, tool, st, bits, answer, ignored>>

\* Wrong password, no such network, or the link is lost later
LoseLink ==
  /\ driver.link # "none"
  /\ driver' = [driver EXCEPT !.link = "none"]
  /\ Post(<<"STA_DISCONNECTED">>)
  /\ attempt' = attempt \cup {"drop"}
  /\ UNCHANGED <<main, tool, st, bits, answer, ignored>>

FinishScan ==
  /\ driver.scanning
  /\ driver' = [driver EXCEPT !.scanning = FALSE]
  /\ Post(<<"SCAN_DONE">>)
  /\ UNCHANGED <<main, tool, st, bits, answer, attempt, ignored>>

-----------------------------------------------------------------------------
(* wifi_event_handler, in the event task *)

\* Mutated: a lost link leaves the address behind
AfterEventKeepsAddress(e) ==
  CASE e = "STA_DISCONNECTED" -> [st EXCEPT !.connected = FALSE,
                                            !.staUp = FALSE]
    [] e = "AP_START" -> [st EXCEPT !.apUp = TRUE, !.mode = "AP"]
    [] e = "AP_STOP"  -> [st EXCEPT !.apUp = FALSE]
    [] e = "GOT_IP"   -> [st EXCEPT !.staUp = TRUE, !.connected = TRUE,
                                    !.mode = "STA", !.ip = "station"]
    [] OTHER          -> st

\* Mutated: the access point's start is taken for granted
AfterEventApStartIgnored(e) ==
  CASE e = "STA_DISCONNECTED" -> [st EXCEPT !.connected = FALSE,
                                            !.staUp = FALSE, !.ip = "none"]
    [] e = "AP_STOP" -> [st EXCEPT !.apUp = FALSE]
    [] e = "GOT_IP"  -> [st EXCEPT !.staUp = TRUE, !.connected = TRUE,
                                   !.mode = "STA", !.ip = "station"]
    [] OTHER         -> st

AfterEvent(e) ==
  CASE e = "STA_CONNECTED"    -> [st EXCEPT !.mode = "STA"]
    [] e = "STA_DISCONNECTED" -> [st EXCEPT !.connected = FALSE,
                                            !.staUp = FALSE, !.ip = "none"]
    [] e = "AP_START" -> [st EXCEPT !.apUp = TRUE, !.mode = "AP"]
    [] e = "AP_STOP"  -> [st EXCEPT !.apUp = FALSE,
                                    !.mode = IF st.staUp THEN @ ELSE "OFF"]
    [] e = "GOT_IP"   -> [st EXCEPT !.staUp = TRUE, !.connected = TRUE,
                                    !.mode = "STA", !.ip = "station"]
    [] e = "SCAN_DONE" -> st

BitOf(e) == CASE e = "STA_DISCONNECTED" -> {"FAILED"}
              [] e = "GOT_IP"           -> {"CONNECTED"}
              [] e = "SCAN_DONE"        -> {"SCAN_DONE"}
              [] OTHER                  -> {}

HandleEvent ==
  /\ events # <<>>
  /\ st' = AfterEvent(Head(events))
  /\ bits' = bits \cup BitOf(Head(events))
  /\ events' = Tail(events)
  /\ UNCHANGED <<main, tool, driver, answer, attempt, ignored>>

-----------------------------------------------------------------------------
(* wifi_set_mode_and_start: the result of esp_wifi_stop is ignored *)

RestartAfterStop(mode) ==
  /\ driver' = Started(Stopped(driver), mode)
  /\ Post(StopEvents(driver) \o StartEvents(Stopped(driver), mode))
  /\ UNCHANGED ignored

RestartWithoutStop(mode) ==
  /\ driver' = Started(driver, mode)
  /\ Post(StartEvents(driver, mode))
  /\ ignored' = TRUE

Restart(mode) == RestartAfterStop(mode) \/ RestartWithoutStop(mode)

\* esp_wifi_set_mode or esp_wifi_start fails, after the stop or in spite of it: a
\* driver that still runs takes the new mode at once
RestartFailsAfterStop(mode) ==
  /\ driver' \in {Stopped(driver), [Stopped(driver) EXCEPT !.mode = mode]}
  /\ Post(StopEvents(driver))
  /\ UNCHANGED ignored

RestartFailsWithoutStop(mode) ==
  /\ \/ UNCHANGED <<driver, events>>
     \/ /\ driver' = [driver EXCEPT !.mode = mode]
        /\ Post(IF driver.on THEN StartEvents(driver, mode) ELSE <<>>)
  /\ ignored' = TRUE

RestartFails(mode) == RestartFailsAfterStop(mode) \/ RestartFailsWithoutStop(mode)

-----------------------------------------------------------------------------
(* wifi_connect_sta, called by app_controller_connect_runtime *)

Begin ==
  /\ main = "begin"
  /\ main' \in {"connect", "start_ap"}
  /\ UNCHANGED <<tool, st, bits, driver, events, answer, attempt, ignored>>

ConnectRestart ==
  /\ main = "connect" /\ main' = "clear"
  /\ Restart("STA")
  /\ UNCHANGED <<tool, st, bits, answer, attempt>>

ConnectRestartFails ==
  /\ main = "connect" /\ main' = "reset_stop"
  /\ RestartFails("STA")
  /\ answer' = "refused"
  /\ UNCHANGED <<tool, st, bits, attempt>>

\* Mutated: the bits of an earlier attempt are still there
ConnectClearKeepsBits ==
  /\ main = "clear" /\ main' = "join"
  /\ st' = [st EXCEPT !.connected = FALSE, !.ip = "none", !.mode = "STA"]
  /\ UNCHANGED <<tool, bits, driver, events, answer, attempt, ignored>>

\* Hostname and station configuration, then the bits and the status
ConnectClear ==
  /\ main = "clear" /\ main' = "join"
  /\ bits' = bits \ {"CONNECTED", "FAILED"}
  /\ st' = [st EXCEPT !.connected = FALSE, !.ip = "none", !.mode = "STA"]
  /\ UNCHANGED <<tool, driver, events, answer, attempt, ignored>>

ConfigRefused ==
  /\ main = "clear" /\ main' = "reset_stop"
  /\ answer' = "refused"
  /\ UNCHANGED <<tool, st, bits, driver, events, attempt, ignored>>

\* esp_wifi_connect: the attempt starts here
Join ==
  /\ main = "join" /\ main' = "wait"
  /\ driver' = [driver EXCEPT !.link = IF @ = "none" THEN "joining" ELSE @]
  /\ attempt' = {} /\ answer' = "none"
  /\ UNCHANGED <<tool, st, bits, events, ignored>>

\* Mutated: the driver's own error is handed on
JoinRefusedUnmapped ==
  /\ main = "join" /\ main' = "reset_stop"
  /\ answer' = "esp_fail"
  /\ UNCHANGED <<tool, st, bits, driver, events, attempt, ignored>>

JoinRefused ==
  /\ main = "join" /\ main' = "reset_stop"
  /\ answer' = "refused"
  /\ UNCHANGED <<tool, st, bits, driver, events, attempt, ignored>>

\* xEventGroupWaitBits returns and clears both bits; CONNECTED is looked at
\* first.  The controller goes on to start the MCP server, or fails to.
WaitConnected ==
  /\ main = "wait" /\ "CONNECTED" \in bits
  /\ main' = "online" /\ answer' = "ok"
  /\ tool' \in {"idle", "down"}
  /\ bits' = bits \ {"CONNECTED", "FAILED"}
  /\ UNCHANGED <<st, driver, events, attempt, ignored>>

WaitFailed ==
  /\ main = "wait" /\ "FAILED" \in bits /\ "CONNECTED" \notin bits
  /\ main' = "reset_stop" /\ answer' = "failed"
  /\ bits' = bits \ {"FAILED"}
  /\ UNCHANGED <<tool, st, driver, events, attempt, ignored>>

WaitTimesOut ==
  /\ main = "wait" /\ bits \cap {"CONNECTED", "FAILED"} = {}
  /\ main' = "reset_stop" /\ answer' = "timeout"
  /\ UNCHANGED <<tool, st, bits, driver, events, attempt, ignored>>

-----------------------------------------------------------------------------
(* wifi_stop_ap *)

AfterStopAp == [st EXCEPT !.apUp = FALSE,
                          !.mode = IF st.staUp THEN @ ELSE "OFF",
                          !.ip   = IF st.staUp THEN @ ELSE "none"]

StopAp ==
  /\ driver' = Stopped(driver) /\ Post(StopEvents(driver))
  /\ st' = AfterStopAp

\* provisioning_service_reset after a failed connect ignores the result
ResetStop ==
  /\ main = "reset_stop" /\ main' = "start_ap"
  /\ StopAp \/ UNCHANGED <<driver, events, st>>
  /\ UNCHANGED <<tool, bits, answer, attempt, ignored>>

\* provisioning_service_stop hands it on: the tick comes back
PortalStop ==
  /\ main = "stop_ap"
  /\ \/ main' = "connect" /\ StopAp
     \/ main' = "portal" /\ UNCHANGED <<driver, events, st>>
  /\ UNCHANGED <<tool, bits, answer, attempt, ignored>>

-----------------------------------------------------------------------------
(* wifi_start_ap, called by provisioning_service_start *)

StartApRestart ==
  /\ main = "start_ap" /\ main' = "ap_status"
  /\ Restart("APSTA")
  /\ UNCHANGED <<tool, st, bits, answer, attempt>>

StartApRestartFails ==
  /\ main = "start_ap" /\ main' = "recovery"
  /\ RestartFails("APSTA")
  /\ UNCHANGED <<tool, st, bits, answer, attempt>>

StartApStatus ==
  /\ main = "ap_status" /\ main' = "portal"
  /\ st' = [st EXCEPT !.mode = "AP", !.connected = FALSE, !.staUp = FALSE,
                      !.ip = "ap"]
  /\ UNCHANGED <<tool, bits, driver, events, answer, attempt, ignored>>

\* esp_wifi_set_config or esp_netif_get_ip_info fails, with the AP on
StartApConfigFails ==
  /\ main = "ap_status" /\ main' = "recovery"
  /\ UNCHANGED <<tool, st, bits, driver, events, answer, attempt, ignored>>

\* A client reaches the portal only through the access point's DHCP server,
\* which the event task starts when it handles AP_START
Submitted ==
  /\ main = "portal" /\ main' = "stop_ap"
  /\ ApOn(driver) /\ \A i \in DOMAIN events : events[i] # "AP_START"
  /\ UNCHANGED <<tool, st, bits, driver, events, answer, attempt, ignored>>

-----------------------------------------------------------------------------
(* wifi_disconnect_sta, called by the tick after a reset and by a tool *)

Disconnected == [st EXCEPT !.connected = FALSE, !.mode = "OFF", !.ip = "none"]

DropLink ==
  /\ driver' = [driver EXCEPT !.link = "none"]
  /\ Post(EventIf(driver.link # "none", "STA_DISCONNECTED"))

\* After a reset, or after a start of the portal that failed
TickUnprovisioned ==
  /\ main \in {"online", "recovery"} /\ main' = "disconnect"
  /\ UNCHANGED <<tool, st, bits, driver, events, answer, attempt, ignored>>

MainDisconnect ==
  /\ main = "disconnect"
  /\ \/ main' = "disconnect_status" /\ DropLink
     \/ main' = "mcp_join" /\ UNCHANGED <<driver, events>>
  /\ UNCHANGED <<tool, st, bits, answer, attempt, ignored>>

MainDisconnectStatus ==
  /\ main = "disconnect_status" /\ main' = "mcp_join"
  /\ st' = Disconnected
  /\ UNCHANGED <<tool, bits, driver, events, answer, attempt, ignored>>

\* mcp_server_stop joins the MCP task before the portal is started
McpJoin ==
  /\ main = "mcp_join" /\ main' = "start_ap"
  /\ tool \in {"idle", "down"} /\ tool' = "down"
  /\ UNCHANGED <<st, bits, driver, events, answer, attempt, ignored>>

-----------------------------------------------------------------------------
(* The MCP task: wifi_scan and wifi_disconnect_sta *)

\* Mutated: the two modes change places
ScanModeSwapped == IF st.apUp THEN "STA" ELSE "APSTA"

ScanMode == IF st.apUp THEN "APSTA" ELSE "STA"

ScanStart ==
  /\ tool = "idle" /\ tool' = "scan_wait"
  /\ driver.link # "joining"
  /\ driver' = [Started(driver, ScanMode) EXCEPT !.scanning = TRUE]
  /\ Post(StartEvents(driver, ScanMode))
  /\ bits' = bits \ {"SCAN_DONE"}
  /\ UNCHANGED <<main, st, answer, attempt, ignored>>

\* esp_wifi_set_mode, esp_wifi_start or esp_wifi_scan_start fails
ScanFails ==
  /\ tool = "idle"
  /\ \/ UNCHANGED <<driver, events, bits>>
     \/ /\ driver' = Started(driver, ScanMode)
        /\ Post(StartEvents(driver, ScanMode))
        /\ bits' = bits \ {"SCAN_DONE"}
  /\ UNCHANGED <<main, tool, st, answer, attempt, ignored>>

ScanDone ==
  /\ tool = "scan_wait" /\ "SCAN_DONE" \in bits /\ tool' = "idle"
  /\ bits' = bits \ {"SCAN_DONE"}
  /\ UNCHANGED <<main, st, driver, events, answer, attempt, ignored>>

ScanTimesOut ==
  /\ tool = "scan_wait" /\ "SCAN_DONE" \notin bits /\ tool' = "idle"
  /\ UNCHANGED <<main, st, bits, driver, events, answer, attempt, ignored>>

ToolDisconnect ==
  /\ tool = "idle" /\ tool' = "disconnect_status"
  /\ DropLink
  /\ UNCHANGED <<main, st, bits, answer, attempt, ignored>>

ToolDisconnectStatus ==
  /\ tool = "disconnect_status" /\ tool' = "idle"
  /\ st' = Disconnected
  /\ UNCHANGED <<main, bits, driver, events, answer, attempt, ignored>>

-----------------------------------------------------------------------------
Init ==
  /\ main = "begin" /\ tool = "down"
  /\ st = [mode |-> "OFF", connected |-> FALSE, ip |-> "none",
           staUp |-> FALSE, apUp |-> FALSE]
  /\ bits = {} /\ events = <<>>
  /\ driver = [mode |-> "STA", on |-> FALSE, link |-> "none",
               scanning |-> FALSE]
  /\ answer = "none" /\ attempt = {} /\ ignored = FALSE

DriverStep == Associate \/ ObtainAddress \/ LoseLink \/ FinishScan

ConnectStep == \/ ConnectRestart \/ ConnectRestartFails \/ ConnectClear
               \/ ConfigRefused \/ Join \/ JoinRefused
               \/ WaitConnected \/ WaitFailed \/ WaitTimesOut

PortalStep == \/ StartApRestart \/ StartApRestartFails \/ StartApStatus
              \/ StartApConfigFails \/ Submitted \/ PortalStop \/ ResetStop

DisconnectStep == \/ TickUnprovisioned \/ MainDisconnect
                  \/ MainDisconnectStatus \/ McpJoin

ToolStep == \/ ScanStart \/ ScanFails \/ ScanDone \/ ScanTimesOut
            \/ ToolDisconnect \/ ToolDisconnectStatus

Next == \/ Begin \/ ConnectStep \/ PortalStep \/ DisconnectStep
        \/ ToolStep \/ DriverStep \/ HandleEvent

Spec == Init /\ [][Next]_vars

-----------------------------------------------------------------------------
(* Properties *)

TypeOK ==
  /\ main \in MainPoints /\ tool \in ToolPoints
  /\ st \in [mode : {"OFF", "STA", "AP"}, connected : BOOLEAN,
             ip : {"none", "station", "ap"}, staUp : BOOLEAN, apUp : BOOLEAN]
  /\ bits \subseteq Bits
  /\ driver \in [mode : {"STA", "APSTA"}, on : BOOLEAN, link : Links,
                 scanning : BOOLEAN]
  /\ events \in Seq(Events)
  /\ answer \in Answers
  /\ attempt \subseteq {"address", "drop"}
  /\ ignored \in BOOLEAN

\* wifi_connect_sta never answers for an earlier attempt: it returns success
\* only when the driver obtained an address since this esp_wifi_connect, and
\* failure only when the driver reported a disconnect since.  An answer from
\* a late event would make the controller erase good credentials.
AnswersAreOfThisAttempt ==
  ~ignored => /\ answer = "ok" => "address" \in attempt
              /\ answer = "failed" => "drop" \in attempt

\* No event is on its way and no caller is between a driver call and the
\* assignments that follow it.
Quiet == /\ events = <<>>
         /\ main \notin {"clear", "ap_status", "disconnect_status"}
         /\ tool # "disconnect_status"

\* What wifi_get_status reports, and the status screen shows, is what the
\* driver has: a link with an address or none, whatever order calls of two
\* tasks and late events came in.
StatusTellsLink ==
  Quiet /\ ~ignored =>
    /\ st.connected <=> driver.link = "address"
    /\ st.ip = "station" <=> driver.link = "address"

\* g_ap_netif_up, by which wifi_scan decides the mode it switches to, is what
\* the driver has.
ApFlagTells == Quiet => (st.apUp <=> ApOn(driver))

\* A scan, which calls esp_wifi_set_mode and esp_wifi_start under the feet of
\* the main task, changes neither the link nor the access point.
ScanKeepsRadio ==
  [][ScanStart \/ ScanFails =>
       driver'.link = driver.link /\ ApOn(driver') = ApOn(driver)]_vars
=============================================================================
