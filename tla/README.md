# Verification of the reTerminal E1001 e-paper MCP firmware

TLA+ modules that model the firmware under `src/firmware`, the TLC runs that
check them and the theorems TLAPS proves about them. The reference is the C
code; where a document, a comment or an answer of the program says something
the code does not do, a run shows it (section *Disagreements*).

## 1. Inventory

The firmware is one ESP-IDF image. Three tasks run application code: the main
task (`app_main.c`), the `esp_http_server` task of the provisioning portal and
the one of the MCP server. The Wi-Fi and IP events arrive in the system event
task. Components call each other directly and keep their state in file-scope
globals; **no mutex, queue or critical section exists in the application
code**. What keeps tasks apart is the order in which the main task starts and
stops the two servers, and that `httpd_stop` joins the server's task.

| component | source | state | operations | interacts through |
|---|---|---|---|---|
| application controller | `core/src/app_controller.c`, `main/app_main.c` | `g_state`, `g_mcp_enabled`, the last status screen | init, run, tick every 5 s, status screen | calls every service; reads provisioning status and config the portal's task writes |
| provisioning service and portal | `services/src/provisioning_service.c`, `platform/src/provisioning_http.c` | `g_active`, `g_status`, `g_server`, `g_handlers` | start, stop, submit (portal task), request_reset (MCP task), reset | soft AP, HTTP form, config service |
| configuration | `services/src/config_service.c`, `platform/src/storage_nvs.c` | `g_cfg`, one NVS blob | init, get, patch, credentials, token, reset_defaults | called by all three tasks |
| network service | `services/src/network_service.c`, `platform/src/network_mdns.c` | mDNS started, discovery status | connect from config, disconnect, discovery | Wi-Fi driver, config |
| Wi-Fi driver | `platform/src/wifi.c` | `g_status`, event bits, init flags | start/stop AP, connect, disconnect, scan | asynchronous driver events |
| render pipeline | `services/src/render_service.c`, `platform/src/display_epaper.c` | framebuffer, committed framebuffer, drive mode, power, busy, refresh count, last job | status screen (main task), text, clear, refresh (MCP task) | SPI panel that may fail or stay busy |
| MCP | `mcp/src/mcp_server.c`, `mcp_dispatch.c`, `mcp_registry.c` | server handle; buffers of the one request in progress | start, stop, find and decode the token, 26 tools and resources | every service |
| environment sensor | `platform/src/environment_sensor.c`, `services/src/status_service.c` | presence and address, serial number, last reading | find, identify, measure with three attempts | I2C; called by main and MCP tasks |
| stubs | `power.c`, `battery.c`, `storage_sd.c`, `buttons.c`, `board.c`, `asset_service.c` | constants | constant answers | - |

### What is hard

* interleaving of the main task with two HTTP tasks over unlocked globals;
* joins: stopping a server waits for its handler, which may wait for the panel,
  a scan or NVS;
* every call into a driver may fail, and results are often ignored;
* power may be lost between a change in RAM and its write, and a write that
  reports an error may or may not have reached the blob;
* the panel goes on when the driver's wait for it has timed out;
* Wi-Fi events arrive when nobody waits for them any more;
* the status screen and an MCP tool measure with one sensor over one I2C handle;
* a string passes through a browser's encoding, a read that may be partial, two
  different decoders and buffers of different sizes before it is compared;
* rectangles come from a client and are added in 16 bits.

### What makes each component correct

* controller: the portal and the MCP server never run together; the main loop
  can always go on; modes follow the lifecycle; a reset or a submission that
  was acknowledged survives and takes effect;
* configuration: what was acknowledged is what the next boot finds; flags and
  strings agree; one writer at a time;
* render pipeline: the OLD plane is what the panel shows, a successful refresh
  shows the framebuffer, busy is never left set, partial refreshes are bounded;
* Wi-Fi: the status agrees with the driver once its events are handled; a
  connect returns success only with an address;
* portal and MCP: the network a form names is the one that is joined; the token
  it names opens the server and nothing else does;
* drawing: what a request has drawn and reports as refreshed is in the window
  that was refreshed;
* sensor: a reported reading is one measurement, and one of this call.

## 2. Plan

The order is that of the damage an error would do: first the tasks that start
and stop everything, then the pipeline with the hardest error paths, then the
two components below them, then the algorithms.

| step | modules | content | state |
|---|---|---|---|
| 1 | `AppController`, `Lifecycle`, `AppController_proofs` | three tasks over shared globals, refinement of the documented lifecycle, inductive invariant | done |
| 2 | `Display` | render pipeline against a failing panel, one or two tasks | done |
| 3 | `ConfigStore`, `DurableRegister`, `ConfigStore_proofs` | the blob under failed writes and power loss, refinement proved | done |
| 4 | `WifiStation` | driver calls, event queue, status | done |
| 5 | `UrlText`, `DeviceConfig`, `PortalForm`, `McpDispatch`, `Onboarding` | a form to the configuration and the Wi-Fi driver; a client's request to the services; both over one configuration | done |
| 6 | `Region` | 16-bit arithmetic of fills, texts and windows | done |
| 7 | `EnvironmentSensor`, `EnvironmentSensor_proofs` | presence, serial number, retries, last reading, two tasks | done |
| 8 | `Display_proofs` | every invariant of `Display`, for any regions and budget | done |
| 9 | `AppRuntime_proofs` | `PortalReachable`, `NeverStranded`, `BlobMatchesRam`, `LifecycleImplemented` | done |
| 10 | `WifiStation_proofs` | every invariant of `WifiStation` and `ScanKeepsRadio`, for any queue | done |
| 11 | `Onboarding_proofs` | `DrawnIsShown`, for any panel and requests; every other invariant of `Onboarding`, for any texts and widths | done |
| 12 | `PortalForm_proofs` | encoding, decoding and partial reception, for texts of any length | done |

`Onboarding` composes `PortalForm` and `McpDispatch`, which share the variables
of `DeviceConfig` and use `UrlText` and `Region`. `Display`, `ConfigStore`,
`WifiStation`, `EnvironmentSensor` and `Onboarding` are not instantiated inside
`AppController`; they meet it at interfaces that are checked on both sides:

* `ConfigStore` runs one operation at a time. `OneConfigWriter`, proved of
  `AppController`, says that its callers never overlap between the change of
  `g_cfg` and its write. `AppController` takes from `ConfigStore` that a write
  is the old blob or the new one (`Persist`) and that the next boot loads it
  (`StoreKeepsPromise`).
* `AppController` gives a connect three outcomes without looking inside;
  `WifiStation` shows which events they answer. `WifiStation` runs the calls
  in the order in which `AppController`'s main task makes them.
* `Display` and `EnvironmentSensor` have the two tasks that `AppController`
  shows to exist: the main task between ticks, and the MCP server's task.
* `Onboarding` takes from `AppController` that the portal and the MCP server
  never run together (`PortalAndMcpExclusive`) and that nobody writes the
  configuration between the calls of a form (`OneConfigWriter`): a submission is
  one step there, and so is the switch from the portal to the server. It takes
  from `ConfigStore` that a write is reported, or fails with the old blob or the
  new one.

## 3. Modules and code

### AppController

`pc` is the main task's point: the call it is about to make. A step runs to the
next point at which another task can see or disturb what happens. `caller` is
`run` until `app_controller_run` has returned, because an error then ends
`app_main` (`halted`), and `tick` afterwards. `state`, `mcpEnabled`, `ram` and
`nvs` are `g_state`, `g_mcp_enabled`, `g_cfg` and the blob; `prov` is
`g_status.state` and `g_active` of the provisioning service; `portal.up` and
`portal.armed` are `g_server` and the handlers of `provisioning_http.c`, two
assignments with a window between them. `post` is the handler of
`POST /api/provision`, call by call, in the portal's task; `tool` is a tool in
the MCP task (one that works, one that disconnects, `reset_network`).
`resetAcked` and `accepted` are history: what a client was told. So is `cutOff`:
since the connect began, the link was lost or given up (`disconnect_wifi`), or
discovery or the MCP server did not start.

| code | actions |
|---|---|
| `app_controller_init`, `app_main` | `InitOk`, `InitFails` |
| `app_controller_run` | `RunButtonPressed`, `RunButtonPersist`, `RunUnprovisioned`, `RunProvisioned` |
| `app_controller_connect_runtime`, `provisioning_service_reset` | `ConnectBegin`, `ConnectOk`, `ConnectFails`, `ResetPortal`, `ResetPersist`, `StartDiscovery`, `StartDiscoveryFails` |
| `app_controller_enable_mcp_if_allowed` | `McpStart`, `McpStartFails`, `McpPolicy` |
| `app_controller_start_provisioning`, `provisioning_service_start` | `StartProvisioning`, `McpStop`, `StartAp`, `StartApFails`, `HttpStart`, `HttpStartFails`, `SetHandlers`, `SetActive` |
| `app_controller_tick`, `provisioning_service_stop` | `TickUnprovisioned`, `TickSubmitted`, `Disconnect`, `PortalStop`, `StopAp`, `StopApError` |
| `provisioning_service_submit` | `PostArrives` to `PostFinish`, `PostRejected` |
| `provisioning_service_request_reset`, tools | `ToolArrives` to `ToolPersist` |
| environment | `LinkLost`, `PowerCycle` |

`httpd_stop` is external: it waits for the running handler (`PortalQuiet`,
`McpQuiet`) and only then closes the server.

`Lifecycle` is the abstract specification: modes, the service a client can
reach, and the edges between them. `LifecycleImplemented` maps `mode` to
`state` and `service` to the two servers.

### Display

`fb` and `committed` are the two framebuffers as functions from 8-pixel aligned
regions to what is drawn there; `drv` is `g_drive_mode`, `g_panel_powered`,
`g_partial_refresh_count` and `g_busy`; `job` is each task's place in
`render_service` and the driver. `panel` is the UC8179: its registers (or
`RESET`), power, window, both planes, what it does and what it shows. A step is
one command or transfer, one wait, or one access to shared memory. A command
sent while the panel is busy is taken or lost (`Sent`). A plane outside the
window, after a refresh or after a reset is `Wrong`: the driver must not rely on
it. A refresh with the registers of another mode shows `Wrong`. `panel.partials`
are the partial refreshes the panel has done since its last full one (told apart up
to `MaxPartials`).

`trouble` is history, and only properties read it: `failures` so far; `panel`, an
initialisation failed or a wait timed out, so that the registers are in doubt until
the next initialisation; `unseen`, the regions that no recorded refresh has reached
since the boot; `unrecorded`, those whose refresh the panel may have done while the
driver returned an error (`DoubtAfter`) or worked with registers in doubt
(`Trigger`); `uncounted`, how many partial refreshes nothing has counted. A refresh
that succeeds with registers that are not in doubt takes its regions out of both
sets, and a full one sets `uncounted` to 0.

### ConfigStore and DurableRegister

`ram` is `g_cfg`, with the device name and the unread sections as `options`;
`flash` is the blob with its size against `sizeof(device_config_t)`. Every
operation changes `ram` and writes all of it; a write ends in `Persist`: success,
or an error with the old or the new blob in flash. `PowerLoss` may come after
any step. `config_service_reset_defaults` is two steps because it writes twice.
`Init` accepts any blob, also one another firmware left. `DurableRegister` has
one value that readers see and one that survives.

### WifiStation

`main` and `tool` are the driver calls in progress, `st` is `g_status` with
the two netif flags, `bits` the event group, `driver` what the ESP-IDF driver
does, `events` what it has posted and the event task has not yet handled.
Between a call and the assignments after it other actors run. `attempt`
records what the driver did since `esp_wifi_connect`; `ignored` that
`wifi_set_mode_and_start` ignored a failed `esp_wifi_stop` (line 188).

### EnvironmentSensor

`g` is the driver's globals, `call` each task's point in
`environment_sensor_get_status` with its locals, `sensor` the SHT4x: what it
does, for whom, and what a read would return. A step is one I2C transaction or
one access to a global that the tasks share; any transaction may fail, and a
command that is reported as failed may have been taken. A measurement is an
identity, a new one for each conversion, so that a stale, a torn and a foreign
reading differ. `Serial` is the six bytes of a serial number, whose CRCs are as
valid as those of a measurement.

| code | actions |
|---|---|
| `environment_sensor_init` | `Init` (both outcomes, with and without the serial number) |
| `environment_sensor_bind_device` | `Begin`, `Probe`, `ProbeOther` |
| `environment_sensor_read_serial_number` | `SerialCheck`, `SerialCommand`, `SerialRead` |
| `environment_sensor_measure` | `Measure`, `MeasureFails`, `Read`, `ReadFails` |
| `environment_sensor_get_status` | `PresentCheck`, `StoreTemperature`, `StoreHumidity`, `Failed`, `FallbackTemperature`, `FallbackHumidity`, `Answer` |
| the sensor | `SensorFinishes` |

`CentiC`, `CentiHumidity` and `CentiF` are the integer conversions, about which
`ReadingsFit` is proved.

### UrlText, DeviceConfig, PortalForm, McpDispatch, Onboarding

`UrlText` has the page's encoding (`Encoded`, external) and the firmware's
decoders: `Lenient` keeps an escape that is none (`provisioning_http.c`),
`Strict` gives up (`mcp_server.c`, `mcp_dispatch.c`). Both are cut from `Decoded`.
`Joined` is the loop that `Encoded` and `Decoded` share: a piece for each place that
is read, and the place that is read next. A text is a sequence of bytes; a field's
name is one symbol, which is no byte (`BytesAssumption`). `DeviceConfig` has `cfg` (`g_cfg`) and
`stored` (the blob) as the four strings in the widths of their fields.

`PortalForm` is one submission: `Receptions` are the form as
`httpd_req_recv` may return it, the whole body or a beginning of it (the code
reads once), `Reject`, `NotWritten` and `Accept` its three ends; `Accept` writes
three times and looks at the first result only. `DriverSsid` and
`DriverPassword` are what `wifi_connect_sta` copies.

`McpDispatch` is one request: `TokenOf` is `mcp_server_token_from_request`
(header before query, each with its buffer), `Refuse` the refusals in the order
of `mcp_dispatch_handle` (an unknown name before the token), `Draw`, `Look`,
`DisconnectWifi` and `ResetNetwork` the calls. The panel, Wi-Fi, the sensor and
the configuration have outcomes here; `Refresh` gives the windows that
`render_service_refresh` may send.

`Onboarding` puts both over one configuration: `phase` is where the controller
is, `Join` and `JoinFails` the connect, `Restart` and `RestartWithButton` a power
cycle. `form`, `last` and `agreed` are history: the last form, the last request
with its answer, and the token that the user and the device have agreed upon.

### Region

`Filled`, `Glyphs`, `TextRegion` and `Window` are `display_fill_region`,
`display_draw_text` (with `display_set_pixel`), the region that `render_text`
refreshes and `display_normalize_partial_region`, in arithmetic modulo `Word`
(2^16); `Refreshable` adds the check of the row buffer and `Sent` the bytes that
`display_upload_partial_region_data` sends.

## 4. Runs

| run | properties | bounds, and why they are enough |
|---|---|---|
| `app` | the safety invariants, `LifecycleImplemented`, `MainTaskNeverStuck`, `ResetLeadsToProvisioning`, `SubmissionIsTried` | two networks, so that an old one can come back after a new one; one token, with "no token"; no other bound |
| `display_driver` | belief, planes, budget and busy of one task with failures | two regions (one in, one outside the window), one mark and blank, a budget of one (the smallest that has a partial refresh and its exhaustion), two failures (the second hits what the first one left); `MaxPartials` 4, more than the 3 partial refreshes that a budget of one and two failures allow; states that differ only in the last render's record or in what has been drawn already are one (`ToolView`): no step looks at these; 2.9 million states |
| `display_tasks` | `CountBounded` with both tasks | one region and no failures: the property depends on the points of the tasks, not on the image |
| `display_liveness` | `StatusScreenConverges` | main task alone, two statuses (so that one comes back), two failures, any number of changes |
| `config_store` | types, flags, own blobs, reset, refinement | two SSIDs and one of each other string, with the empty one: the operations compare strings with the empty one only |
| `wifi_station` | answers, status, AP flag, scan | a queue of four events, the most one call posts; a full queue makes the driver wait |
| `sensor` | one measurement, fresh, bound | two tasks, the most there are; eight identities, one more than can be held at a time |
| `onboarding` | types, network, token, drawing | fields of 2 to 6 bytes and texts around each width, seven forms that hold what the decoders treat differently; a panel of 40 by 32 in words of 256, rectangles inside, across and beyond its edges and with edges that wrap |

Four more runs each find the disagreement they are named for (section 7):
`app_lost_submission`, `app_rejected_form_used`, `display_overlap`,
`display_full_refresh`.

What the passing runs show, beyond types:

* `PortalAndMcpExclusive`, `OneConfigWriter`: the order of starts and joins is
  enough to keep the servers and the writers of `g_cfg` apart, in every
  interleaving and across every failure, although nothing is locked.
* `HaltedServesNothing`, `PortalReachable`: no failure of a start or a stop leaves
  a server without a main loop, or a portal without its access point.
* `NeverStranded`: an idle main loop takes forms, or leaves or enters provisioning
  at its next tick, or is connected with the link and the MCP server up. The one
  exception is in the formula, `cutOff`: a connected device whose link was lost or
  given up, or whose discovery or MCP server did not start, waits as it is, and no
  tick takes that up (section 7). The MCP server that is up may be one without a
  token, which refuses every request (section 7).
* `AckedResetDurable`, `AcceptedNetworkDurable`, `BlobMatchesRam`: what a client
  was told about the network stays true across any power cycle.
* `BeliefHolds`, `RefreshShowsFramebuffer`: with one task and whatever transfers
  failed, the driver's mode and power between renders are those of the panel, and a
  refresh that returns `ERR_OK` shows the framebuffer, as long as no initialisation
  failed and no wait timed out (`trouble.panel`); the next successful
  initialisation removes the doubt. What happens in doubt is what
  `display_full_refresh` shows.
* `OldPlaneIsShown`: with one task, the committed framebuffer between renders and
  the OLD plane during a refresh are what the panel shows, in every state and for
  every region outside two sets: `unseen`, regions not refreshed since the boot
  (the driver takes the panel for white), and `unrecorded`, regions whose refresh the
  panel had begun when the driver returned an error, or that was done with
  registers in doubt. Failures before the refresh touch neither set. Without
  `unrecorded` TLC finds the property violated (section 7).
* `GhostingBounded`: with one task, the panel sees at most the budget of partial
  refreshes between two full ones, and those that ended in an error after the panel
  had begun them (`uncounted`); between renders at most those counted and those. Without
  `uncounted` TLC finds the bound passed (section 7).
* `KeepsPromise`, `OwnBlobsBoot`, `FlagsTellContents`, `ResetKeepsNetwork`: see
  section 6. The last one is about `config_service_reset_defaults`, which is part of
  the service's interface and has no caller in the firmware.
* `AnswersAreOfThisAttempt`, `StatusTellsLink`, `ApFlagTells`, `ScanKeepsRadio`:
  late events change neither the answer of a connect nor, once handled, what
  the status says. The first two hold when `esp_wifi_stop` does not fail
  unnoticed; without that condition both are violated: a link that survived the
  stop answers the next attempt, or is reported as absent.
  `AnswersAreOfThisAttempt` also needs that a form can reach the portal only
  through the access point's DHCP server, whose start is an event handled
  before it: the queue has been drained once between two attempts.

* `ReportsOneMeasurement`, `OwnReadingIsFresh`: a reading that is reported as valid
  is one measurement, and what a task has read itself was started after its
  call began, although the second task may take the data or start the next
  conversion in between. The condition `~raced` leaves out the three places
  where the tasks must not meet, section 7. `FoundStaysBound` needs no condition.
* `JoinsAsTyped`: the network in a form that was answered "Configuration saved"
  is the one the driver gets, through encoding, partial reception, decoding,
  storing and restarts. It holds for a body received in part because the page
  sends the required `device_name` after the credentials. Only a text longer
  than the driver's field is cut (a 32-byte SSID loses its last byte).
* `TokenOpens`: the token of the last form that had one opens the server, from a
  header or from an encoded query, and no other does, through resets of the
  network and restarts. It is silent where the firmware cannot know better
  (`agreed.known`): a body received in part, or a power cycle after a write that
  was not reported as done.
* `DrawnIsShown`: if a drawing tool answers that it has refreshed, the window on
  the panel holds every pixel it has touched, for rectangles whose edges are
  16-bit numbers, whatever their position.

`AppController` and `ConfigStore` may stop (`halted`) only with a power cycle
still possible, so deadlock is checked everywhere.

## 5. Fairness

* `AppController`: weak fairness of each task's steps, since FreeRTOS runs every
  ready task and each driver call has a timeout. The three joins (`McpStop`,
  `PortalStop`, `ResetPortal`) have strong fairness: handlers may come and go
  while the join waits, but `httpd_stop` queues a control message that the
  server's task sees after the sessions already readable. No fairness of
  requests, the link or power.
* `Display`: weak fairness of each task's steps, of the status screen (called
  every 5 s) and of the panel ending what it began. `StatusScreenConverges` assumes
  that failures and changes of the status end (`Settles`), and says that from some
  moment on (`<>[]`) the status last rendered is the current one, and the panel shows
  it: the last of several changes wins, also after many successful renders. What
  the panel shows has two exceptions. Registers in doubt are one; a full
  refresh in full mode never initialises them again. The other is a status that
  came back: a render of another one failed after the panel had refreshed
  (`unrecorded`), `app_main` finds the status of now already rendered, and renders
  nothing; without this exception TLC finds the property violated (section 7).
* The other modules state no liveness.

## 6. Proofs

**AppController_proofs**, for any sets of networks and tokens. `TypeCorrect` is
inductive alone. The other theorems follow from `SafetyInv`, checked by TLC in
`app` before it was proved. It says where the main task must be for a
server to be up (`PortalPlaces`, `McpPlaces`), what the handler in progress may
assume of `g_cfg` and of the blob (`FormInHand`, `ResetInHand`), and
`AcceptedNetworkDurable`. It is needed because, for example,
`PortalAndMcpExclusive` alone is not inductive: `HttpStart` keeps it only
because the MCP server was stopped two points earlier and nothing else starts
it. The step lemma has one case per action. Assumptions: `NoNetwork` is no
network, `NoToken` no token.

**ConfigStore_proofs**, for any sets of strings that contain the empty one. The
inductive invariant is

    StoreInv == TypeOK /\ (Running => Coherent(ram) /\ Readable(flash))

where a configuration is coherent when its flags are those of its strings and
its version is 1: on coherent configurations sanitising changes nothing, so
what is loaded is what was stored (`LoadedStored`). `FlagsCorrect`,
`OwnBlobsCorrect` and `ResetCorrect` follow; `StoreKeepsPromise` maps each
operation to `Acknowledge` or `NotAcknowledged`, each start to `Start` or
`StartErased`, each power loss to `PowerOff`.

**AppRuntime_proofs**, under the same assumptions. `RuntimeInv` adds to `SafetyInv`
the mode at each point of the main task (`ModeInv`), where the network must be gone
or there and where the link is up unless the device was cut off (`StrandInv`), that
the portal's server starts behind an access point (`ReachInv`), and `BlobMatchesRam`.
`PortalIsReachable`, `IsNeverStranded` and `BlobCorrect` are parts of it.
`LifecycleCorrect` shows that every step of the three tasks is an edge of `Lifecycle`
or a stutter; without the modes at each point it could not tell which edge a step is.

**Display_proofs**, for any regions, marks, budget and number of failures.
`TypeCorrect`, `BusyCorrect` and `CountCorrect` hold with both tasks. `g_busy` is
set only by a task that then waits, and every end of a wait clears it. The
count is read in one step and incremented in another; it stays in the budget
because only the MCP task refreshes partially, so that at its points between
`choose` and `commit` the count is still below the budget (`JobInv`, `CountInv`).
The four theorems about the panel assume `OneTask` (`\E t \in Tasks : Tasks = {t}`), as
`display_driver` does: with two tasks they are false (section 7). Their
invariant says, for each point of the task, which registers, window and power
the panel has (`RegistersInv`) and which planes hold what (`PlanesInv`), as long as
the registers are not in doubt. `ImageInv` and `GhostInv` hold in doubt, too: outside
what is being refreshed, committed is shown wherever a region is neither unseen nor
unrecorded, and a refresh in doubt has left every region unrecorded; the panel's
partial refreshes are at most the count, the uncounted ones and the one that the
task has triggered and not counted yet (`Made`), of which the panel may still owe its
end (`Owed`). `OldPlaneCorrect` and `GhostingCorrect` follow, with the exceptions that
their properties name and no others.

**WifiStation_proofs**, for a queue of any length of at least four. The argument
is about what is still in the queue. `Tells(q, yes, no, f, v)` says that the
events of `q`, handled in order, turn the flag `f` into `v`; it is kept by
posting an event together with the change in the driver, and by handling one.
`ApFlagTells` and `StatusTellsLink` are its instances for an empty queue.
`ScanKeepsRadio` needs that the MCP server runs only where the access point is
off and no event of it is on its way (`ApPlaces`). `AnswersAreOfThisAttempt` needs
that the events of an earlier link come before the `AP_START` without which no
form can ask for the next attempt (`Overtaken`). `StatusCorrect` and `AnswersCorrect`
are proved under `~ignored`, which is their condition in the run, too.

**EnvironmentSensor_proofs**. `ReadingsFit`: for each of the 65536 raw words no
product overflows 32 bits and every result fits its field. `FoundStaysBoundCorrect`:
for any number of tasks, because only a probe unbinds, and no task probes a
sensor that was found. `SensorTypeCorrect`, `ReadingCorrect` and `FreshCorrect` follow from

    ReadingInv == TypeOK /\ (~raced => Readings)

for any number of tasks: whoever binds, or asks for the serial number, is alone;
data that a waiting task may find belong to a measurement of its own call
(`Waiting`); the last reading is whole, or someone is about to make it so
(`LastReading`, `Storing`, `Falling`). Without this, `ReportsOneMeasurement` is not
inductive: a reading is whole only because what was copied was. A counting lemma
(`FreshIsThere`) shows that an identity for the next measurement is always free.

**PortalForm_proofs**, for any set of bytes that has those the encoding is about, and
none that stands for a field's name (`BytesAssumption`). It is about texts of any
length and needs induction over their places. The library's induction theorems
cannot be used (they take an operator), but a set of numbers has a least one
(`Least`, from `NatLessThanWellFounded`); what fails somewhere fails at a first place
(`Upward`) and at a last one (`Downward`). With these:

* `JoinedExists`: the recursive function in `Joined` exists, so that its equation
  may be used at all; `JoinedFrom` gives its values their type.
* `EncodedByteForms`: a byte becomes itself, a plus sign, or an escape that is no
  other byte's. `EncodedEnds`: what is encoded from a place on is the end of the
  whole. So the decoder, at the place where a byte's encoding begins, gives that
  byte and goes on where the next one begins: `DecodedEncoded`, for every text and
  for all three decoders.
* `ValueOfBeginning`: what `provisioning_http_get_form_value` finds in the first *n*
  bytes of a body is the beginning of the value. `BodyEntries`: the page's body has
  each key once, since no byte of a value is a key or a separator.
* `ReceptionFacts`, for the forms of `FormsAssumption` (texts of those bytes): if
  any of the device name was received the credentials were received whole.

**Onboarding_proofs**. `WindowCovers`: for every panel whose width is a multiple of
8, and every rectangle that starts on the panel and does not wrap, the window is
on the panel, consists of whole bytes and holds every pixel of the rectangle.
`DrawnCorrect` proves `DrawnIsShown` for any panel as above and any requests that
satisfy `RequestAssumption`: a token is a text of bytes, coordinates are 16-bit
numbers, and a text that is drawn is no wider and no higher than one of 2047 bytes
can be. The glyphs of a text lie in the region
`display_draw_text` reports (`GlyphsInside`): the longest line exists (`LongestFacts`, a
set of bounded numbers has a greatest) and every cell ends before it (`CellFits`).
`WindowCovers` does the rest, or the whole panel is refreshed. This invariant is
inductive alone, since every answer is made in one step from its request.

`TypeCorrect`, `JoinsCorrect` and `TokenCorrect` follow from

    Inv == ConfigInv /\ FormInv /\ TokenInv /\ AnswerInv

for any texts, networks, requests and widths. `WidthAssumption` asks of the widths
what the C types give: the driver's fields are no wider than the configuration's
(`wifi_config_t` 31 and 63 bytes, `device_config_t` 63 and 127), and the buffer for a
request's token is wider than a token (159 and 127), or a longer token cut to it
could match. `ConfigInv` has the widths, and that the device has a network in the
phases that use one. `JoinsAsTyped` is about RAM only and therefore not inductive: a
restart brings back the blob. `FormInv` says of both that a network, if there is
one, is that of the last accepted form. `TokenInv` says of both that the token is
the one agreed upon, of the blob only if the last write was reported done, and
`AnswerInv` that a request which was served presents the token still: nothing
changes the token while an answer is on its way. TLC checked `Inv` on the states of the
`onboarding` run before it was proved.

Only model-checked: all liveness (outside the prover's reach, as is `ENABLED`). Every
invariant and every safety property of a step that a run checks is a theorem. No
module declares a RECURSIVE operator.

## 7. Disagreements

Shown by a run:

* *A form may be lost* (`app_lost_submission`). `provisioning_service_start`
  assigns `PROVISIONING_STATE_ACTIVE` after the portal takes forms
  (`provisioning_service.c:59,66`). A form in between is answered "Configuration
  saved" and never acted on.
* *A rejected form may be used* (`app_rejected_form_used`). A failed write leaves
  the new credentials in `g_cfg` (`config_service.c:166`); after an earlier
  accepted form the next tick connects with those of the rejected one.
* *Two refreshes at a time* (`display_overlap`), against
  `capability-contracts.md:111`.
* *A full refresh may not recover* (`display_full_refresh`). A failed
  initialisation has reset the panel but left `g_drive_mode`
  (`display_epaper.c:651`); the next full refresh skips the initialisation and
  returns `ERR_OK`, against `UX8179_spec.md:110-113`.

Named as exceptions in the properties; TLC finds each property violated when its
exception is taken out:

* *A connected device that was cut off stays so* (`cutOff` in `NeverStranded`). In
  `CONNECTED_IDLE` the tick looks at the credentials only
  (`app_controller.c:180-185`): a lost link, a tool's `disconnect_wifi`, a failed start
  of discovery or of the MCP server (`:45-53`) are never taken up again, against
  "bounded retries" and falling back "to provisioning or sleep"
  (`state-machine.md:83-84`).
* *The OLD frame may not follow the panel* (`trouble.unrecorded` in `OldPlaneIsShown`).
  When `POWER_OFF` or leaving the window fails after the refresh, the driver returns
  before it copies the new frame (`display_epaper.c:1024-1032`), against
  `UX8179_spec.md:175-180`.
* *Partial refreshes may go uncounted* (`trouble.uncounted` in `GhostingBounded`), on
  the same paths (`display_epaper.c:1024-1034`), so that the panel sees more in a row
  than the budget, against `UX8179_spec.md:291-299`.
* *The panel may keep a stale status* (`trouble.unrecorded` in
  `StatusScreenConverges`). A render fails after the panel has refreshed; when the
  status returns to the last one that was rendered successfully, `app_main.c:119-122`
  renders nothing, and the panel shows the other for good, against `TASK.md:32`.

Met while modelling, without a run of their own:

* the MCP server is started before the token is looked at, and stays up without
  one (`app_controller.c:87,93`), against `state-machine.md:44-47`; it then refuses
  everything (`TokenOpens`), and `EnabledMeansServing` shows that the flag is right;
* the token of an accepted form may not be durable: the result of its write is
  ignored (`provisioning_service.c:109`);
* a form of which `httpd_req_recv` returned only a beginning is answered
  "Configuration saved" if the device name had begun: the token and the rest of
  the name are lost (`provisioning_http.c:149-168`);
* the page limits a name to 63 characters (`provisioning_http.c:41`), the field
  holds 63 bytes; names are put into JSON unescaped (`mcp_dispatch.c:380`);
* where the two tasks' measurements meet, a serial number may pass for a
  measurement, and a reading may be half of each of two: at a second binding, at
  a serial number that is read late, and between the two assignments of the last
  reading (`raced`). A wait of 2 ms is no tick at `CONFIG_FREERTOS_HZ=100`, so
  that the serial number may be asked for too early
  (`environment_sensor.c:204,305`); that failure is never retried, and the three
  attempts to measure have no pause between them (`:237`);
* the `SCAN_DONE` of a scan that timed out ends the next scan (`wifi.c:416`);
* rectangles whose edges wrap in 16 bits: a lower edge that wraps passes
  `display_normalize_partial_region` with rows below the framebuffer, a right edge
  that wraps is stopped by the check of the row buffer
  (`display_epaper.c:386`); a text that starts beyond the panel may wrap and draw
  at its left edge, where its refresh is refused. `DrawnIsShown` and `WindowCovers`
  are about the others;
* a numeric argument that is present but empty is 0 (`mcp_dispatch.c:107-122`);
* the status screen never shows the hostname or the signal strength, which are
  cleared before it is drawn (`app_main.c:35-36`);
* MCP is up for some calls while the state is `UNPROVISIONED`
  (`app_controller.c:182`, `state-machine.md:53`): `Lifecycle` has the edge
  `CONNECTED_IDLE` to `UNPROVISIONED` with `mcp`;
* one failed connect erases the network and goes from `ERROR_RECOVERY` straight
  to `PROVISIONING` (`app_controller.c:39,70`), where `state-machine.md:39,83`
  has `UNPROVISIONED` in between and bounded retries;
* with two tasks the committed framebuffer may hold what the other task drew
  during the refresh (`display_epaper.c:988`, `UX8179_spec.md:175`);
* the first frame may be a partial refresh (`display_epaper.c:1002`,
  `UX8179_spec.md:297-298`);
* after a BUSY timeout commands are sent to a busy panel (`:514`,
  `UX8179_spec.md:242-249`);
* `framebuffer_updated` is lost when a draw is committed
  (`render_service.c:237`, `capability-contracts.md:81`);
* a blob larger than the structure halts the device at every start
  (`storage_nvs.c:142`, `state-machine.md:85`); this firmware never writes one
  (`OwnBlobsBoot`).

## 8. Not modelled

* The texts of answers: JSON, the portal's page, mDNS TXT entries, the status
  snapshot, logs. No property here depends on them.
* What a drawing looks like: the shapes of glyphs, foreground, font and alignment,
  the layout of the status screen, bitmaps. `Region` has which pixels may change,
  `Display` whether they reach the panel.
* The record of the discovery's status, the scan's records, hostname strings and
  the one-time initialisation of the Wi-Fi driver, whose failure ends `app_main`
  (`HaltedServesNothing`).
* Stubs (`power.c`, `battery.c`, `storage_sd.c`, `buttons.c`, `board.c`,
  `asset_service.c`): constant answers. The reset button is an input.
* The ESP-IDF: only the behaviour the code relies on (joins, event order, NVS
  outcomes), named at the operators that stand for it.

The map names the lines of the firmware's own sources only, about 6,000 lines under
`src/firmware/main` and `src/firmware/components`. Most lines of the repository are
something else: the demo of the panel's vendor under `src/docs/examples` (one
header of image data has 18,527 lines) and the output of a build under
`src/firmware/build-esp32s3`. There is no behaviour of this firmware in them.
