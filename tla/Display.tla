------------------------------ MODULE Display ------------------------------
(***************************************************************************)
(* The render pipeline: render_service.c over display_epaper.c over the    *)
(* UC8179 panel.  The status screen is drawn by the main task and the      *)
(* render tools by the MCP server's task; both call render_service and     *)
(* share the framebuffer, the driver's globals and the panel without a     *)
(* lock.  Every SPI transfer may fail and every wait for BUSY may time out.*)
(*                                                                         *)
(* A step is one command or data transfer to the panel, one wait, or one   *)
(* access to what the tasks share.                                         *)
(***************************************************************************)
EXTENDS Naturals, FiniteSets

CONSTANTS
  Tasks,      \* the tasks that render: "main", "tool" or both
  Regions,    \* 8-pixel aligned parts of the screen
  Marks,      \* what may be drawn in a region
  Blank,      \* white
  Wrong,      \* what a panel shows that was driven with the wrong registers
  Budget,     \* display_partial_budget
  MaxFailures, \* bound: SPI transfers that fail and BUSY waits that time out
  MaxPartials \* bound: partial refreshes of the panel that are told apart

ASSUME ConstantsAssumption ==
  /\ Tasks \subseteq {"main", "tool"}
  /\ Blank \notin Marks /\ Wrong \notin Marks /\ Blank # Wrong
  /\ Budget \in Nat \ {0} /\ MaxFailures \in Nat /\ MaxPartials \in Nat

VARIABLES
  fb,         \* g_framebuffer
  committed,  \* g_committed_framebuffer
  drv,        \* g_drive_mode, g_panel_powered, g_partial_refresh_count, g_busy
  panel,      \* the controller: registers, both planes, what it shows
  job,        \* per task: its point, its request, how it refreshes
  screen,     \* main task: the status to show, and the one last rendered
  last,       \* g_last_render
  trouble     \* history: the failures so far; are the panel's registers in
              \* doubt; regions not refreshed since the boot; regions and
              \* partial refreshes the driver holds no record of

vars == <<fb, committed, drv, panel, job, screen, last, trouble>>

Images   == [Regions -> Marks \cup {Blank}]
Planes   == [Regions -> Marks \cup {Blank, Wrong}]
Whole    == Regions
NoStatus == Blank

DrawPoints    == {"draw", "gate", "choose", "init", "init_seq"}
UploadPoints  == {"window", "power", "power_wait", "old", "new"}
RefreshPoints == {"trigger", "refresh_wait", "off", "off_wait", "exit", "commit"}
Points == {"idle", "abort"} \cup DrawPoints \cup UploadPoints \cup RefreshPoints
Waits  == {"power_wait", "refresh_wait", "off_wait"}

\* the arguments of render_service_render_text, _clear_region and _refresh
Requests ==
  [draw : Marks \cup {Blank}, region : {{r} : r \in Regions},
   commit : BOOLEAN, mode : {"FULL", "PARTIAL"}]
Refreshes ==
  [draw : {Wrong}, region : {{r} : r \in Regions}, commit : {TRUE},
   mode : {"PARTIAL"}]
  \cup [draw : {Wrong}, region : {Whole}, commit : {TRUE}, mode : {"FULL"}]
StatusScreens ==
  [draw : Marks, region : {Whole}, commit : {TRUE}, mode : {"FULL"}]

draws(req) == req.draw # Wrong      \* refresh_display draws nothing

Idle == [at |-> "idle",
         req |-> [draw |-> Wrong, region |-> Whole, commit |-> TRUE, mode |-> "FULL"],
         how |-> "FULL"]

-----------------------------------------------------------------------------
(* Shared steps *)

Min2(a, b) == IF a < b THEN a ELSE b

Overwrite(image, region, source) ==
  [r \in Regions |-> IF r \in region THEN source[r] ELSE image[r]]

\* the driver never relies on what a plane holds outside the window, after a
\* refresh or after a reset
Unknown == [r \in Regions |-> Wrong]

\* data is sent in the polarity of the mode the driver works in: the partial
\* initialisation and its VCOM setting invert both planes
Sense(t, image) == IF panel.mode = job[t].how THEN image ELSE Unknown

Goto(t, point) == job' = [job EXCEPT ![t].at = point]

\* the call returns and render_service_store_record keeps its result; a
\* refresh starts with a memset of the result the draw has filled in
Return(t, ok) ==
  /\ job' = [job EXCEPT ![t] = Idle]
  /\ last' = IF ~ok THEN "failed"
             ELSE IF job[t].req.commit THEN "refreshed" ELSE "updated"

NotBusy == drv' = [drv EXCEPT !.busy = FALSE]

Touched(t) == IF job[t].how = "FULL" THEN Whole ELSE job[t].req.region

\* a transfer or a wait fails before the refresh
Doubt(panelToo) ==
  /\ trouble.failures < MaxFailures
  /\ trouble' = [trouble EXCEPT !.failures = @ + 1, !.panel = @ \/ panelToo]

\* a transfer or a wait fails after it: no path of the driver from here copies
\* what the panel shows to g_committed_framebuffer, or counts the refresh
DoubtAfter(t, panelToo, regions) ==
  /\ trouble.failures < MaxFailures
  /\ trouble' = [trouble EXCEPT
       !.failures = @ + 1, !.panel = @ \/ panelToo,
       !.unrecorded = @ \cup regions,
       !.uncounted = IF job[t].how = "PARTIAL" THEN @ + 1 ELSE @]

\* the regions whose record is right once a refresh has been committed
Recorded(t) == IF trouble.panel THEN {} ELSE Touched(t)

\* display_refresh_partial leaves its window first, display_refresh_full not
Aborts(t) ==
  IF job[t].how = "PARTIAL" THEN Goto(t, "abort") /\ UNCHANGED last
                            ELSE Return(t, FALSE)

\* a command while BUSY is low may be taken or lost
Sent(after) == panel' = after \/ (panel.doing # "none" /\ UNCHANGED panel)

-----------------------------------------------------------------------------
(* app_controller_init: display_init has initialised the panel, which still *)
(* shows what it showed before.                                             *)

Init ==
  /\ fb = [r \in Regions |-> Blank] /\ committed = fb
  /\ drv = [mode |-> "FULL", powered |-> TRUE, count |-> 0, busy |-> FALSE]
  /\ \E before \in Images :
       panel = [mode |-> "FULL", powered |-> TRUE, window |-> Whole,
                doing |-> "none", old |-> Unknown, new |-> Unknown, shows |-> before,
                partials |-> 0]
  /\ job = [t \in Tasks |-> Idle]
  /\ \E now \in Marks : screen = [now |-> now, rendered |-> NoStatus]
  /\ last = "none"
  /\ trouble = [failures |-> 0, panel |-> FALSE, unseen |-> Regions,
                unrecorded |-> {}, uncounted |-> 0]

\* app_main_update_status_screen, every 5 s: nothing checks g_busy here
StartStatusScreen(t) ==
  /\ t = "main" /\ job[t].at = "idle" /\ screen.now # screen.rendered
  /\ \E req \in StatusScreens :
       /\ req.draw = screen.now
       /\ job' = [job EXCEPT ![t] = [at |-> "draw", req |-> req, how |-> "FULL"]]
  /\ UNCHANGED <<fb, committed, drv, panel, screen, last, trouble>>

StartTool(t) ==
  /\ t = "tool" /\ job[t].at = "idle"
  /\ \/ \E req \in Requests :
          ~drv.busy /\ job' = [job EXCEPT ![t] = [at |-> "draw", req |-> req,
                                                   how |-> req.mode]]
     \/ \E req \in Refreshes :
          job' = [job EXCEPT ![t] = [at |-> "gate", req |-> req,
                                     how |-> req.mode]]
  /\ UNCHANGED <<fb, committed, drv, panel, screen, last, trouble>>

\* ERR_BUSY, or arguments outside the panel
RefuseTool(t) ==
  /\ t = "tool" /\ job[t].at = "idle"
  /\ last' = "failed"
  /\ UNCHANGED <<fb, committed, drv, panel, job, screen, trouble>>

\* mutated: the status counts as rendered once it is drawn
DrawRemembers(t) ==
  /\ job[t].at = "draw"
  /\ fb' = [r \in Regions |-> IF r \in job[t].req.region THEN job[t].req.draw
                                                          ELSE fb[r]]
  /\ IF job[t].req.commit THEN Goto(t, "gate") /\ UNCHANGED last
                          ELSE Return(t, TRUE)
  /\ screen' = IF t = "main" THEN [screen EXCEPT !.rendered = job[t].req.draw]
                             ELSE screen
  /\ UNCHANGED <<committed, drv, panel, trouble>>

\* display_fill_region and display_draw_text, or the whole status screen
Draw(t) ==
  /\ job[t].at = "draw"
  /\ fb' = [r \in Regions |-> IF r \in job[t].req.region THEN job[t].req.draw
                                                          ELSE fb[r]]
  /\ IF job[t].req.commit THEN Goto(t, "gate") /\ UNCHANGED last
                          ELSE Return(t, TRUE)
  /\ UNCHANGED <<committed, drv, panel, screen, trouble>>

\* render_service_refresh
GateBusy(t) ==
  /\ job[t].at = "gate" /\ drv.busy
  /\ Return(t, FALSE)
  /\ UNCHANGED <<fb, committed, drv, panel, screen, trouble>>

Gate(t) ==
  /\ job[t].at = "gate" /\ ~drv.busy
  /\ Goto(t, IF job[t].req.mode = "PARTIAL" THEN "choose" ELSE "init")
  /\ UNCHANGED <<fb, committed, drv, panel, screen, last, trouble>>

-----------------------------------------------------------------------------
(* display_refresh_full and display_refresh_partial *)

\* mutated: one partial refresh too many
ChooseLate(t) ==
  /\ job[t].at = "choose"
  /\ job' = [job EXCEPT ![t].at = "init",
                        ![t].how = IF drv.count > Budget THEN "FULL" ELSE "PARTIAL"]
  /\ UNCHANGED <<fb, committed, drv, panel, screen, last, trouble>>

Choose(t) ==
  /\ job[t].at = "choose"
  /\ job' = [job EXCEPT ![t].at = "init",
                        ![t].how = IF drv.count >= Budget THEN "FULL" ELSE "PARTIAL"]
  /\ UNCHANGED <<fb, committed, drv, panel, screen, last, trouble>>

UploadPoint(t) == IF job[t].how = "PARTIAL" THEN "window" ELSE "power"

KeepMode(t) ==
  /\ job[t].at = "init" /\ drv.mode = job[t].how
  /\ Goto(t, UploadPoint(t))
  /\ UNCHANGED <<fb, committed, drv, panel, screen, last, trouble>>

\* uc8179_initialize_mode: the reset loses the registers, the window and
\* any refresh that is still going on
HwReset(t) ==
  /\ job[t].at = "init" /\ drv.mode # job[t].how
  /\ Goto(t, "init_seq")
  /\ panel' = [panel EXCEPT
       !.mode = "RESET", !.powered = FALSE, !.window = Whole, !.doing = "none",
       !.old = Unknown, !.new = Unknown,
       !.shows = IF panel.doing = "refresh"
                   THEN Overwrite(@, panel.window, Unknown) ELSE @]
  /\ UNCHANGED <<fb, committed, drv, screen, last, trouble>>

\* mutated: the mode is remembered before the sequence has run
InitSeqForgets(t) ==
  /\ job[t].at = "init_seq" /\ Goto(t, UploadPoint(t))
  /\ panel' = [panel EXCEPT !.mode = job[t].how, !.powered = TRUE]
  /\ drv' = [drv EXCEPT !.powered = TRUE, !.busy = FALSE]
  /\ trouble' = [trouble EXCEPT !.panel = FALSE]
  /\ UNCHANGED <<fb, committed, screen, last>>

InitSeq(t) ==
  /\ job[t].at = "init_seq" /\ Goto(t, UploadPoint(t))
  /\ panel' = [panel EXCEPT !.mode = job[t].how, !.powered = TRUE]
  /\ drv' = [drv EXCEPT !.mode = job[t].how, !.powered = TRUE, !.busy = FALSE]
  /\ trouble' = [trouble EXCEPT !.panel = FALSE]
  /\ UNCHANGED <<fb, committed, screen, last>>

\* the globals keep the mode and the power state from before the reset
InitSeqFails(t) ==
  /\ job[t].at = "init_seq" /\ Return(t, FALSE)
  /\ \E on \in BOOLEAN : panel' = [panel EXCEPT !.powered = on]
  /\ UNCHANGED drv \/ NotBusy
  /\ Doubt(TRUE)
  /\ UNCHANGED <<fb, committed, screen>>

EnterWindow(t) ==
  /\ job[t].at = "window" /\ Goto(t, "power")
  /\ Sent([panel EXCEPT !.window = job[t].req.region])
  /\ UNCHANGED <<fb, committed, drv, screen, last, trouble>>

EnterWindowFails(t) ==
  /\ job[t].at = "window" /\ Return(t, FALSE)
  /\ Doubt(FALSE)
  /\ UNCHANGED <<fb, committed, drv, panel, screen>>

PowerIsOn(t) ==
  /\ job[t].at = "power" /\ drv.powered /\ Goto(t, "old")
  /\ UNCHANGED <<fb, committed, drv, panel, screen, last, trouble>>

PowerOn(t) ==
  /\ job[t].at = "power" /\ ~drv.powered /\ Goto(t, "power_wait")
  /\ Sent([panel EXCEPT !.doing = "power_on"])
  /\ drv' = [drv EXCEPT !.busy = TRUE]
  /\ UNCHANGED <<fb, committed, screen, last, trouble>>

PowerWait(t) ==
  /\ job[t].at = "power_wait" /\ panel.doing = "none" /\ Goto(t, "old")
  /\ drv' = [drv EXCEPT !.powered = TRUE, !.busy = FALSE]
  /\ UNCHANGED <<fb, committed, panel, screen, last, trouble>>

UploadOld(t) ==
  /\ job[t].at = "old" /\ Goto(t, "new")
  /\ Sent([panel EXCEPT !.new = Unknown,
                          !.old = Overwrite(Unknown, panel.window, Sense(t, committed))])
  /\ UNCHANGED <<fb, committed, drv, screen, last, trouble>>

UploadNew(t) ==
  /\ job[t].at = "new" /\ Goto(t, "trigger")
  /\ Sent([panel EXCEPT !.new = Overwrite(Unknown, panel.window, Sense(t, fb))])
  /\ UNCHANGED <<fb, committed, drv, screen, last, trouble>>

\* a transfer of one of the steps above fails
UploadFails(t) ==
  /\ job[t].at \in {"old", "new"} \/ (job[t].at = "power" /\ ~drv.powered)
  /\ Aborts(t)
  /\ Doubt(FALSE)
  /\ UNCHANGED <<fb, committed, drv, panel, screen>>

\* with registers in doubt this may change any region
Trigger(t) ==
  /\ job[t].at = "trigger" /\ Goto(t, "refresh_wait")
  /\ Sent([panel EXCEPT !.doing = "refresh"])
  /\ drv' = [drv EXCEPT !.busy = TRUE]
  /\ trouble' = [trouble EXCEPT !.unrecorded = IF trouble.panel THEN Regions ELSE @]
  /\ UNCHANGED <<fb, committed, screen, last>>

\* mutated: the error path forgets g_busy
TriggerFailsBusy(t) ==
  /\ job[t].at = "trigger" /\ Aborts(t)
  /\ drv' = [drv EXCEPT !.busy = TRUE]
  /\ Doubt(FALSE)
  /\ UNCHANGED <<fb, committed, panel, screen>>

TriggerFails(t) ==
  /\ job[t].at = "trigger" /\ Aborts(t)
  /\ NotBusy
  /\ Doubt(FALSE)
  /\ UNCHANGED <<fb, committed, panel, screen>>

RefreshWait(t) ==
  /\ job[t].at = "refresh_wait" /\ panel.doing = "none" /\ Goto(t, "off")
  /\ NotBusy
  /\ UNCHANGED <<fb, committed, panel, screen, last, trouble>>

\* uc8179_wait_while_busy gives up after 15 s, the panel does not
WaitTimesOut(t) ==
  /\ job[t].at \in Waits /\ panel.doing # "none" /\ Aborts(t)
  /\ NotBusy
  /\ \/ job[t].at = "power_wait" /\ Doubt(TRUE)
     \/ job[t].at = "refresh_wait" /\ DoubtAfter(t, TRUE, Regions)
     \/ job[t].at = "off_wait" /\ DoubtAfter(t, TRUE, Touched(t))
  /\ UNCHANGED <<fb, committed, panel, screen>>

AfterRefresh(t) == IF job[t].how = "PARTIAL" THEN "exit" ELSE "commit"

PowerIsOff(t) ==
  /\ job[t].at = "off" /\ ~drv.powered /\ Goto(t, AfterRefresh(t))
  /\ UNCHANGED <<fb, committed, drv, panel, screen, last, trouble>>

PowerOff(t) ==
  /\ job[t].at = "off" /\ drv.powered /\ Goto(t, "off_wait")
  /\ Sent([panel EXCEPT !.doing = "power_off"])
  /\ drv' = [drv EXCEPT !.busy = TRUE]
  /\ UNCHANGED <<fb, committed, screen, last, trouble>>

PowerOffFails(t) ==
  /\ job[t].at = "off" /\ drv.powered /\ Aborts(t)
  /\ DoubtAfter(t, FALSE, Touched(t))
  /\ UNCHANGED <<fb, committed, drv, panel, screen>>

\* mutated: the panel is remembered as powered
OffWaitForgets(t) ==
  /\ job[t].at = "off_wait" /\ panel.doing = "none" /\ Goto(t, AfterRefresh(t))
  /\ NotBusy
  /\ UNCHANGED <<fb, committed, panel, screen, last, trouble>>

OffWait(t) ==
  /\ job[t].at = "off_wait" /\ panel.doing = "none" /\ Goto(t, AfterRefresh(t))
  /\ drv' = [drv EXCEPT !.powered = FALSE, !.busy = FALSE]
  /\ UNCHANGED <<fb, committed, panel, screen, last, trouble>>

ExitWindow(t) ==
  /\ job[t].at = "exit" /\ Goto(t, "commit")
  /\ Sent([panel EXCEPT !.window = Whole])
  /\ UNCHANGED <<fb, committed, drv, screen, last, trouble>>

ExitWindowFails(t) ==
  /\ job[t].at = "exit" /\ Return(t, FALSE)
  /\ DoubtAfter(t, FALSE, Touched(t))
  /\ UNCHANGED <<fb, committed, drv, panel, screen>>

\* the error path of display_refresh_partial: the result is ignored
Abort(t) ==
  /\ job[t].at = "abort" /\ Return(t, FALSE)
  /\ Sent([panel EXCEPT !.window = Whole]) \/ UNCHANGED panel
  /\ UNCHANGED <<fb, committed, drv, screen, trouble>>

\* mutated: app_main remembers the status of the moment
RenderedNow(t) == screen' = IF t = "main" THEN [screen EXCEPT !.rendered = screen.now]
                                          ELSE screen

\* app_main remembers the status it has rendered
Rendered(t) == screen' = IF t = "main" THEN [screen EXCEPT !.rendered = job[t].req.draw]
                                       ELSE screen

\* mutated: a full refresh does not copy the framebuffer
CommitFullForgets(t) ==
  /\ job[t].at = "commit" /\ job[t].how = "FULL" /\ Return(t, TRUE)
  /\ drv' = [drv EXCEPT !.count = 0]
  /\ Rendered(t)
  /\ trouble' = [trouble EXCEPT
       !.unseen = @ \ Recorded(t), !.unrecorded = @ \ Recorded(t),
       !.uncounted = IF trouble.panel THEN @ + drv.count ELSE 0]
  /\ UNCHANGED <<fb, committed, panel>>

CommitFull(t) ==
  /\ job[t].at = "commit" /\ job[t].how = "FULL" /\ Return(t, TRUE)
  /\ committed' = fb
  /\ drv' = [drv EXCEPT !.count = 0]
  /\ Rendered(t)
  /\ trouble' = [trouble EXCEPT
       !.unseen = @ \ Recorded(t), !.unrecorded = @ \ Recorded(t),
       !.uncounted = IF trouble.panel THEN @ + drv.count ELSE 0]
  /\ UNCHANGED <<fb, panel>>

\* mutated: the partial refreshes are not counted
CommitPartialUncounted(t) ==
  /\ job[t].at = "commit" /\ job[t].how = "PARTIAL" /\ Return(t, TRUE)
  /\ committed' = Overwrite(committed, job[t].req.region, fb)
  /\ trouble' = [trouble EXCEPT !.unseen = @ \ Recorded(t),
                                !.unrecorded = @ \ Recorded(t)]
  /\ UNCHANGED <<fb, drv, panel, screen>>

\* mutated: commits what the panel shows
CommitShown(t) ==
  /\ job[t].at = "commit" /\ job[t].how = "PARTIAL" /\ Return(t, TRUE)
  /\ committed' = Overwrite(committed, job[t].req.region, panel.shows)
  /\ drv' = [drv EXCEPT !.count = @ + 1]
  /\ trouble' = [trouble EXCEPT !.unseen = @ \ Recorded(t),
                                !.unrecorded = @ \ Recorded(t)]
  /\ UNCHANGED <<fb, panel, screen>>

CommitPartial(t) ==
  /\ job[t].at = "commit" /\ job[t].how = "PARTIAL" /\ Return(t, TRUE)
  /\ committed' = Overwrite(committed, job[t].req.region, fb)
  /\ drv' = [drv EXCEPT !.count = @ + 1]
  /\ trouble' = [trouble EXCEPT !.unseen = @ \ Recorded(t),
                                !.unrecorded = @ \ Recorded(t)]
  /\ UNCHANGED <<fb, panel, screen>>

-----------------------------------------------------------------------------
(* The panel finishes what it was told; the status to show changes *)

\* partial refreshes since the last full one; the reset registers do neither
PartialsAfter ==
  IF panel.mode = "PARTIAL" THEN Min2(panel.partials + 1, MaxPartials)
  ELSE IF panel.mode = "FULL" THEN 0 ELSE panel.partials

PanelDone ==
  /\ panel.doing # "none"
  /\ panel' = [panel EXCEPT
       !.doing = "none",
       !.powered = CASE panel.doing = "power_on"  -> TRUE
                     [] panel.doing = "power_off" -> FALSE
                     [] OTHER                     -> @,
       !.shows = IF panel.doing = "refresh" /\ panel.powered
                   THEN Overwrite(@, panel.window, panel.new) ELSE @,
       !.old = IF panel.doing = "refresh" THEN Unknown ELSE @,
       !.new = IF panel.doing = "refresh" THEN Unknown ELSE @,
       !.partials = IF panel.doing = "refresh" /\ panel.powered
                      THEN PartialsAfter ELSE @]
  /\ UNCHANGED <<fb, committed, drv, job, screen, last, trouble>>

StatusChanges ==
  /\ "main" \in Tasks
  /\ \E now \in Marks \ {screen.now} : screen' = [screen EXCEPT !.now = now]
  /\ UNCHANGED <<fb, committed, drv, panel, job, last, trouble>>

-----------------------------------------------------------------------------

Render(t)  == Draw(t) \/ GateBusy(t) \/ Gate(t) \/ Choose(t)
Prepare(t) == \/ KeepMode(t) \/ HwReset(t) \/ InitSeq(t) \/ EnterWindow(t)
              \/ PowerIsOn(t) \/ PowerOn(t) \/ PowerWait(t)
Refresh(t) == \/ UploadOld(t) \/ UploadNew(t) \/ Trigger(t) \/ RefreshWait(t)
              \/ PowerIsOff(t) \/ PowerOff(t) \/ OffWait(t) \/ ExitWindow(t)
Commit(t)  == CommitFull(t) \/ CommitPartial(t)
Failure(t) == \/ InitSeqFails(t) \/ EnterWindowFails(t) \/ UploadFails(t)
              \/ TriggerFails(t) \/ WaitTimesOut(t) \/ PowerOffFails(t)
              \/ ExitWindowFails(t)

TaskStep(t) == Render(t) \/ Prepare(t) \/ Refresh(t) \/ Commit(t) \/ Failure(t) \/ Abort(t)
Start(t)    == StartStatusScreen(t) \/ StartTool(t) \/ RefuseTool(t)

Next == \/ \E t \in Tasks : Start(t) \/ TaskStep(t)
        \/ PanelDone \/ StatusChanges

Spec == Init /\ [][Next]_vars

\* tasks are scheduled, app_main calls the status screen every 5 s, and the
\* panel ends what it has begun
Fairness == /\ \A t \in Tasks : WF_vars(TaskStep(t)) /\ WF_vars(StartStatusScreen(t))
            /\ WF_vars(PanelDone)

FairSpec == Spec /\ Fairness

-----------------------------------------------------------------------------
(* Properties *)

DriverTypeOK ==
  /\ fb \in Images /\ committed \in Images
  /\ drv \in [mode : {"FULL", "PARTIAL"}, powered : BOOLEAN, count : Nat,
              busy : BOOLEAN]
  /\ panel \in [mode : {"RESET", "FULL", "PARTIAL"}, powered : BOOLEAN,
                window : SUBSET Regions,
                doing : {"none", "power_on", "power_off", "refresh"},
                old : Planes, new : Planes, shows : Planes,
                partials : 0 .. MaxPartials]
JobTypeOK ==
  /\ job \in [Tasks -> [at : Points,
                        req : Requests \cup Refreshes \cup StatusScreens,
                        how : {"FULL", "PARTIAL"}]]
  /\ screen \in [now : Marks, rendered : Marks \cup {NoStatus}]
  /\ last \in {"none", "failed", "updated", "refreshed"}
  /\ trouble \in [failures : 0 .. MaxFailures, panel : BOOLEAN,
                  unseen : SUBSET Regions, unrecorded : SUBSET Regions,
                  uncounted : Nat]

\* Every variable has its type.
TypeOK == DriverTypeOK /\ JobTypeOK

\* g_busy is set only while some task waits for the panel: no error path
\* leaves it set, which would refuse every later render.
BusyHasWaiter == drv.busy => \E t \in Tasks : job[t].at \in Waits

\* g_partial_refresh_count never passes the budget, although the status screen
\* resets it while a tool is between reading and incrementing it.
CountBounded == drv.count <= Budget

Quiet == \A t \in Tasks : job[t].at = "idle"

\* Between renders the driver's idea of the panel's registers and power is
\* right, unless an initialisation failed or a wait timed out.
BeliefHolds ==
  Quiet /\ ~trouble.panel
    => panel.mode = drv.mode /\ panel.powered = drv.powered /\ panel.doing = "none"

\* A refresh about to return ERR_OK has put the framebuffer on the panel, in
\* its whole region, whatever failed before, unless registers are in doubt.
RefreshShowsFramebuffer ==
  ~trouble.panel =>
    \A t \in Tasks : job[t].at = "commit" =>
      \A r \in Touched(t) : panel.shows[r] = fb[r]

\* While a refresh runs the OLD plane is what the panel shows, and between
\* renders g_committed_framebuffer is: the waveforms start from the truth.  Two
\* exceptions, region by region: one not refreshed since the boot, when the driver
\* takes the panel for white, and one whose last refresh ended in an error after
\* the panel had begun it, or ran with registers in doubt.  The next refresh
\* that succeeds ends both.
Known == Regions \ (trouble.unseen \cup trouble.unrecorded)

OldPlaneIsShown ==
  /\ Quiet => \A r \in Known : committed[r] = panel.shows[r]
  /\ \A t \in Tasks : job[t].at = "refresh_wait" /\ panel.doing = "refresh" =>
       \A r \in Touched(t) \cap Known : panel.old[r] = panel.shows[r]

\* The panel sees at most Budget partial refreshes between two full ones, and
\* those that ended in an error after the panel had begun them, which nothing
\* counts until a full refresh: between renders, no more than were counted
\* and those.
GhostingBounded ==
  /\ panel.partials <= Budget + trouble.uncounted
  /\ Quiet => panel.partials <= drv.count + trouble.uncounted

Settles == /\ <>[][~\E t \in Tasks : Failure(t)]_vars
           /\ <>[][~StatusChanges]_vars

\* When nothing fails any more and the status settles, the last status is
\* rendered and stays so, whatever was rendered before, and the panel shows it
\* for good.  Two exceptions: registers in doubt, and a status that came back to
\* the one last rendered after the render of another failed with the panel already
\* refreshed: nothing is rendered then, and the record of the panel is wrong.
StatusScreenConverges ==
  Settles =>
    <>[](/\ screen.rendered = screen.now
         /\ \/ trouble.panel \/ trouble.unrecorded # {}
            \/ \A r \in Regions : panel.shows[r] = screen.now)

-----------------------------------------------------------------------------
(* What the repository says of the program, and the code does not do *)

\* docs/capability-contracts.md:111, only one display refresh at a time.
OneRefreshAtATime ==
  Cardinality({t \in Tasks : job[t].at \in UploadPoints \cup RefreshPoints}) <= 1

\* docs/UX8179_spec.md:110-113, a full refresh is for the first frame, large
\* updates and ghosting recovery: once done, the panel shows the framebuffer.
FullRefreshRecovers ==
  \A t \in Tasks : job[t].at = "commit" /\ job[t].how = "FULL" => panel.shows = fb

=============================================================================
