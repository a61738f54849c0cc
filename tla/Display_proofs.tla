------------------------------ MODULE Display_proofs ---------------------------
(* The render pipeline for any regions, marks and budget, any number of        *)
(* failures: first what holds with both tasks, then with one of them.          *)
EXTENDS Display, TLAPS

-----------------------------------------------------------------------------
(* The inductive invariants.  JobInv, CountInv and BusyHasWaiter hold with     *)
(* both tasks; RegistersInv, PlanesInv, ImageInv and GhostInv say what a task  *)
(* that is alone may assume of the driver and of the panel at each point.      *)

BeforeInit   == {"idle", "draw", "gate", "choose", "init"}
Settled      == BeforeInit \cup {"window", "power", "old", "new", "trigger",
                                 "off", "exit", "commit", "abort"}
InMode       == UploadPoints \cup RefreshPoints \cup {"abort"}
InWindow     == {"power", "power_wait", "old", "new", "trigger", "refresh_wait"}
MustBePowered == {"old", "new", "trigger", "refresh_wait"}
Triggered    == {"refresh_wait", "off", "off_wait", "exit", "commit"}

\* the refresh that was triggered is still to come; it is done
Refreshing(t) == job[t].at = "refresh_wait" /\ panel.doing # "none"
HasRefreshed(t) == \/ job[t].at = "refresh_wait" /\ panel.doing = "none"
                   \/ job[t].at \in {"off", "off_wait", "exit", "commit"}

\* What the task asked for, and how it refreshes.
JobInv(t) ==
  /\ job[t].at = "draw" => draws(job[t].req)
  /\ t = "main" /\ job[t].at # "idle" => job[t].req \in StatusScreens
  /\ t = "main" => job[t].how = "FULL" /\ job[t].req.mode = "FULL"
  /\ job[t].at \in {"draw", "gate"} => job[t].how = job[t].req.mode
  /\ job[t].at = "choose" => job[t].req.mode = "PARTIAL"
  /\ job[t].at \in {"window", "exit", "abort"} => job[t].how = "PARTIAL"

\* The registers and the power of the panel are those the driver believes in.
RegistersInv(t) ==
  /\ panel.mode \in {"RESET", drv.mode}
  /\ job[t].at \in InMode => drv.mode = job[t].how
  /\ job[t].at = "init_seq" =>
       panel.doing = "none" /\ panel.mode = "RESET" /\ panel.window = Whole
  /\ ~trouble.panel =>
       /\ job[t].at # "init_seq" => panel.mode = drv.mode
       /\ job[t].at \in Settled => panel.doing = "none" /\ panel.powered = drv.powered
       /\ job[t].at \in MustBePowered => panel.powered /\ drv.powered
       /\ job[t].at = "power_wait" =>
            panel.doing = "power_on" \/ (panel.doing = "none" /\ panel.powered)
       /\ job[t].at = "refresh_wait" => panel.doing \in {"refresh", "none"}
       /\ job[t].at = "off_wait" =>
            panel.doing = "power_off" \/ (panel.doing = "none" /\ ~panel.powered)

\* The window is what the task refreshes, and the planes hold its framebuffers.
PlanesInv(t) ==
  ~trouble.panel =>
    /\ panel.mode = "FULL" => panel.window = Whole
    /\ job[t].at \in InWindow => panel.window = Touched(t)
    /\ job[t].at \in {"new", "trigger"} \/ Refreshing(t) =>
         \A r \in Touched(t) : panel.old[r] = committed[r]
    /\ job[t].at = "trigger" \/ Refreshing(t) =>
         \A r \in Touched(t) : panel.new[r] = fb[r]
    /\ HasRefreshed(t) => \A r \in Touched(t) : panel.shows[r] = fb[r]

\* Outside what is being refreshed the panel shows what was committed, where it
\* has been refreshed at all and no refresh went unrecorded; a refresh with
\* registers in doubt spares no region.
ImageInv(t) ==
  /\ trouble.panel /\ (panel.doing = "refresh" \/ job[t].at \in Triggered) =>
       trouble.unrecorded = Regions
  /\ \A r \in Known : (HasRefreshed(t) => r \notin Touched(t)) =>
       committed[r] = panel.shows[r]

\* The partial refresh the panel is at, and the one the task has not counted yet.
Owed == IF panel.doing = "refresh" /\ panel.mode = "PARTIAL" THEN 1 ELSE 0
Made(t) == IF job[t].at \in Triggered /\ job[t].how = "PARTIAL" THEN 1 ELSE 0

\* The panel has seen no partial refresh but those counted, those that went
\* uncounted and the one under way.
GhostInv(t) ==
  /\ panel.partials + Owed <= drv.count + trouble.uncounted + Made(t)
  /\ ~trouble.panel /\ HasRefreshed(t) /\ job[t].how = "FULL" => panel.partials = 0

\* A partial refresh that has been decided on is within the budget.
CountInv(t) ==
  job[t].at \in InMode \cup {"init", "init_seq"} /\ job[t].how = "PARTIAL"
    => drv.count < Budget

BudgetInv == drv.count <= Budget /\ \A t \in Tasks : CountInv(t)

JobsInv == \A t \in Tasks : JobInv(t)
TaskInv(t) == RegistersInv(t) /\ PlanesInv(t) /\ ImageInv(t) /\ GhostInv(t)
SingleInv == \A t \in Tasks : TaskInv(t)
-----------------------------------------------------------------------------
(* Types *)

Jobs == [at : Points, req : Requests \cup Refreshes \cup StatusScreens,
         how : {"FULL", "PARTIAL"}]

\* display_copy_region_to_committed: copying a region keeps an image an image.
LEMMA OverwriteTyped ==
  ASSUME NEW region, NEW image, NEW source
  PROVE  /\ image \in Images /\ source \in Images
              => Overwrite(image, region, source) \in Images
         /\ image \in Planes /\ source \in Planes
              => Overwrite(image, region, source) \in Planes
         /\ image \in Images => image \in Planes
         /\ Unknown \in Planes
BY DEF Overwrite, Images, Planes, Unknown

\* Every request names a region of the panel, and draws something or nothing.
LEMMA RequestTyped ==
  ASSUME NEW req \in Requests \cup Refreshes \cup StatusScreens
  PROVE  /\ req.region \subseteq Regions /\ req.mode \in {"FULL", "PARTIAL"}
         /\ req.commit \in BOOLEAN
         /\ draws(req) => req.draw \in Marks \cup {Blank}
<1>1. \A region \in {{r} : r \in Regions} : region \subseteq Regions
  OBVIOUS
<1>2. CASE req \in Requests
  BY <1>1, <1>2 DEF Requests
<1>3. CASE req \in Refreshes
  BY <1>1, <1>3 DEF Refreshes, Whole, draws
<1>4. CASE req \in StatusScreens
  BY <1>4 DEF StatusScreens, Whole
<1>5. QED
  BY <1>2, <1>3, <1>4

\* What is drawn is never "nothing"; a status screen is a committed full refresh.
LEMMA RequestKinds ==
  /\ \A req \in Requests : draws(req)
  /\ \A req \in StatusScreens :
       draws(req) /\ req.draw \in Marks /\ req.mode = "FULL" /\ req.commit
BY ConstantsAssumption DEF Requests, StatusScreens, draws

\* A task between two calls.
LEMMA IdleTyped ==
  /\ Idle \in Jobs /\ Idle.at = "idle" /\ Idle.how = "FULL" /\ Idle.req.mode = "FULL"
BY DEF Idle, Jobs, Refreshes, Points, Whole

\* A task that goes on keeps its request; one that returns has none.
LEMMA GotoJob ==
  ASSUME job \in [Tasks -> Jobs], NEW t \in Tasks, NEW point \in Points,
         Goto(t, point)
  PROVE  /\ job' \in [Tasks -> Jobs]
         /\ job'[t].at = point /\ job'[t].req = job[t].req /\ job'[t].how = job[t].how
         /\ \A u \in Tasks \ {t} : job'[u] = job[u]
BY DEF Goto, Jobs

\* A task that returns has no request.
LEMMA ReturnJob ==
  ASSUME job \in [Tasks -> Jobs], NEW t \in Tasks, NEW ok \in BOOLEAN, Return(t, ok)
  PROVE  /\ job' \in [Tasks -> Jobs] /\ job'[t] = Idle
         /\ \A u \in Tasks \ {t} : job'[u] = job[u]
         /\ last' \in {"failed", "updated", "refreshed"}
BY IdleTyped DEF Return

\* What the tasks asked for, when one of them goes on or returns.
LEMMA GotoInv ==
  ASSUME job \in [Tasks -> Jobs], JobsInv, NEW t \in Tasks, NEW point \in Points,
         Goto(t, point), job[t].at # "idle", point # "draw",
         point = "gate" => job[t].at = "draw",
         point = "choose" => job[t].req.mode = "PARTIAL",
         point \in {"window", "exit", "abort"} => job[t].how = "PARTIAL"
  PROVE  job' \in [Tasks -> Jobs] /\ JobsInv'
<1>1. \A u \in Tasks \ {t} : JobInv(u)'
  BY GotoJob DEF JobsInv, JobInv
<1>2. JobInv(t)'
  BY GotoJob DEF JobsInv, JobInv
<1>3. QED
  BY <1>1, <1>2, GotoJob DEF JobsInv

\* A call that returns leaves nothing behind; one that aborts leaves its window.
LEMMA ReturnInv ==
  ASSUME job \in [Tasks -> Jobs], JobsInv, NEW t \in Tasks, NEW ok \in BOOLEAN,
         Return(t, ok)
  PROVE  job' \in [Tasks -> Jobs] /\ JobsInv'
<1>1. \A u \in Tasks \ {t} : JobInv(u)'
  BY ReturnJob DEF JobsInv, JobInv
<1>2. JobInv(t)'
  BY ReturnJob, IdleTyped DEF JobInv
<1>3. QED
  BY <1>1, <1>2, ReturnJob DEF JobsInv

\* A task that starts, or decides how it refreshes.
LEMMA NewJobInv ==
  ASSUME job \in [Tasks -> Jobs], JobsInv, NEW t \in Tasks, NEW new \in Jobs,
         job' = [job EXCEPT ![t] = new], JobInv(t)'
  PROVE  job' \in [Tasks -> Jobs] /\ JobsInv'
<1>1. job' \in [Tasks -> Jobs] /\ \A u \in Tasks \ {t} : job'[u] = job[u]
  OBVIOUS
<1>2. \A u \in Tasks \ {t} : JobInv(u)'
  BY <1>1 DEF JobsInv, JobInv
<1>3. QED
  BY <1>1, <1>2 DEF JobsInv

\* Leaving the window, or returning at once: the two error paths of a refresh.
LEMMA AbortsInv ==
  ASSUME job \in [Tasks -> Jobs], JobsInv, NEW t \in Tasks, Aborts(t),
         job[t].at # "idle"
  PROVE  job' \in [Tasks -> Jobs] /\ JobsInv'
<1>1. CASE job[t].how = "PARTIAL"
  BY <1>1, GotoInv DEF Aborts, Points
<1>2. CASE job[t].how # "PARTIAL"
  BY <1>2, ReturnInv DEF Aborts
<1>3. QED
  BY <1>1, <1>2

\* No step of any task disturbs what the tasks asked for.
LEMMA JobsStep ==
  ASSUME job \in [Tasks -> Jobs], JobsInv, screen.now \in Marks, [Next]_vars
  PROVE  job' \in [Tasks -> Jobs] /\ JobsInv'
<1>1. ASSUME NEW t \in Tasks, Start(t)
      PROVE  job' \in [Tasks -> Jobs] /\ JobsInv'
  <2>1. CASE StartStatusScreen(t)
    <3>1. PICK req \in StatusScreens :
            job' = [job EXCEPT ![t] = [at |-> "draw", req |-> req, how |-> "FULL"]]
      BY <2>1 DEF StartStatusScreen
    <3>2. [at |-> "draw", req |-> req, how |-> "FULL"] \in Jobs
      BY DEF Jobs, Points, DrawPoints
    <3>3. JobInv(t)'
      BY <3>1, <3>2, RequestKinds DEF JobInv
    <3>4. QED
      BY <3>1, <3>2, <3>3, NewJobInv
  <2>2. CASE StartTool(t)
    <3>1. t = "tool"
      BY <2>2 DEF StartTool
    <3>2. PICK point \in {"draw", "gate"}, req \in Requests \cup Refreshes :
            /\ job' = [job EXCEPT ![t] = [at |-> point, req |-> req, how |-> req.mode]]
            /\ point = "draw" => req \in Requests
      BY <2>2 DEF StartTool
    <3>3. [at |-> point, req |-> req, how |-> req.mode] \in Jobs
      BY RequestTyped DEF Jobs, Points, DrawPoints
    <3>4. JobInv(t)'
      BY <3>1, <3>2, <3>3, RequestKinds DEF JobInv
    <3>5. QED
      BY <3>2, <3>3, <3>4, NewJobInv
  <2>3. CASE RefuseTool(t)
    BY <2>3 DEF RefuseTool, JobsInv, JobInv
  <2>4. QED
    BY <1>1, <2>1, <2>2, <2>3 DEF Start
<1>2. ASSUME NEW t \in Tasks, Render(t)
      PROVE  job' \in [Tasks -> Jobs] /\ JobsInv'
  <2>1. CASE Draw(t)
    BY <2>1, GotoInv, ReturnInv DEF Draw, Points, DrawPoints
  <2>2. CASE GateBusy(t)
    BY <2>2, ReturnInv DEF GateBusy
  <2>3. CASE Gate(t)
    BY <2>3, GotoInv DEF Gate, Points, DrawPoints
  <2>4. CASE Choose(t)
    <3> DEFINE how == IF drv.count >= Budget THEN "FULL" ELSE "PARTIAL"
               new == [job[t] EXCEPT !.at = "init", !.how = how]
    <3>1. how \in {"FULL", "PARTIAL"}
      OBVIOUS
    <3>2. job' = [job EXCEPT ![t].at = "init", ![t].how = how]
      BY <2>4 DEF Choose
    <3> HIDE DEF how
    <3>3. job' = [job EXCEPT ![t] = new] /\ new \in Jobs
      <4>1. job[t] \in Jobs
        OBVIOUS
      <4>2. new \in Jobs /\ new.at = "init"
        BY <3>1, <4>1 DEF Jobs, Points, DrawPoints
      <4>3. job' = [job EXCEPT ![t] = new]
        BY <3>2
      <4>4. QED
        BY <4>2, <4>3
    <3>4. t # "main" /\ new.at = "init"
      BY <2>4, <3>1 DEF Choose, JobsInv, JobInv, Jobs
    <3>5. JobInv(t)'
      BY <3>3, <3>4 DEF JobInv
    <3>6. QED
      BY <3>3, <3>5, NewJobInv
  <2>5. QED
    BY <1>2, <2>1, <2>2, <2>3, <2>4 DEF Render
<1>3. ASSUME NEW t \in Tasks, Prepare(t) \/ Refresh(t)
      PROVE  job' \in [Tasks -> Jobs] /\ JobsInv'
  <2>1. PICK point \in Points \ {"draw", "gate", "choose"} :
          /\ Goto(t, point) /\ job[t].at # "idle"
          /\ point \in {"window", "exit", "abort"} => job[t].how = "PARTIAL"
    BY <1>3
       DEF Prepare, Refresh, KeepMode, HwReset, InitSeq, EnterWindow, PowerIsOn,
           PowerOn, PowerWait, UploadOld, UploadNew, Trigger, RefreshWait,
           PowerIsOff, PowerOff, OffWait, ExitWindow, UploadPoint, AfterRefresh,
           Points, DrawPoints, UploadPoints, RefreshPoints
  <2>2. QED
    BY <2>1, GotoInv
<1>4. ASSUME NEW t \in Tasks, Commit(t) \/ Abort(t)
      PROVE  job' \in [Tasks -> Jobs] /\ JobsInv'
  BY <1>4, ReturnInv DEF Commit, CommitFull, CommitPartial, Abort
<1>5. ASSUME NEW t \in Tasks, Failure(t)
      PROVE  job' \in [Tasks -> Jobs] /\ JobsInv'
  BY <1>5, ReturnInv, AbortsInv
     DEF Failure, InitSeqFails, EnterWindowFails, UploadFails, TriggerFails,
         WaitTimesOut, PowerOffFails, ExitWindowFails, Waits
<1>6. CASE UNCHANGED job
  BY <1>6 DEF JobsInv, JobInv
<1>7. QED
  BY <1>1, <1>2, <1>3, <1>4, <1>5, <1>6
     DEF Next, TaskStep, PanelDone, StatusChanges, vars

-----------------------------------------------------------------------------

Drivers == [mode : {"FULL", "PARTIAL"}, powered : BOOLEAN, count : Nat, busy : BOOLEAN]
Panels  == [mode : {"RESET", "FULL", "PARTIAL"}, powered : BOOLEAN,
            window : SUBSET Regions,
            doing : {"none", "power_on", "power_off", "refresh"},
            old : Planes, new : Planes, shows : Planes, partials : 0 .. MaxPartials]
Troubles == [failures : 0 .. MaxFailures, panel : BOOLEAN,
             unseen : SUBSET Regions, unrecorded : SUBSET Regions, uncounted : Nat]

Typed ==
  /\ fb \in Images /\ committed \in Images /\ drv \in Drivers /\ panel \in Panels
  /\ job \in [Tasks -> Jobs] /\ screen \in [now : Marks, rendered : Marks \cup {Blank}]
  /\ last \in {"none", "failed", "updated", "refreshed"} /\ trouble \in Troubles

\* Typed is TypeOK, with a name for the type of each variable.
LEMMA TypedIsTypeOK == Typed <=> TypeOK
BY DEF Typed, TypeOK, DriverTypeOK, JobTypeOK, Drivers, Panels, Jobs, Troubles, NoStatus

\* What the panel makes of data is a plane.
LEMMA SenseTyped ==
  ASSUME NEW t \in Tasks, NEW image \in Images
  PROVE  Sense(t, image) \in Planes
BY OverwriteTyped DEF Sense

\* A failure that is counted stays within the bound.
LEMMA DoubtTyped ==
  ASSUME trouble \in Troubles, NEW panelToo \in BOOLEAN, Doubt(panelToo)
  PROVE  trouble' \in Troubles /\ trouble'.panel = (trouble.panel \/ panelToo)
<1> DEFINE failures == trouble.failures + 1
           inDoubt  == trouble.panel \/ panelToo
<1>1. failures \in 0 .. MaxFailures
  BY ConstantsAssumption DEF Doubt, Troubles
<1>2. inDoubt \in BOOLEAN
  OBVIOUS
<1>3. trouble' = [trouble EXCEPT !.failures = failures, !.panel = inDoubt]
  BY DEF Doubt
<1> HIDE DEF failures, inDoubt
<1>4. trouble' \in Troubles /\ trouble'.panel = inDoubt
  BY <1>1, <1>2, <1>3 DEF Troubles
<1>5. QED
  BY <1>4 DEF inDoubt

\* A failure after the refresh, too, and what it leaves unrecorded.
LEMMA DoubtAfterTyped ==
  ASSUME trouble \in Troubles, NEW panelToo \in BOOLEAN, NEW t \in Tasks,
         NEW regions \in SUBSET Regions, DoubtAfter(t, panelToo, regions)
  PROVE  trouble' \in Troubles /\ trouble'.panel = (trouble.panel \/ panelToo)
<1> DEFINE failures   == trouble.failures + 1
           inDoubt    == trouble.panel \/ panelToo
           unrecorded == trouble.unrecorded \cup regions
           uncounted  == IF job[t].how = "PARTIAL" THEN trouble.uncounted + 1
                                                   ELSE trouble.uncounted
<1>1. failures \in 0 .. MaxFailures /\ uncounted \in Nat
  BY ConstantsAssumption DEF DoubtAfter, Troubles
<1>2. inDoubt \in BOOLEAN
  OBVIOUS
<1>3. unrecorded \in SUBSET Regions
  BY DEF Troubles
<1>4. trouble' = [trouble EXCEPT !.failures = failures, !.panel = inDoubt,
                                 !.unrecorded = unrecorded, !.uncounted = uncounted]
  BY DEF DoubtAfter
<1> HIDE DEF failures, inDoubt, unrecorded, uncounted
<1>5. trouble' \in Troubles /\ trouble'.panel = inDoubt
  BY <1>1, <1>2, <1>3, <1>4 DEF Troubles
<1>6. QED
  BY <1>5 DEF inDoubt

\* What a task refreshes is a part of the screen.
LEMMA TouchedTyped ==
  ASSUME Typed, NEW t \in Tasks
  PROVE  Touched(t) \in SUBSET Regions /\ Recorded(t) \in SUBSET Regions
BY RequestTyped DEF Typed, Touched, Recorded, Jobs, Whole

\* The record of the last render after an error path.
LEMMA AbortsLast ==
  ASSUME Typed, NEW t \in Tasks, Aborts(t)
  PROVE  last' \in {"none", "failed", "updated", "refreshed"}
BY ReturnJob DEF Aborts, Typed

\* What a command or a data transfer leaves of the panel.
LEMMA SentTyped ==
  ASSUME panel \in Panels, NEW after \in Panels, Sent(after)
  PROVE  panel' \in Panels
BY DEF Sent

\* Every step keeps every variable in its type, one case per action.
LEMMA TypedStep ==
  ASSUME Typed, JobsInv, [Next]_vars
  PROVE  Typed'
<1>1. job' \in [Tasks -> Jobs]
  BY JobsStep DEF Typed
<1> USE <1>1, ConstantsAssumption
<1>2. ASSUME NEW t \in Tasks, Start(t)
      PROVE  Typed'
  BY <1>2 DEF Start, StartStatusScreen, StartTool, RefuseTool, Typed
<1>3. ASSUME NEW t \in Tasks, Render(t)
      PROVE  Typed'
  <2>1. CASE Draw(t)
    <3>1. job[t].req.draw \in Marks \cup {Blank}
      <4>1. job[t].req \in Requests \cup Refreshes \cup StatusScreens
        BY DEF Typed, Jobs
      <4>2. QED
        BY <2>1, <4>1, RequestTyped DEF Draw, JobsInv, JobInv
    <3>2. fb' \in Images
      BY <2>1, <3>1 DEF Draw, Typed, Images
    <3>3. last' \in {"none", "failed", "updated", "refreshed"}
      BY <2>1, ReturnJob DEF Draw, Typed
    <3>4. QED
      BY <2>1, <3>2, <3>3 DEF Draw, Typed
  <2>2. CASE GateBusy(t)
    BY <2>2, ReturnJob DEF GateBusy, Typed
  <2>3. CASE Gate(t) \/ Choose(t)
    BY <2>3 DEF Gate, Choose, Typed
  <2>4. QED
    BY <1>3, <2>1, <2>2, <2>3 DEF Render
<1>4. ASSUME NEW t \in Tasks, Prepare(t)
      PROVE  Typed'
  <2>1. CASE KeepMode(t) \/ PowerIsOn(t)
    BY <2>1 DEF KeepMode, PowerIsOn, Typed
  <2>2. CASE HwReset(t)
    <3>1. panel' \in Panels
      BY <2>2, OverwriteTyped DEF HwReset, Typed, Panels, Whole
    <3>2. QED
      BY <2>2, <3>1 DEF HwReset, Typed
  <2>3. CASE InitSeq(t)
    <3>1. job[t].how \in {"FULL", "PARTIAL"}
      BY DEF Typed, Jobs
    <3>2. panel' \in Panels /\ drv' \in Drivers /\ trouble' \in Troubles
      BY <2>3, <3>1 DEF InitSeq, Typed, Panels, Drivers, Troubles
    <3>3. QED
      BY <2>3, <3>2 DEF InitSeq, Typed
  <2>4. CASE EnterWindow(t)
    <3>1. job[t].req.region \in SUBSET Regions
      BY RequestTyped DEF Typed, Jobs
    <3>2. panel' \in Panels
      BY <2>4, <3>1, SentTyped DEF EnterWindow, Typed, Panels
    <3>3. QED
      BY <2>4, <3>2 DEF EnterWindow, Typed
  <2>5. CASE PowerOn(t)
    <3>1. panel' \in Panels /\ drv' \in Drivers
      BY <2>5, SentTyped DEF PowerOn, Typed, Panels, Drivers
    <3>2. QED
      BY <2>5, <3>1 DEF PowerOn, Typed
  <2>6. CASE PowerWait(t)
    BY <2>6 DEF PowerWait, Typed, Drivers
  <2>7. QED
    BY <1>4, <2>1, <2>2, <2>3, <2>4, <2>5, <2>6 DEF Prepare
<1>5. ASSUME NEW t \in Tasks, Refresh(t)
      PROVE  Typed'
  <2>1. CASE UploadOld(t) \/ UploadNew(t)
    <3>1. PICK image \in Images :
            Sent([panel EXCEPT !.new = Unknown,
                               !.old = Overwrite(Unknown, panel.window, Sense(t, image))])
            \/ Sent([panel EXCEPT
                       !.new = Overwrite(Unknown, panel.window, Sense(t, image))])
      BY <2>1, OverwriteTyped DEF UploadOld, UploadNew, Typed
    <3>2. /\ Overwrite(Unknown, panel.window, Sense(t, image)) \in Planes
          /\ Unknown \in Planes
      BY OverwriteTyped, SenseTyped
    <3>3. panel' \in Panels
      BY <3>1, <3>2, SentTyped DEF Typed, Panels
    <3>4. QED
      BY <2>1, <3>3 DEF UploadOld, UploadNew, Typed
  <2>2. CASE Trigger(t) \/ PowerOff(t) \/ ExitWindow(t)
    <3>1. panel' \in Panels /\ drv' \in Drivers
      BY <2>2, SentTyped DEF Trigger, PowerOff, ExitWindow, Typed, Panels, Drivers, Whole
    <3>2. trouble' \in Troubles
      BY <2>2 DEF Trigger, PowerOff, ExitWindow, Typed, Troubles
    <3>3. QED
      BY <2>2, <3>1, <3>2 DEF Trigger, PowerOff, ExitWindow, Typed
  <2>3. CASE RefreshWait(t) \/ PowerIsOff(t) \/ OffWait(t)
    BY <2>3 DEF RefreshWait, PowerIsOff, OffWait, NotBusy, Typed, Drivers
  <2>4. QED
    BY <1>5, <2>1, <2>2, <2>3 DEF Refresh
<1>6. ASSUME NEW t \in Tasks, Commit(t)
      PROVE  Typed'
  <2>1. last' \in {"none", "failed", "updated", "refreshed"}
    BY <1>6, ReturnJob DEF Commit, CommitFull, CommitPartial, Typed
  <2>2. CASE CommitFull(t)
    <3>1. t = "main" => job[t].req.draw \in Marks
      BY <2>2, RequestKinds DEF CommitFull, JobsInv, JobInv
    <3>2. screen' \in [now : Marks, rendered : Marks \cup {Blank}]
      BY <2>2, <3>1 DEF CommitFull, Rendered, Typed
    <3>3. drv' \in Drivers
      BY <2>2 DEF CommitFull, Typed, Drivers
    <3>4. trouble' \in Troubles
      <4> DEFINE unseen     == trouble.unseen \ Recorded(t)
                 unrecorded == trouble.unrecorded \ Recorded(t)
                 uncounted  == IF trouble.panel THEN trouble.uncounted + drv.count
                                                ELSE 0
      <4>1. unseen \in SUBSET Regions /\ unrecorded \in SUBSET Regions
        BY DEF Typed, Troubles
      <4>2. uncounted \in Nat
        BY DEF Typed, Troubles, Drivers
      <4>3. trouble' = [trouble EXCEPT !.unseen = unseen, !.unrecorded = unrecorded,
                                       !.uncounted = uncounted]
        BY <2>2 DEF CommitFull
      <4> HIDE DEF unseen, unrecorded, uncounted
      <4>4. QED
        BY <4>1, <4>2, <4>3 DEF Typed, Troubles
    <3>5. QED
      BY <2>1, <2>2, <3>2, <3>3, <3>4 DEF CommitFull, Typed
  <2>3. CASE CommitPartial(t)
    <3>1. drv' \in Drivers /\ committed' \in Images
      BY <2>3, OverwriteTyped DEF CommitPartial, Typed, Drivers
    <3>2. trouble' \in Troubles
      <4> DEFINE unseen     == trouble.unseen \ Recorded(t)
                 unrecorded == trouble.unrecorded \ Recorded(t)
      <4>1. unseen \in SUBSET Regions /\ unrecorded \in SUBSET Regions
        BY DEF Typed, Troubles
      <4>2. trouble' = [trouble EXCEPT !.unseen = unseen, !.unrecorded = unrecorded]
        BY <2>3 DEF CommitPartial
      <4> HIDE DEF unseen, unrecorded
      <4>3. QED
        BY <4>1, <4>2 DEF Typed, Troubles
    <3>3. QED
      BY <2>1, <2>3, <3>1, <3>2 DEF CommitPartial, Typed
  <2>4. QED
    BY <1>6, <2>2, <2>3 DEF Commit
<1>7. ASSUME NEW t \in Tasks, Failure(t)
      PROVE  Typed'
  <2>1. last' \in {"none", "failed", "updated", "refreshed"}
    BY <1>7, ReturnJob, AbortsLast
       DEF Failure, InitSeqFails, EnterWindowFails, UploadFails, TriggerFails,
           WaitTimesOut, PowerOffFails, ExitWindowFails, Typed
  <2>2. trouble' \in Troubles
    BY <1>7, DoubtTyped, DoubtAfterTyped, TouchedTyped
       DEF Failure, InitSeqFails, EnterWindowFails, UploadFails, TriggerFails,
           WaitTimesOut, PowerOffFails, ExitWindowFails, Typed
  <2>3. drv' \in Drivers /\ panel' \in Panels
    BY <1>7
       DEF Failure, InitSeqFails, EnterWindowFails, UploadFails, TriggerFails,
           WaitTimesOut, PowerOffFails, ExitWindowFails, NotBusy, Typed, Drivers, Panels
  <2>4. QED
    BY <1>7, <2>1, <2>2, <2>3
       DEF Failure, InitSeqFails, EnterWindowFails, UploadFails, TriggerFails,
           WaitTimesOut, PowerOffFails, ExitWindowFails, Typed
<1>8. ASSUME NEW t \in Tasks, Abort(t)
      PROVE  Typed'
  <2>1. last' \in {"none", "failed", "updated", "refreshed"}
    BY <1>8, ReturnJob DEF Abort, Typed
  <2>2. panel' \in Panels
    BY <1>8, SentTyped DEF Abort, Typed, Panels, Whole
  <2>3. QED
    BY <1>8, <2>1, <2>2 DEF Abort, Typed
<1>9. CASE PanelDone
  <2>1. /\ Overwrite(panel.shows, panel.window, panel.new) \in Planes
        /\ Unknown \in Planes
    BY OverwriteTyped DEF Typed, Panels
  <2>2. PartialsAfter \in 0 .. MaxPartials
    BY DEF PartialsAfter, Typed, Panels, Min2
  <2>3. PICK powered \in BOOLEAN, shows \in Planes, old \in Planes, new \in Planes,
             partials \in 0 .. MaxPartials :
          panel' = [panel EXCEPT !.doing = "none", !.powered = powered,
                      !.shows = shows, !.old = old, !.new = new, !.partials = partials]
    <3> DEFINE powered ==
                 CASE panel.doing = "power_on"  -> TRUE
                   [] panel.doing = "power_off" -> FALSE
                   [] OTHER                     -> panel.powered
               shows == IF panel.doing = "refresh" /\ panel.powered
                          THEN Overwrite(panel.shows, panel.window, panel.new)
                          ELSE panel.shows
               old == IF panel.doing = "refresh" THEN Unknown ELSE panel.old
               new == IF panel.doing = "refresh" THEN Unknown ELSE panel.new
               partials == IF panel.doing = "refresh" /\ panel.powered
                             THEN PartialsAfter ELSE panel.partials
    <3>1. powered \in BOOLEAN /\ shows \in Planes /\ old \in Planes /\ new \in Planes
      BY <2>1 DEF Typed, Panels
    <3>2. partials \in 0 .. MaxPartials
      BY <2>2 DEF Typed, Panels
    <3>3. panel' = [panel EXCEPT !.doing = "none", !.powered = powered,
                      !.shows = shows, !.old = old, !.new = new, !.partials = partials]
      BY <1>9, Zenon DEF PanelDone
    <3>4. QED
      BY <3>1, <3>2, <3>3, Zenon
  <2>4. panel' \in Panels
    BY <2>3 DEF Typed, Panels
  <2>5. QED
    BY <1>9, <2>4 DEF PanelDone, Typed
<1>10. CASE StatusChanges
  BY <1>10 DEF StatusChanges, Typed
<1>11. CASE UNCHANGED vars
  BY <1>11 DEF vars, Typed
<1>12. QED
  BY <1>2, <1>3, <1>4, <1>5, <1>6, <1>7, <1>8, <1>9, <1>10, <1>11 DEF Next, TaskStep

-----------------------------------------------------------------------------
(* Both tasks *)

\* display_init leaves a state in which everything below holds.
LEMMA InitTyped == Init => Typed /\ JobsInv /\ BusyHasWaiter /\ BudgetInv
<1>1. SUFFICES ASSUME Init PROVE Typed /\ JobsInv /\ BusyHasWaiter /\ BudgetInv
  OBVIOUS
<1>2. job \in [Tasks -> Jobs] /\ \A t \in Tasks : job[t] = Idle
  BY <1>1, IdleTyped DEF Init
<1>3. JobsInv
  BY <1>2, IdleTyped DEF JobsInv, JobInv
<1>4. fb \in Images /\ committed \in Images
  BY <1>1 DEF Init, Images
<1>5. drv \in Drivers /\ trouble \in Troubles
  BY <1>1, ConstantsAssumption DEF Init, Drivers, Troubles
<1>6. panel \in Panels
  <2>1. PICK before \in Images :
          panel = [mode |-> "FULL", powered |-> TRUE, window |-> Whole,
                   doing |-> "none", old |-> Unknown, new |-> Unknown,
                   shows |-> before, partials |-> 0]
    BY <1>1 DEF Init
  <2>2. QED
    BY <2>1, OverwriteTyped, ConstantsAssumption DEF Panels, Whole
<1>7. screen \in [now : Marks, rendered : Marks \cup {Blank}]
  BY <1>1 DEF Init, NoStatus
<1>8. Typed
  BY <1>1, <1>2, <1>4, <1>5, <1>6, <1>7 DEF Typed, Init
<1>9. BusyHasWaiter /\ BudgetInv
  BY <1>1, <1>2, IdleTyped, ConstantsAssumption
     DEF Init, BusyHasWaiter, BudgetInv, CountInv, InMode, UploadPoints, RefreshPoints
<1>10. QED
  BY <1>3, <1>8, <1>9

\* A task begins to wait in the step that sets g_busy, and every way out of a
\* wait clears it.
LEMMA BusyStep ==
  ASSUME Typed, BusyHasWaiter, [Next]_vars
  PROVE  BusyHasWaiter'
<1>1. job \in [Tasks -> Jobs] /\ drv \in Drivers
  BY DEF Typed
<1>2. ASSUME drv'.busy => drv.busy,
             \A t \in Tasks : job[t].at \in Waits => job'[t].at \in Waits
      PROVE  BusyHasWaiter'
  BY <1>2 DEF BusyHasWaiter
<1>3. ASSUME NEW t \in Tasks, drv' = drv, job[t].at \notin Waits,
             \A u \in Tasks \ {t} : job'[u] = job[u]
      PROVE  BusyHasWaiter'
  BY <1>2, <1>3
<1>4. ASSUME NEW t \in Tasks, job[t].at \notin Waits,
             drv' = drv \/ NotBusy, Aborts(t) \/ Return(t, FALSE)
      PROVE  BusyHasWaiter'
  <2>1. \A u \in Tasks \ {t} : job'[u] = job[u]
    BY <1>1, <1>4, GotoJob, ReturnJob DEF Aborts, Points
  <2>2. QED
    BY <1>1, <1>2, <1>4, <2>1 DEF NotBusy, Drivers
<1>5. ASSUME NEW t \in Tasks, NEW point \in Waits, Goto(t, point)
      PROVE  BusyHasWaiter'
  <2>1. job'[t].at \in Waits
    BY <1>1, <1>5, GotoJob DEF Waits, Points, UploadPoints, RefreshPoints
  <2>2. QED
    BY <2>1 DEF BusyHasWaiter
<1>6. ASSUME drv'.busy = FALSE
      PROVE  BusyHasWaiter'
  BY <1>6 DEF BusyHasWaiter
<1>7. ASSUME NEW t \in Tasks, Start(t) \/ Render(t)
      PROVE  BusyHasWaiter'
  <2>1. (drv' = drv /\ job[t].at \notin Waits) \/ UNCHANGED <<drv, job>>
    BY <1>7 DEF Start, StartStatusScreen, StartTool, RefuseTool, Render, Draw,
                GateBusy, Gate, Choose, Waits
  <2>2. \A u \in Tasks \ {t} : job'[u] = job[u]
    BY <1>1, <1>7 DEF Start, StartStatusScreen, StartTool, RefuseTool, Render, Draw,
                GateBusy, Gate, Choose, Goto, Return
  <2>3. QED
    BY <1>2, <1>3, <2>1, <2>2
<1>8. ASSUME NEW t \in Tasks, Prepare(t) \/ Refresh(t)
      PROVE  BusyHasWaiter'
  <2>1. CASE InitSeq(t) \/ PowerWait(t) \/ RefreshWait(t) \/ OffWait(t)
    BY <1>1, <1>6, <2>1 DEF InitSeq, PowerWait, RefreshWait, OffWait, NotBusy, Drivers
  <2>2. CASE PowerOn(t) \/ Trigger(t) \/ PowerOff(t)
    BY <1>5, <2>2 DEF PowerOn, Trigger, PowerOff, Waits
  <2>3. CASE \/ KeepMode(t) \/ HwReset(t) \/ EnterWindow(t) \/ PowerIsOn(t)
             \/ UploadOld(t) \/ UploadNew(t) \/ PowerIsOff(t) \/ ExitWindow(t)
    <3>1. drv' = drv /\ job[t].at \notin Waits /\ \E point \in Points : Goto(t, point)
      BY <2>3 DEF KeepMode, HwReset, EnterWindow, PowerIsOn, UploadOld, UploadNew,
                  PowerIsOff, ExitWindow, Waits, UploadPoint, AfterRefresh, Points,
                  DrawPoints, UploadPoints, RefreshPoints
    <3>2. QED
      BY <1>1, <1>3, <3>1, GotoJob
  <2>4. QED
    BY <1>8, <2>1, <2>2, <2>3 DEF Prepare, Refresh
<1>9. ASSUME NEW t \in Tasks, Commit(t)
      PROVE  BusyHasWaiter'
  <2>1. drv'.busy = drv.busy /\ job[t].at \notin Waits
    BY <1>1, <1>9 DEF Commit, CommitFull, CommitPartial, Waits, Drivers
  <2>2. \A u \in Tasks \ {t} : job'[u] = job[u]
    BY <1>1, <1>9, ReturnJob DEF Commit, CommitFull, CommitPartial
  <2>3. QED
    BY <1>2, <2>1, <2>2
<1>10. ASSUME NEW t \in Tasks, Failure(t)
       PROVE  BusyHasWaiter'
  <2>1. CASE WaitTimesOut(t)
    BY <1>1, <1>6, <2>1 DEF WaitTimesOut, NotBusy, Drivers
  <2>2. CASE ~WaitTimesOut(t)
    BY <1>4, <1>10, <2>2
       DEF Failure, InitSeqFails, EnterWindowFails, UploadFails, TriggerFails,
           PowerOffFails, ExitWindowFails, Waits
  <2>3. QED
    BY <2>1, <2>2
<1>11. ASSUME NEW t \in Tasks, Abort(t)
       PROVE  BusyHasWaiter'
  BY <1>4, <1>11 DEF Abort, Waits
<1>12. CASE UNCHANGED <<drv, job>>
  BY <1>2, <1>12
<1>13. QED
  BY <1>7, <1>8, <1>9, <1>10, <1>11, <1>12
     DEF Next, TaskStep, PanelDone, StatusChanges, vars

\* Only a tool refreshes partially, so nobody else counts between its look at
\* the count and its increment.
LEMMA BudgetStep ==
  ASSUME Typed, JobsInv, BudgetInv, [Next]_vars
  PROVE  BudgetInv'
<1>1. job \in [Tasks -> Jobs] /\ drv \in Drivers
      /\ job' \in [Tasks -> Jobs] /\ JobsInv'
  BY JobsStep DEF Typed
<1> USE ConstantsAssumption
<1>2. ASSUME drv'.count = drv.count,
             \A t \in Tasks : CountInv(t) => CountInv(t)'
      PROVE  BudgetInv'
  BY <1>2 DEF BudgetInv
<1>3. ASSUME drv'.count = drv.count, NEW t \in Tasks, CountInv(t)',
             \A u \in Tasks \ {t} : job'[u] = job[u]
      PROVE  BudgetInv'
  BY <1>2, <1>3 DEF CountInv
<1>4. ASSUME NEW t \in Tasks, NEW ok \in BOOLEAN, Return(t, ok),
             drv'.count = drv.count
      PROVE  BudgetInv'
  <2>1. CountInv(t)'
    BY <1>1, <1>4, ReturnJob, IdleTyped DEF CountInv
  <2>2. QED
    BY <1>1, <1>3, <1>4, <2>1, ReturnJob
<1>5. ASSUME NEW t \in Tasks, NEW point \in Points, Goto(t, point),
             job[t].at \in InMode \cup {"init", "init_seq"}, drv'.count = drv.count
      PROVE  BudgetInv'
  <2>1. CountInv(t)'
    BY <1>1, <1>5, GotoJob DEF CountInv, BudgetInv
  <2>2. QED
    BY <1>1, <1>3, <1>5, <2>1, GotoJob
<1>6. ASSUME NEW t \in Tasks, Aborts(t),
             job[t].at \in InMode \cup {"init", "init_seq"}, drv'.count = drv.count
      PROVE  BudgetInv'
  BY <1>4, <1>5, <1>6 DEF Aborts, Points
<1>7. ASSUME NEW t \in Tasks, Start(t)
      PROVE  BudgetInv'
  <2>1. drv' = drv /\ \A u \in Tasks \ {t} : job'[u] = job[u]
    BY <1>1, <1>7 DEF Start, StartStatusScreen, StartTool, RefuseTool
  <2>2. job'[t].at \in {"idle", "draw", "gate"}
    BY <1>1, <1>7 DEF Start, StartStatusScreen, StartTool, RefuseTool
  <2>3. CountInv(t)'
    BY <2>2 DEF CountInv, InMode, UploadPoints, RefreshPoints
  <2>4. QED
    BY <1>3, <2>1, <2>3
<1>8. ASSUME NEW t \in Tasks, Render(t)
      PROVE  BudgetInv'
  <2>1. CASE Draw(t)
    <3>1. CASE Return(t, TRUE)
      BY <1>4, <2>1, <3>1 DEF Draw
    <3>2. CASE Goto(t, "gate")
      <4>1. CountInv(t)' /\ \A u \in Tasks \ {t} : job'[u] = job[u]
        BY <1>1, <3>2, GotoJob
           DEF CountInv, InMode, UploadPoints, RefreshPoints, Points, DrawPoints
      <4>2. QED
        BY <1>3, <2>1, <4>1 DEF Draw
    <3>3. QED
      BY <2>1, <3>1, <3>2 DEF Draw
  <2>2. CASE GateBusy(t)
    BY <1>4, <2>2 DEF GateBusy
  <2>3. CASE Gate(t)
    <3>1. PICK point \in {"choose", "init"} :
            Goto(t, point) /\ (point = "init" => job[t].req.mode # "PARTIAL")
      BY <2>3 DEF Gate
    <3>2. job'[t].at = point /\ job'[t].how = job[t].how
          /\ \A u \in Tasks \ {t} : job'[u] = job[u]
      BY <1>1, <3>1, GotoJob DEF Points, DrawPoints
    <3>3. job[t].how = job[t].req.mode
      BY <2>3 DEF Gate, JobsInv, JobInv
    <3>4. CountInv(t)'
      BY <3>1, <3>2, <3>3 DEF CountInv, InMode, UploadPoints, RefreshPoints
    <3>5. QED
      BY <1>3, <2>3, <3>2, <3>4 DEF Gate
  <2>4. CASE Choose(t)
    <3>1. \A u \in Tasks \ {t} : job'[u] = job[u]
      BY <1>1, <2>4 DEF Choose
    <3>2. drv.count >= Budget => job'[t].how = "FULL"
      BY <1>1, <2>4 DEF Choose, Jobs
    <3>3. CountInv(t)'
      BY <1>1, <2>4, <3>2 DEF Choose, CountInv, Drivers
    <3>4. QED
      BY <1>3, <2>4, <3>1, <3>3 DEF Choose
  <2>5. QED
    BY <1>8, <2>1, <2>2, <2>3, <2>4 DEF Render
<1>9. ASSUME NEW t \in Tasks, Prepare(t) \/ Refresh(t)
      PROVE  BudgetInv'
  <2>1. drv'.count = drv.count
    BY <1>1, <1>9
       DEF Prepare, Refresh, KeepMode, HwReset, InitSeq, EnterWindow, PowerIsOn,
           PowerOn, PowerWait, UploadOld, UploadNew, Trigger, RefreshWait,
           PowerIsOff, PowerOff, OffWait, ExitWindow, NotBusy, Drivers
  <2>2. job[t].at \in InMode \cup {"init", "init_seq"}
        /\ \E point \in Points : Goto(t, point)
    BY <1>9
       DEF Prepare, Refresh, KeepMode, HwReset, InitSeq, EnterWindow, PowerIsOn,
           PowerOn, PowerWait, UploadOld, UploadNew, Trigger, RefreshWait,
           PowerIsOff, PowerOff, OffWait, ExitWindow, UploadPoint, AfterRefresh,
           Points, DrawPoints, UploadPoints, RefreshPoints, InMode
  <2>3. QED
    BY <1>5, <2>1, <2>2
<1>10. ASSUME NEW t \in Tasks, CommitFull(t)
       PROVE  BudgetInv'
  <2>1. drv'.count = 0
    BY <1>1, <1>10 DEF CommitFull, Drivers
  <2>2. QED
    BY <2>1 DEF BudgetInv, CountInv
<1>11. ASSUME NEW t \in Tasks, CommitPartial(t)
       PROVE  BudgetInv'
  <2>1. job[t].at = "commit" /\ job[t].how = "PARTIAL" /\ t = "tool"
    BY <1>11 DEF CommitPartial, JobsInv, JobInv
  <2>2. drv.count < Budget /\ drv'.count = drv.count + 1
    BY <1>1, <1>11, <2>1
       DEF CommitPartial, BudgetInv, CountInv, InMode, RefreshPoints, Drivers
  <2>3. \A u \in Tasks : job'[u].how = "FULL"
    <3>1. \A u \in Tasks \ {t} : u = "main"
      BY <2>1
    <3>2. job'[t] = Idle
      BY <1>1, <1>11, ReturnJob DEF CommitPartial
    <3>3. QED
      BY <1>1, <3>1, <3>2, IdleTyped DEF JobsInv, JobInv
  <2>4. QED
    BY <1>1, <2>2, <2>3 DEF BudgetInv, CountInv, Drivers
<1>12. ASSUME NEW t \in Tasks, Failure(t)
       PROVE  BudgetInv'
  <2>1. drv'.count = drv.count
    BY <1>1, <1>12
       DEF Failure, InitSeqFails, EnterWindowFails, UploadFails, TriggerFails,
           WaitTimesOut, PowerOffFails, ExitWindowFails, NotBusy, Drivers
  <2>2. Return(t, FALSE)
        \/ (job[t].at \in InMode \cup {"init", "init_seq"} /\ Aborts(t))
    BY <1>12
       DEF Failure, InitSeqFails, EnterWindowFails, UploadFails, TriggerFails,
           WaitTimesOut, PowerOffFails, ExitWindowFails, Waits, InMode,
           UploadPoints, RefreshPoints
  <2>3. QED
    BY <1>4, <1>6, <2>1, <2>2
<1>13. ASSUME NEW t \in Tasks, Abort(t)
       PROVE  BudgetInv'
  BY <1>4, <1>13 DEF Abort
<1>14. CASE UNCHANGED <<drv, job>>
  BY <1>2, <1>14 DEF CountInv
<1>15. QED
  BY <1>7, <1>8, <1>9, <1>10, <1>11, <1>12, <1>13, <1>14
     DEF Next, TaskStep, Commit, PanelDone, StatusChanges, vars

\* The types and the requests, in every reachable state.
LEMMA TypedAlways == Spec => [](Typed /\ JobsInv)
<1>1. Init => Typed /\ JobsInv
  BY InitTyped
<1>2. Typed /\ JobsInv /\ [Next]_vars => Typed' /\ JobsInv'
  <2>1. Typed => job \in [Tasks -> Jobs] /\ screen.now \in Marks
    BY DEF Typed
  <2>2. QED
    BY <2>1, TypedStep, JobsStep
<1>3. QED
  BY <1>1, <1>2, PTL DEF Spec

\* TypeOK: the driver's globals, the panel and the requests of the tasks.
THEOREM TypeCorrect == Spec => []TypeOK
BY TypedAlways, TypedIsTypeOK, PTL

\* g_busy, whatever fails and whichever tasks render: when it is set, a task is
\* waiting that will clear it.
THEOREM BusyCorrect == Spec => []BusyHasWaiter
<1>1. Init => BusyHasWaiter
  BY InitTyped
<1>2. Typed /\ BusyHasWaiter /\ [Next]_vars => BusyHasWaiter'
  BY BusyStep
<1>3. QED
  BY <1>1, <1>2, TypedAlways, PTL DEF Spec

\* g_partial_refresh_count never passes display_partial_budget, for any budget,
\* although it is read and incremented in different steps.
THEOREM CountCorrect == Spec => []CountBounded
<1>1. Init => BudgetInv
  BY InitTyped
<1>2. Typed /\ JobsInv /\ BudgetInv /\ [Next]_vars => BudgetInv'
  BY BudgetStep
<1>3. BudgetInv => CountBounded
  BY DEF BudgetInv, CountBounded
<1>4. QED
  BY <1>1, <1>2, <1>3, TypedAlways, PTL DEF Spec

-----------------------------------------------------------------------------
(* One task.  A step of it moves it on or ends its call; each of the three     *)
(* parts of TaskInv is kept by each of them.                                  *)

Moves(t, point) == /\ job'[t].at = point /\ job'[t].req = job[t].req
                   /\ job'[t].how = job[t].how
Ends(t) == job'[t].at = "idle"

\* Goto as equations about the task.
LEMMA MovesJob ==
  ASSUME job \in [Tasks -> Jobs], NEW t \in Tasks, NEW point \in Points, Goto(t, point)
  PROVE  Moves(t, point)
BY GotoJob DEF Moves

\* Return as an equation about the task.
LEMMA EndsJob ==
  ASSUME job \in [Tasks -> Jobs], NEW t \in Tasks, NEW ok \in BOOLEAN, Return(t, ok)
  PROVE  Ends(t)
BY ReturnJob, IdleTyped DEF Ends

\* One case per action of the task; the panel ends nothing in between.
LEMMA DriverStepKeeps ==
  ASSUME Typed, JobsInv, NEW t \in Tasks, RegistersInv(t), PlanesInv(t),
         Start(t) \/ TaskStep(t)
  PROVE  RegistersInv(t)' /\ PlanesInv(t)'
<1>1. job \in [Tasks -> Jobs] /\ drv \in Drivers /\ panel \in Panels
      /\ trouble \in Troubles
  BY DEF Typed
<1>2. job[t] \in Jobs
  BY <1>1
<1>3. CASE StartStatusScreen(t)
  <2>1. job'[t].at \in {"draw", "gate"}
    BY <1>1, <1>2, <1>3 DEF StartStatusScreen
  <2>2. RegistersInv(t)'
    BY <1>1, <1>2, <1>3, <2>1
       DEF RegistersInv, StartStatusScreen, Settled, BeforeInit,
           InMode, MustBePowered, UploadPoints, RefreshPoints
  <2>3. PlanesInv(t)'
    BY <1>1, <1>2, <1>3, <2>1
       DEF PlanesInv, StartStatusScreen, Refreshing, HasRefreshed,
           Touched, InWindow
  <2>4. QED
    BY <2>2, <2>3
<1>4. CASE StartTool(t)
  <2>1. job'[t].at \in {"draw", "gate"}
    BY <1>1, <1>2, <1>4 DEF StartTool
  <2>2. RegistersInv(t)'
    BY <1>1, <1>2, <1>4, <2>1
       DEF RegistersInv, StartTool, Settled, BeforeInit, InMode,
           MustBePowered, UploadPoints, RefreshPoints
  <2>3. PlanesInv(t)'
    BY <1>1, <1>2, <1>4, <2>1
       DEF PlanesInv, StartTool, Refreshing, HasRefreshed, Touched,
           InWindow
  <2>4. QED
    BY <2>2, <2>3
<1>5. CASE RefuseTool(t)
  <2>1. job' = job
    BY <1>1, <1>2, <1>5 DEF RefuseTool
  <2>2. RegistersInv(t)'
    BY <1>1, <1>2, <1>5, <2>1
       DEF RegistersInv, RefuseTool, Settled, BeforeInit, InMode,
           MustBePowered, UploadPoints, RefreshPoints
  <2>3. PlanesInv(t)'
    BY <1>1, <1>2, <1>5, <2>1
       DEF PlanesInv, RefuseTool, Refreshing, HasRefreshed, Touched,
           InWindow
  <2>4. QED
    BY <2>2, <2>3
<1>6. CASE Draw(t)
  <2>1. Ends(t) \/ Moves(t, "gate")
    BY <1>1, <1>2, <1>6, MovesJob, EndsJob
       DEF Draw, Points, DrawPoints, UploadPoints, RefreshPoints
  <2>2. RegistersInv(t)'
    BY <1>1, <1>2, <1>6, <2>1
       DEF RegistersInv, Draw, Moves, Ends, Settled, BeforeInit, InMode,
           MustBePowered, UploadPoints, RefreshPoints
  <2>3. PlanesInv(t)'
    BY <1>1, <1>2, <1>6, <2>1
       DEF PlanesInv, Draw, Moves, Ends, Refreshing, HasRefreshed, Touched,
           InWindow
  <2>4. QED
    BY <2>2, <2>3
<1>7. CASE GateBusy(t)
  <2>1. Ends(t)
    BY <1>1, <1>2, <1>7, EndsJob DEF GateBusy
  <2>2. RegistersInv(t)'
    BY <1>1, <1>2, <1>7, <2>1
       DEF RegistersInv, GateBusy, Ends, Settled, BeforeInit, InMode,
           MustBePowered, UploadPoints, RefreshPoints
  <2>3. PlanesInv(t)'
    BY <1>1, <1>2, <1>7, <2>1
       DEF PlanesInv, GateBusy, Ends, Refreshing, HasRefreshed, Touched,
           InWindow
  <2>4. QED
    BY <2>2, <2>3
<1>8. CASE Gate(t)
  <2>1. Moves(t, IF job[t].req.mode = "PARTIAL" THEN "choose" ELSE "init")
    BY <1>1, <1>2, <1>8, MovesJob
       DEF Gate, Points, DrawPoints, UploadPoints, RefreshPoints
  <2>2. RegistersInv(t)'
    BY <1>1, <1>2, <1>8, <2>1
       DEF RegistersInv, Gate, Moves, Settled, BeforeInit, InMode,
           MustBePowered, UploadPoints, RefreshPoints
  <2>3. PlanesInv(t)'
    BY <1>1, <1>2, <1>8, <2>1
       DEF PlanesInv, Gate, Moves, Refreshing, HasRefreshed, Touched,
           InWindow
  <2>4. QED
    BY <2>2, <2>3
<1>9. CASE Choose(t)
  <2>1. /\ job'[t].at = "init" /\ job'[t].req = job[t].req
    BY <1>1, <1>2, <1>9 DEF Choose, Jobs
  <2>2. RegistersInv(t)'
    BY <1>1, <1>2, <1>9, <2>1
       DEF RegistersInv, Choose, Settled, BeforeInit, InMode,
           MustBePowered, UploadPoints, RefreshPoints
  <2>3. PlanesInv(t)'
    BY <1>1, <1>2, <1>9, <2>1
       DEF PlanesInv, Choose, Refreshing, HasRefreshed, Touched,
           InWindow
  <2>4. QED
    BY <2>2, <2>3
<1>10. CASE KeepMode(t)
  <2>1. Moves(t, UploadPoint(t))
    BY <1>1, <1>2, <1>10, MovesJob
       DEF KeepMode, UploadPoint, Points, DrawPoints, UploadPoints, RefreshPoints
  <2>2. RegistersInv(t)'
    BY <1>1, <1>2, <1>10, <2>1
       DEF RegistersInv, KeepMode, Moves, UploadPoint, Settled, BeforeInit,
           InMode, MustBePowered, UploadPoints, RefreshPoints
  <2>3. PlanesInv(t)'
    BY <1>1, <1>2, <1>10, <2>1
       DEF PlanesInv, RegistersInv, KeepMode, Moves, UploadPoint, Jobs,
           Drivers, Panels, Troubles, Refreshing, HasRefreshed, Touched, InWindow,
           Settled, BeforeInit, InMode, MustBePowered, UploadPoints, RefreshPoints
  <2>4. QED
    BY <2>2, <2>3
<1>11. CASE HwReset(t)
  <2>1. Moves(t, "init_seq")
    BY <1>1, <1>2, <1>11, MovesJob
       DEF HwReset, Points, DrawPoints, UploadPoints, RefreshPoints
  <2>2. RegistersInv(t)'
    BY <1>1, <1>2, <1>11, <2>1
       DEF RegistersInv, HwReset, Moves, Settled, BeforeInit, InMode,
           MustBePowered, UploadPoints, RefreshPoints
  <2>3. PlanesInv(t)'
    BY <1>1, <1>2, <1>11, <2>1
       DEF PlanesInv, HwReset, Moves, Refreshing, HasRefreshed, Touched,
           InWindow
  <2>4. QED
    BY <2>2, <2>3
<1>12. CASE InitSeq(t)
  <2>1. Moves(t, UploadPoint(t))
    BY <1>1, <1>2, <1>12, MovesJob
       DEF InitSeq, UploadPoint, Points, DrawPoints, UploadPoints, RefreshPoints
  <2>2. RegistersInv(t)'
    BY <1>1, <1>2, <1>12, <2>1
       DEF RegistersInv, InitSeq, Moves, UploadPoint, Settled, BeforeInit,
           InMode, MustBePowered, UploadPoints, RefreshPoints
  <2>3. PlanesInv(t)'
    BY <1>1, <1>2, <1>12, <2>1
       DEF PlanesInv, RegistersInv, InitSeq, Moves, UploadPoint, Jobs,
           Drivers, Panels, Troubles, Refreshing, HasRefreshed, Touched, InWindow,
           Settled, BeforeInit, InMode, MustBePowered, UploadPoints, RefreshPoints
  <2>4. QED
    BY <2>2, <2>3
<1>13. CASE EnterWindow(t)
  <2>1. Moves(t, "power")
    BY <1>1, <1>2, <1>13, MovesJob
       DEF EnterWindow, Points, DrawPoints, UploadPoints, RefreshPoints
  <2>2. RegistersInv(t)'
    BY <1>1, <1>2, <1>13, <2>1
       DEF RegistersInv, EnterWindow, Moves, Sent, Jobs, Drivers, Panels,
           Troubles, Settled, BeforeInit, InMode, MustBePowered, UploadPoints,
           RefreshPoints
  <2>3. PlanesInv(t)'
    <3>1. job[t].how = "PARTIAL" /\ Touched(t) = job[t].req.region
      BY <1>13 DEF EnterWindow, JobsInv, JobInv, Touched
    <3>2. ~trouble.panel => panel.mode = "PARTIAL" /\ panel.doing = "none"
      BY <1>13, <3>1 DEF EnterWindow, RegistersInv, InMode, UploadPoints, Settled
    <3>3. trouble' = trouble /\ Touched(t)' = Touched(t)
      BY <2>1, <1>13 DEF EnterWindow, Moves, Touched
    <3>4. ~trouble.panel => panel'.window = Touched(t) /\ panel'.mode = "PARTIAL"
      BY <1>1, <1>13, <3>1, <3>2 DEF EnterWindow, Sent, Panels
    <3>5. QED
      BY <2>1, <3>3, <3>4 DEF PlanesInv, Moves, Refreshing, HasRefreshed, InWindow
  <2>4. QED
    BY <2>2, <2>3
<1>14. CASE PowerIsOn(t)
  <2>1. Moves(t, "old")
    BY <1>1, <1>2, <1>14, MovesJob
       DEF PowerIsOn, Points, DrawPoints, UploadPoints, RefreshPoints
  <2>2. RegistersInv(t)'
    BY <1>1, <1>2, <1>14, <2>1
       DEF RegistersInv, PowerIsOn, Moves, Settled, BeforeInit, InMode,
           MustBePowered, UploadPoints, RefreshPoints
  <2>3. PlanesInv(t)'
    BY <1>1, <1>2, <1>14, <2>1
       DEF PlanesInv, PowerIsOn, Moves, Refreshing, HasRefreshed, Touched,
           InWindow
  <2>4. QED
    BY <2>2, <2>3
<1>15. CASE PowerOn(t)
  <2>1. Moves(t, "power_wait")
    BY <1>1, <1>2, <1>15, MovesJob
       DEF PowerOn, Points, DrawPoints, UploadPoints, RefreshPoints
  <2>2. RegistersInv(t)'
    BY <1>1, <1>2, <1>15, <2>1
       DEF RegistersInv, PowerOn, Moves, Sent, Jobs, Drivers, Panels,
           Troubles, Settled, BeforeInit, InMode, MustBePowered, UploadPoints,
           RefreshPoints
  <2>3. PlanesInv(t)'
    BY <1>1, <1>2, <1>15, <2>1
       DEF PlanesInv, PowerOn, Moves, Sent, Panels, Troubles, Refreshing,
           HasRefreshed, Touched, InWindow
  <2>4. QED
    BY <2>2, <2>3
<1>16. CASE PowerWait(t)
  <2>1. Moves(t, "old")
    BY <1>1, <1>2, <1>16, MovesJob
       DEF PowerWait, Points, DrawPoints, UploadPoints, RefreshPoints
  <2>2. RegistersInv(t)'
    BY <1>1, <1>2, <1>16, <2>1
       DEF RegistersInv, PowerWait, Moves, Jobs, Drivers, Troubles, Settled,
           BeforeInit, InMode, MustBePowered, UploadPoints, RefreshPoints
  <2>3. PlanesInv(t)'
    BY <1>1, <1>2, <1>16, <2>1
       DEF PlanesInv, PowerWait, Moves, Refreshing, HasRefreshed, Touched,
           InWindow
  <2>4. QED
    BY <2>2, <2>3
<1>17. CASE UploadOld(t)
  <2>1. Moves(t, "new")
    BY <1>1, <1>2, <1>17, MovesJob
       DEF UploadOld, Points, DrawPoints, UploadPoints, RefreshPoints
  <2>2. RegistersInv(t)'
    BY <1>1, <1>2, <1>17, <2>1
       DEF RegistersInv, UploadOld, Moves, Sent, Jobs, Drivers, Panels,
           Troubles, Settled, BeforeInit, InMode, MustBePowered, UploadPoints,
           RefreshPoints
  <2>3. PlanesInv(t)'
    <3>1. ~trouble.panel => panel.mode = job[t].how /\ panel.doing = "none"
      BY <1>17 DEF UploadOld, RegistersInv, InMode, UploadPoints, Settled
    <3>2. ~trouble.panel => panel.window = Touched(t)
      BY <1>17 DEF UploadOld, PlanesInv, InWindow
    <3>3. Touched(t) \subseteq Regions
      BY <1>2, RequestTyped DEF Touched, Jobs, Whole
    <3>4. ~trouble.panel => \A r \in Touched(t) : panel'.old[r] = committed[r]
      <4>1. ~trouble.panel => panel'.old = Overwrite(Unknown, Touched(t), committed)
        BY <1>1, <1>17, <3>1, <3>2 DEF UploadOld, Sent, Sense, Panels
      <4>2. QED
        BY <3>3, <4>1 DEF Overwrite
    <3>5. ~trouble.panel => panel'.mode = panel.mode /\ panel'.window = panel.window
      BY <1>1, <1>17, <3>1 DEF UploadOld, Sent, Panels
    <3>6. trouble' = trouble /\ Touched(t)' = Touched(t) /\ UNCHANGED <<fb, committed>>
      BY <2>1, <1>17 DEF UploadOld, Moves, Touched
    <3>7. QED
      BY <2>1, <1>17, <3>2, <3>4, <3>5, <3>6
         DEF UploadOld, PlanesInv, Moves, Refreshing, HasRefreshed, InWindow
  <2>4. QED
    BY <2>2, <2>3
<1>18. CASE UploadNew(t)
  <2>1. Moves(t, "trigger")
    BY <1>1, <1>2, <1>18, MovesJob
       DEF UploadNew, Points, DrawPoints, UploadPoints, RefreshPoints
  <2>2. RegistersInv(t)'
    BY <1>1, <1>2, <1>18, <2>1
       DEF RegistersInv, UploadNew, Moves, Sent, Jobs, Drivers, Panels,
           Troubles, Settled, BeforeInit, InMode, MustBePowered, UploadPoints,
           RefreshPoints
  <2>3. PlanesInv(t)'
    <3>1. ~trouble.panel => panel.mode = job[t].how /\ panel.doing = "none"
      BY <1>18 DEF UploadNew, RegistersInv, InMode, UploadPoints, Settled
    <3>2. ~trouble.panel => panel.window = Touched(t)
      BY <1>18 DEF UploadNew, PlanesInv, InWindow
    <3>3. Touched(t) \subseteq Regions
      BY <1>2, RequestTyped DEF Touched, Jobs, Whole
    <3>4. ~trouble.panel => \A r \in Touched(t) : panel'.new[r] = fb[r]
      <4>1. ~trouble.panel => panel'.new = Overwrite(Unknown, Touched(t), fb)
        BY <1>1, <1>18, <3>1, <3>2 DEF UploadNew, Sent, Sense, Panels
      <4>2. QED
        BY <3>3, <4>1 DEF Overwrite
    <3>5. ~trouble.panel => /\ panel'.mode = panel.mode
                             /\ panel'.window = panel.window
                             /\ panel'.old = panel.old
      BY <1>1, <1>18, <3>1 DEF UploadNew, Sent, Panels
    <3>6. trouble' = trouble /\ Touched(t)' = Touched(t) /\ UNCHANGED <<fb, committed>>
      BY <2>1, <1>18 DEF UploadNew, Moves, Touched
    <3>7. QED
      BY <2>1, <1>18, <3>2, <3>4, <3>5, <3>6
         DEF UploadNew, PlanesInv, Moves, Refreshing, HasRefreshed, InWindow
  <2>4. QED
    BY <2>2, <2>3
<1>19. CASE Trigger(t)
  <2>1. Moves(t, "refresh_wait")
    BY <1>1, <1>2, <1>19, MovesJob
       DEF Trigger, Points, DrawPoints, UploadPoints, RefreshPoints
  <2>2. RegistersInv(t)'
    BY <1>1, <1>2, <1>19, <2>1
       DEF RegistersInv, Trigger, Moves, Sent, Jobs, Drivers, Panels,
           Troubles, Settled, BeforeInit, InMode, MustBePowered, UploadPoints,
           RefreshPoints
  <2>3. PlanesInv(t)'
    BY <1>1, <1>2, <1>19, <2>1
       DEF PlanesInv, Trigger, Moves, Sent, Panels, Troubles, Refreshing,
           HasRefreshed, Touched, InWindow
  <2>4. QED
    BY <2>2, <2>3
<1>20. CASE RefreshWait(t)
  <2>1. Moves(t, "off")
    BY <1>1, <1>2, <1>20, MovesJob
       DEF RefreshWait, Points, DrawPoints, UploadPoints, RefreshPoints
  <2>2. RegistersInv(t)'
    BY <1>1, <1>2, <1>20, <2>1
       DEF RegistersInv, RefreshWait, Moves, NotBusy, Jobs, Drivers,
           Troubles, Settled, BeforeInit, InMode, MustBePowered, UploadPoints,
           RefreshPoints
  <2>3. PlanesInv(t)'
    BY <1>1, <1>2, <1>20, <2>1
       DEF PlanesInv, RefreshWait, Moves, NotBusy, Refreshing, HasRefreshed,
           Touched, InWindow
  <2>4. QED
    BY <2>2, <2>3
<1>21. CASE PowerIsOff(t)
  <2>1. Moves(t, AfterRefresh(t))
    BY <1>1, <1>2, <1>21, MovesJob
       DEF PowerIsOff, AfterRefresh, Points, DrawPoints, UploadPoints, RefreshPoints
  <2>2. RegistersInv(t)'
    BY <1>1, <1>2, <1>21, <2>1
       DEF RegistersInv, PowerIsOff, Moves, AfterRefresh, Settled,
           BeforeInit, InMode, MustBePowered, UploadPoints, RefreshPoints
  <2>3. PlanesInv(t)'
    BY <1>1, <1>2, <1>21, <2>1
       DEF PlanesInv, PowerIsOff, Moves, AfterRefresh, Refreshing,
           HasRefreshed, Touched, InWindow
  <2>4. QED
    BY <2>2, <2>3
<1>22. CASE PowerOff(t)
  <2>1. Moves(t, "off_wait")
    BY <1>1, <1>2, <1>22, MovesJob
       DEF PowerOff, Points, DrawPoints, UploadPoints, RefreshPoints
  <2>2. RegistersInv(t)'
    BY <1>1, <1>2, <1>22, <2>1
       DEF RegistersInv, PowerOff, Moves, Sent, Jobs, Drivers, Panels,
           Troubles, Settled, BeforeInit, InMode, MustBePowered, UploadPoints,
           RefreshPoints
  <2>3. PlanesInv(t)'
    BY <1>1, <1>2, <1>22, <2>1
       DEF PlanesInv, PowerOff, Moves, Sent, Panels, Troubles, Refreshing,
           HasRefreshed, Touched, InWindow
  <2>4. QED
    BY <2>2, <2>3
<1>23. CASE OffWait(t)
  <2>1. Moves(t, AfterRefresh(t))
    BY <1>1, <1>2, <1>23, MovesJob
       DEF OffWait, AfterRefresh, Points, DrawPoints, UploadPoints, RefreshPoints
  <2>2. RegistersInv(t)'
    BY <1>1, <1>2, <1>23, <2>1
       DEF RegistersInv, OffWait, Moves, AfterRefresh, Jobs, Drivers, Panels,
           Troubles, Settled, BeforeInit, InMode, MustBePowered, UploadPoints,
           RefreshPoints
  <2>3. PlanesInv(t)'
    BY <1>1, <1>2, <1>23, <2>1
       DEF PlanesInv, OffWait, Moves, AfterRefresh, Refreshing, HasRefreshed,
           Touched, InWindow
  <2>4. QED
    BY <2>2, <2>3
<1>24. CASE ExitWindow(t)
  <2>1. Moves(t, "commit")
    BY <1>1, <1>2, <1>24, MovesJob
       DEF ExitWindow, Points, DrawPoints, UploadPoints, RefreshPoints
  <2>2. RegistersInv(t)'
    BY <1>1, <1>2, <1>24, <2>1
       DEF RegistersInv, ExitWindow, Moves, Sent, Jobs, Drivers, Panels,
           Troubles, Settled, BeforeInit, InMode, MustBePowered, UploadPoints,
           RefreshPoints
  <2>3. PlanesInv(t)'
    BY <1>1, <1>2, <1>24, <2>1
       DEF PlanesInv, ExitWindow, Moves, Sent, Panels, Troubles, Refreshing,
           HasRefreshed, Touched, InWindow
  <2>4. QED
    BY <2>2, <2>3
<1>25. CASE CommitFull(t)
  <2>1. Ends(t)
    BY <1>1, <1>2, <1>25, EndsJob DEF CommitFull
  <2>2. RegistersInv(t)'
    BY <1>1, <1>2, <1>25, <2>1
       DEF RegistersInv, CommitFull, Ends, Settled, BeforeInit, InMode,
           MustBePowered, UploadPoints, RefreshPoints
  <2>3. PlanesInv(t)'
    BY <1>1, <1>2, <1>25, <2>1
       DEF PlanesInv, CommitFull, Ends, Refreshing, HasRefreshed, Touched,
           InWindow
  <2>4. QED
    BY <2>2, <2>3
<1>26. CASE CommitPartial(t)
  <2>1. Ends(t)
    BY <1>1, <1>2, <1>26, EndsJob DEF CommitPartial
  <2>2. RegistersInv(t)'
    BY <1>1, <1>2, <1>26, <2>1
       DEF RegistersInv, CommitPartial, Ends, Settled, BeforeInit, InMode,
           MustBePowered, UploadPoints, RefreshPoints
  <2>3. PlanesInv(t)'
    BY <1>1, <1>2, <1>26, <2>1
       DEF PlanesInv, CommitPartial, Ends, Refreshing, HasRefreshed,
           Touched, InWindow
  <2>4. QED
    BY <2>2, <2>3
<1>27. CASE InitSeqFails(t)
  <2>1. Ends(t)
    BY <1>1, <1>2, <1>27, EndsJob DEF InitSeqFails
  <2>2. trouble'.panel
    BY <1>1, <1>27, DoubtTyped DEF InitSeqFails
  <2>3. RegistersInv(t)'
    BY <1>1, <1>2, <1>27, <2>1, <2>2
       DEF RegistersInv, InitSeqFails, Ends, NotBusy, Settled,
           BeforeInit, InMode, MustBePowered, UploadPoints, RefreshPoints
  <2>4. PlanesInv(t)'
    BY <1>1, <1>2, <1>27, <2>1, <2>2
       DEF PlanesInv, InitSeqFails, Ends, NotBusy, Refreshing,
           HasRefreshed, Touched, InWindow
  <2>5. QED
    BY <2>3, <2>4
<1>28. CASE EnterWindowFails(t)
  <2>1. Ends(t)
    BY <1>1, <1>2, <1>28, EndsJob DEF EnterWindowFails
  <2>2. trouble.panel => trouble'.panel
    BY <1>1, <1>28, DoubtTyped DEF EnterWindowFails
  <2>3. RegistersInv(t)'
    BY <1>1, <1>2, <1>28, <2>1, <2>2
       DEF RegistersInv, EnterWindowFails, Ends, Settled, BeforeInit,
           InMode, MustBePowered, UploadPoints, RefreshPoints
  <2>4. PlanesInv(t)'
    BY <1>1, <1>2, <1>28, <2>1, <2>2
       DEF PlanesInv, EnterWindowFails, Ends, Refreshing,
           HasRefreshed, Touched, InWindow
  <2>5. QED
    BY <2>3, <2>4
<1>29. CASE UploadFails(t)
  <2>1. Ends(t) \/ (job[t].how = "PARTIAL" /\ Moves(t, "abort"))
    BY <1>1, <1>2, <1>29, MovesJob, EndsJob
       DEF UploadFails, Aborts, Points, DrawPoints, UploadPoints, RefreshPoints
  <2>2. trouble.panel => trouble'.panel
    BY <1>1, <1>29, DoubtTyped DEF UploadFails
  <2>3. RegistersInv(t)'
    BY <1>1, <1>2, <1>29, <2>1, <2>2
       DEF RegistersInv, UploadFails, Moves, Ends, Settled, BeforeInit,
           InMode, MustBePowered, UploadPoints, RefreshPoints
  <2>4. PlanesInv(t)'
    BY <1>1, <1>2, <1>29, <2>1, <2>2
       DEF PlanesInv, UploadFails, Moves, Ends, Refreshing, HasRefreshed,
           Touched, InWindow
  <2>5. QED
    BY <2>3, <2>4
<1>30. CASE TriggerFails(t)
  <2>1. Ends(t) \/ (job[t].how = "PARTIAL" /\ Moves(t, "abort"))
    BY <1>1, <1>2, <1>30, MovesJob, EndsJob
       DEF TriggerFails, Aborts, Points, DrawPoints, UploadPoints, RefreshPoints
  <2>2. trouble.panel => trouble'.panel
    BY <1>1, <1>30, DoubtTyped DEF TriggerFails
  <2>3. RegistersInv(t)'
    BY <1>1, <1>2, <1>30, <2>1, <2>2
       DEF RegistersInv, TriggerFails, Moves, Ends, NotBusy, Jobs, Drivers,
           Troubles, Settled, BeforeInit, InMode, MustBePowered, UploadPoints,
           RefreshPoints
  <2>4. PlanesInv(t)'
    BY <1>1, <1>2, <1>30, <2>1, <2>2
       DEF PlanesInv, TriggerFails, Moves, Ends, NotBusy, Refreshing,
           HasRefreshed, Touched, InWindow
  <2>5. QED
    BY <2>3, <2>4
<1>31. CASE WaitTimesOut(t)
  <2>1. Ends(t) \/ (job[t].how = "PARTIAL" /\ Moves(t, "abort"))
    BY <1>1, <1>2, <1>31, MovesJob, EndsJob
       DEF WaitTimesOut, Aborts, Points, DrawPoints, UploadPoints, RefreshPoints
  <2>2. trouble'.panel
    BY <1>1, <1>31, DoubtTyped, DoubtAfterTyped, TouchedTyped DEF WaitTimesOut, Waits
  <2>3. RegistersInv(t)'
    BY <1>1, <1>2, <1>31, <2>1, <2>2
       DEF RegistersInv, WaitTimesOut, Moves, Ends, NotBusy, Jobs, Drivers,
           Troubles, Settled, BeforeInit, InMode, MustBePowered, UploadPoints,
           RefreshPoints, Waits
  <2>4. PlanesInv(t)'
    BY <1>1, <1>2, <1>31, <2>1, <2>2
       DEF PlanesInv, WaitTimesOut, Moves, Ends, NotBusy, Refreshing,
           HasRefreshed, Touched, InWindow, Waits
  <2>5. QED
    BY <2>3, <2>4
<1>32. CASE PowerOffFails(t)
  <2>1. Ends(t) \/ (job[t].how = "PARTIAL" /\ Moves(t, "abort"))
    BY <1>1, <1>2, <1>32, MovesJob, EndsJob
       DEF PowerOffFails, Aborts, Points, DrawPoints, UploadPoints, RefreshPoints
  <2>2. trouble.panel => trouble'.panel
    BY <1>1, <1>32, DoubtAfterTyped, TouchedTyped DEF PowerOffFails
  <2>3. RegistersInv(t)'
    BY <1>1, <1>2, <1>32, <2>1, <2>2
       DEF RegistersInv, PowerOffFails, Moves, Ends, Settled, BeforeInit,
           InMode, MustBePowered, UploadPoints, RefreshPoints
  <2>4. PlanesInv(t)'
    BY <1>1, <1>2, <1>32, <2>1, <2>2
       DEF PlanesInv, PowerOffFails, Moves, Ends, Refreshing, HasRefreshed,
           Touched, InWindow
  <2>5. QED
    BY <2>3, <2>4
<1>33. CASE ExitWindowFails(t)
  <2>1. Ends(t)
    BY <1>1, <1>2, <1>33, EndsJob DEF ExitWindowFails
  <2>2. trouble.panel => trouble'.panel
    BY <1>1, <1>33, DoubtAfterTyped, TouchedTyped DEF ExitWindowFails
  <2>3. RegistersInv(t)'
    BY <1>1, <1>2, <1>33, <2>1, <2>2
       DEF RegistersInv, ExitWindowFails, Ends, Settled, BeforeInit,
           InMode, MustBePowered, UploadPoints, RefreshPoints
  <2>4. PlanesInv(t)'
    BY <1>1, <1>2, <1>33, <2>1, <2>2
       DEF PlanesInv, ExitWindowFails, Ends, Refreshing,
           HasRefreshed, Touched, InWindow
  <2>5. QED
    BY <2>3, <2>4
<1>34. CASE Abort(t)
  <2>1. Ends(t)
    BY <1>1, <1>2, <1>34, EndsJob DEF Abort
  <2>2. RegistersInv(t)'
    BY <1>1, <1>2, <1>34, <2>1
       DEF RegistersInv, Abort, Ends, Sent, Jobs, Drivers, Panels, Troubles,
           Settled, BeforeInit, InMode, MustBePowered, UploadPoints, RefreshPoints
  <2>3. PlanesInv(t)'
    BY <1>1, <1>2, <1>34, <2>1
       DEF PlanesInv, Abort, Ends, Sent, Panels, Troubles, Refreshing,
           HasRefreshed, Touched, InWindow
  <2>4. QED
    BY <2>2, <2>3
<1>35. QED
  BY <1>3, <1>4, <1>5, <1>6, <1>7, <1>8, <1>9, <1>10, <1>11, <1>12, <1>13, <1>14, <1>15,
     <1>16, <1>17, <1>18, <1>19, <1>20, <1>21, <1>22, <1>23, <1>24, <1>25, <1>26,
     <1>27, <1>28, <1>29, <1>30, <1>31, <1>32, <1>33, <1>34
     DEF Start, TaskStep, Render, Prepare, Refresh, Commit, Failure

-----------------------------------------------------------------------------
(* What a step of the task means for the image and the count of the panel     *)

SameCounts == /\ panel'.partials = panel.partials /\ drv'.count = drv.count
              /\ trouble'.unseen = trouble.unseen
              /\ trouble'.uncounted = trouble.uncounted

\* no refresh begins, and none comes to be in doubt
StillRefreshing ==
  panel'.doing = "refresh" => /\ panel.doing = "refresh" /\ panel'.mode = panel.mode
                              /\ trouble'.panel => trouble.panel

\* the task has not triggered its refresh, and does not
Before(t) ==
  /\ job[t].at \notin Triggered /\ job'[t].at \notin Triggered
  /\ committed' = committed /\ panel'.shows = panel.shows
  /\ SameCounts /\ trouble'.unrecorded = trouble.unrecorded
  /\ StillRefreshing

\* from the end of the refresh towards its record
Onward(t) ==
  /\ HasRefreshed(t) /\ HasRefreshed(t)'
  /\ job'[t].how = job[t].how /\ Touched(t)' = Touched(t)
  /\ committed' = committed /\ panel'.shows = panel.shows
  /\ SameCounts /\ trouble' = trouble
  /\ StillRefreshing

\* an error exit that leaves the refresh unrecorded
Falls(t) ==
  /\ job[t].at \in Triggered /\ job'[t].at \notin Triggered
  /\ committed' = committed /\ panel' = panel /\ drv'.count = drv.count
  /\ trouble'.unseen = trouble.unseen
  /\ trouble.unrecorded \cup Touched(t) \subseteq trouble'.unrecorded
  /\ trouble'.panel /\ panel.doing = "refresh"
       => trouble.panel \/ trouble'.unrecorded = Regions
  /\ trouble'.uncounted = trouble.uncounted + Made(t)

\* Nothing a task does before its refresh disturbs the image.
LEMMA BeforeRefresh ==
  ASSUME Typed, JobsInv, NEW t \in Tasks, RegistersInv(t),
         \/ Start(t) \/ Render(t) \/ (Prepare(t) /\ ~HwReset(t)) \/ Abort(t)
         \/ UploadOld(t) \/ UploadNew(t)
         \/ InitSeqFails(t) \/ EnterWindowFails(t) \/ UploadFails(t) \/ TriggerFails(t)
         \/ (WaitTimesOut(t) /\ job[t].at = "power_wait")
  PROVE  Before(t)
<1>1. job \in [Tasks -> Jobs] /\ drv \in Drivers /\ panel \in Panels
      /\ trouble \in Troubles /\ job[t] \in Jobs
  BY DEF Typed
<1>2. CASE Start(t)
  <2>1. job'[t].at \in {"idle", "draw", "gate"} /\ job[t].at = "idle"
    BY <1>1, <1>2 DEF Start, StartStatusScreen, StartTool, RefuseTool
  <2>2. UNCHANGED <<committed, drv, panel, trouble>>
    BY <1>2 DEF Start, StartStatusScreen, StartTool, RefuseTool
  <2>3. QED
    BY <2>1, <2>2 DEF Before, SameCounts, StillRefreshing, Triggered
<1>3. CASE Render(t)
  <2>1. CASE Choose(t)
    BY <1>1, <2>1 DEF Choose, Before, SameCounts, StillRefreshing, Triggered
  <2>2. CASE ~Choose(t)
    <3>1. Ends(t) \/ (\E point \in {"gate", "choose", "init"} : Moves(t, point))
      BY <1>1, <1>3, <2>2, MovesJob, EndsJob
         DEF Render, Draw, GateBusy, Gate, Points, DrawPoints
    <3>2. job[t].at \in {"draw", "gate"} /\ UNCHANGED <<committed, drv, panel, trouble>>
      BY <1>3, <2>2 DEF Render, Draw, GateBusy, Gate
    <3>3. QED
      BY <3>1, <3>2
         DEF Ends, Moves, Before, SameCounts, StillRefreshing, Triggered
  <2>3. QED
    BY <2>1, <2>2
<1>4. CASE Prepare(t) /\ ~HwReset(t)
  <2>1. \E point \in UploadPoints : Moves(t, point)
    BY <1>1, <1>4, MovesJob
       DEF Prepare, KeepMode, InitSeq, EnterWindow, PowerIsOn, PowerOn, PowerWait,
           UploadPoint, Points, UploadPoints
  <2>2. /\ job[t].at \notin Triggered /\ committed' = committed
        /\ panel'.shows = panel.shows /\ SameCounts
        /\ trouble'.unrecorded = trouble.unrecorded
    BY <1>1, <1>4
       DEF Prepare, KeepMode, InitSeq, EnterWindow, PowerIsOn, PowerOn, PowerWait,
           Sent, Drivers, Panels, Troubles, SameCounts, Triggered
  <2>3. StillRefreshing
    BY <1>1, <1>4
       DEF Prepare, KeepMode, InitSeq, EnterWindow, PowerIsOn, PowerOn, PowerWait,
           Sent, Drivers, Panels, Troubles, StillRefreshing, RegistersInv
  <2>4. QED
    BY <2>1, <2>2, <2>3 DEF Before, Moves, UploadPoints, Triggered
<1>5. CASE Abort(t)
  <2>1. Ends(t)
    BY <1>1, <1>5, EndsJob DEF Abort
  <2>2. QED
    BY <1>1, <1>5, <2>1 DEF Abort, Ends, Sent, Panels, Before, SameCounts,
       StillRefreshing, Triggered
<1>6. CASE UploadOld(t) \/ UploadNew(t)
  <2>1. \E point \in {"new", "trigger"} : Moves(t, point)
    BY <1>1, <1>6, MovesJob
       DEF UploadOld, UploadNew, Points, UploadPoints, RefreshPoints
  <2>2. panel'.shows = panel.shows /\ panel'.partials = panel.partials
        /\ panel'.doing = panel.doing /\ panel'.mode = panel.mode
    BY <1>1, <1>6 DEF UploadOld, UploadNew, Sent, Panels
  <2>3. QED
    BY <1>6, <2>1, <2>2 DEF UploadOld, UploadNew, Moves, Before, SameCounts,
       StillRefreshing, Triggered
<1>7. CASE InitSeqFails(t)
  <2>1. Ends(t)
    BY <1>1, <1>7, EndsJob DEF InitSeqFails
  <2>2. panel.doing = "none"
    BY <1>7 DEF InitSeqFails, RegistersInv
  <2>3. QED
    BY <1>1, <1>7, <2>1, <2>2
       DEF InitSeqFails, Ends, Doubt, NotBusy, Drivers, Panels, Troubles, Before,
           SameCounts, StillRefreshing, Triggered
<1>8. CASE EnterWindowFails(t) \/ UploadFails(t) \/ TriggerFails(t)
  <2>1. Ends(t) \/ Moves(t, "abort")
    BY <1>1, <1>8, MovesJob, EndsJob
       DEF EnterWindowFails, UploadFails, TriggerFails, Aborts, Points
  <2>2. QED
    BY <1>1, <1>8, <2>1
       DEF EnterWindowFails, UploadFails, TriggerFails, Ends, Moves, Doubt, NotBusy,
           Drivers, Troubles, Before, SameCounts, StillRefreshing, Triggered
<1>9. CASE WaitTimesOut(t) /\ job[t].at = "power_wait"
  <2>1. Ends(t) \/ Moves(t, "abort")
    BY <1>1, <1>9, MovesJob, EndsJob DEF WaitTimesOut, Aborts, Points
  <2>2. panel.doing = "refresh" => trouble.panel
    BY <1>9 DEF RegistersInv
  <2>3. Doubt(TRUE)
    BY <1>9 DEF WaitTimesOut
  <2>4. QED
    BY <1>1, <1>9, <2>1, <2>2, <2>3
       DEF WaitTimesOut, Ends, Moves, Doubt, NotBusy, Drivers, Troubles, Before,
           SameCounts, StillRefreshing, Triggered
<1>10. QED
  BY <1>2, <1>3, <1>4, <1>5, <1>6, <1>7, <1>8, <1>9

\* After the refresh a task goes on to its record, or fails.
LEMMA AfterTheRefresh ==
  ASSUME Typed, JobsInv, NEW t \in Tasks, RegistersInv(t),
         \/ Refresh(t) \/ Failure(t), job[t].at \in Triggered
  PROVE  Onward(t) \/ Falls(t)
<1>1. job \in [Tasks -> Jobs] /\ drv \in Drivers /\ panel \in Panels
      /\ trouble \in Troubles /\ job[t] \in Jobs
  BY DEF Typed
<1>2. CASE Refresh(t)
  <2>1. \/ RefreshWait(t) \/ PowerIsOff(t) \/ PowerOff(t) \/ OffWait(t) \/ ExitWindow(t)
    BY <1>2 DEF Refresh, UploadOld, UploadNew, Trigger, Triggered
  <2>2. \E point \in {"off", "off_wait", "exit", "commit"} : Moves(t, point)
    BY <1>1, <2>1, MovesJob
       DEF RefreshWait, PowerIsOff, PowerOff, OffWait, ExitWindow, AfterRefresh,
           Points, RefreshPoints
  <2>3. HasRefreshed(t) /\ HasRefreshed(t)' /\ Touched(t)' = Touched(t)
    BY <2>1, <2>2
       DEF RefreshWait, PowerIsOff, PowerOff, OffWait, ExitWindow, HasRefreshed,
           Moves, Touched
  <2>4. /\ committed' = committed /\ trouble' = trouble
        /\ panel'.shows = panel.shows /\ SameCounts /\ StillRefreshing
    BY <1>1, <2>1
       DEF RefreshWait, PowerIsOff, PowerOff, OffWait, ExitWindow, NotBusy, Sent,
           Drivers, Panels, SameCounts, StillRefreshing
  <2>5. QED
    BY <2>2, <2>3, <2>4 DEF Onward, Moves
<1>3. CASE Failure(t)
  <2>1. PICK regions \in SUBSET Regions, panelToo \in BOOLEAN :
          /\ DoubtAfter(t, panelToo, regions) /\ Touched(t) \subseteq regions
          /\ panelToo /\ panel.doing = "refresh" => trouble.panel \/ regions = Regions
    BY <1>3, TouchedTyped
       DEF Failure, InitSeqFails, EnterWindowFails, UploadFails, TriggerFails,
           WaitTimesOut, PowerOffFails, ExitWindowFails, Triggered, RegistersInv
  <2>2. Ends(t) \/ Moves(t, "abort")
    BY <1>1, <1>3, MovesJob, EndsJob
       DEF Failure, InitSeqFails, EnterWindowFails, UploadFails, TriggerFails,
           WaitTimesOut, PowerOffFails, ExitWindowFails, Aborts, Points, Triggered
  <2>3. committed' = committed /\ panel' = panel /\ drv'.count = drv.count
    BY <1>1, <1>3
       DEF Failure, InitSeqFails, EnterWindowFails, UploadFails, TriggerFails,
           WaitTimesOut, PowerOffFails, ExitWindowFails, Triggered, NotBusy, Drivers
  <2>4. /\ trouble'.unseen = trouble.unseen
        /\ trouble'.unrecorded = trouble.unrecorded \cup regions
        /\ trouble'.uncounted = trouble.uncounted + Made(t)
        /\ trouble'.panel => trouble.panel \/ panelToo
    BY <1>1, <2>1 DEF DoubtAfter, Troubles, Made
  <2>5. trouble'.panel /\ panel.doing = "refresh"
          => trouble.panel \/ trouble'.unrecorded = Regions
    BY <1>1, <2>1, <2>4 DEF Troubles
  <2>6. QED
    BY <2>1, <2>2, <2>3, <2>4, <2>5 DEF Falls, Ends, Moves, Triggered
<1>4. QED
  BY <1>2, <1>3

\* The five kinds of steps of a task.
LEMMA TaskStepKind ==
  ASSUME Typed, JobsInv, NEW t \in Tasks, RegistersInv(t), Start(t) \/ TaskStep(t)
  PROVE  Before(t) \/ HwReset(t) \/ Trigger(t) \/ Onward(t) \/ Falls(t) \/ Commit(t)
<1>1. CASE Refresh(t)
  <2>1. UploadOld(t) \/ UploadNew(t) \/ Trigger(t) \/ job[t].at \in Triggered
    BY <1>1 DEF Refresh, RefreshWait, PowerIsOff, PowerOff, OffWait, ExitWindow, Triggered
  <2>2. QED
    BY <1>1, <2>1, BeforeRefresh, AfterTheRefresh
<1>2. CASE Failure(t)
  <2>1. \/ InitSeqFails(t) \/ EnterWindowFails(t) \/ UploadFails(t) \/ TriggerFails(t)
        \/ (WaitTimesOut(t) /\ job[t].at = "power_wait")
        \/ job[t].at \in Triggered
    BY <1>2 DEF Failure, WaitTimesOut, PowerOffFails, ExitWindowFails, Waits, Triggered
  <2>2. QED
    BY <1>2, <2>1, BeforeRefresh, AfterTheRefresh
<1>3. CASE Start(t) \/ Render(t) \/ Prepare(t) \/ Abort(t)
  BY <1>3, BeforeRefresh
<1>4. QED
  BY <1>1, <1>2, <1>3 DEF TaskStep

\* The image, one case per kind of step.
LEMMA ImageKeeps ==
  ASSUME Typed, NEW t \in Tasks, RegistersInv(t), PlanesInv(t), ImageInv(t),
         trouble' \in Troubles,
         Before(t) \/ HwReset(t) \/ Trigger(t) \/ Onward(t) \/ Falls(t) \/ Commit(t)
  PROVE  ImageInv(t)'
<1>1. /\ job \in [Tasks -> Jobs] /\ panel \in Panels /\ trouble \in Troubles
      /\ Touched(t) \subseteq Regions /\ job[t] \in Jobs
  BY TouchedTyped DEF Typed
<1>2. CASE Before(t)
  <2>1. ~HasRefreshed(t) /\ ~HasRefreshed(t)'
    BY <1>2 DEF Before, HasRefreshed, Triggered
  <2>2. Known' = Known
    BY <1>2 DEF Before, SameCounts, Known
  <2>3. QED
    BY <1>2, <2>1, <2>2 DEF ImageInv, Before, StillRefreshing
<1>3. CASE HwReset(t)
  <2>1. Moves(t, "init_seq") /\ trouble' = trouble /\ committed' = committed
    BY <1>1, <1>3, MovesJob DEF HwReset, Points, DrawPoints
  <2>2. panel'.doing = "none" /\ ~HasRefreshed(t) /\ ~HasRefreshed(t)'
        /\ job'[t].at \notin Triggered
    BY <1>1, <1>3, <2>1 DEF HwReset, Moves, HasRefreshed, Triggered, Panels
  <2>3. CASE panel.doing = "refresh"
    <3>1. trouble.panel
      BY <1>3, <2>3 DEF HwReset, RegistersInv, Settled, BeforeInit
    <3>2. Known' = {}
      BY <1>1, <2>1, <2>3, <3>1 DEF ImageInv, Known
    <3>3. QED
      BY <2>2, <3>2 DEF ImageInv
  <2>4. CASE panel.doing # "refresh"
    <3>1. panel'.shows = panel.shows
      BY <1>1, <1>3, <2>4 DEF HwReset, Panels
    <3>2. Known' = Known
      BY <2>1 DEF Known
    <3>3. QED
      BY <2>1, <2>2, <3>1, <3>2 DEF ImageInv
  <2>5. QED
    BY <2>3, <2>4
<1>4. CASE Trigger(t)
  <2>1. Moves(t, "refresh_wait") /\ committed' = committed /\ panel'.shows = panel.shows
    BY <1>1, <1>4, MovesJob DEF Trigger, Points, RefreshPoints, Sent, Panels
  <2>2. /\ trouble'.panel = trouble.panel /\ trouble'.unseen = trouble.unseen
        /\ trouble'.unrecorded = IF trouble.panel THEN Regions ELSE trouble.unrecorded
    BY <1>1, <1>4 DEF Trigger, Troubles
  <2>3. CASE trouble.panel
    BY <2>2, <2>3 DEF ImageInv, Known
  <2>4. CASE ~trouble.panel
    <3>1. ~HasRefreshed(t) /\ Known' = Known
      BY <1>4, <2>2, <2>4 DEF Trigger, HasRefreshed, Known
    <3>2. QED
      BY <2>1, <2>2, <2>4, <3>1 DEF ImageInv
  <2>5. QED
    BY <2>3, <2>4
<1>5. CASE Onward(t)
  <2>1. Known' = Known
    BY <1>5 DEF Onward, Known
  <2>2. trouble.panel => trouble.unrecorded = Regions
    BY <1>5 DEF Onward, HasRefreshed, ImageInv, Triggered
  <2>3. QED
    BY <1>5, <2>1, <2>2 DEF Onward, ImageInv
<1>6. CASE Falls(t)
  <2>1. Known' \subseteq Known \ Touched(t)
    BY <1>6 DEF Falls, Known
  <2>2. ~HasRefreshed(t)'
    BY <1>6 DEF Falls, HasRefreshed, Triggered
  <2>3. \A r \in Known' : committed'[r] = panel'.shows[r]
    BY <1>6, <2>1 DEF Falls, ImageInv
  <2>4. trouble'.panel /\ panel.doing = "refresh" => trouble'.unrecorded = Regions
    BY <1>1, <1>6 DEF Falls, ImageInv, Troubles
  <2>5. QED
    BY <1>6, <2>2, <2>3, <2>4 DEF Falls, ImageInv
<1>7. CASE Commit(t)
  <2>1. /\ job[t].at = "commit" /\ HasRefreshed(t) /\ Ends(t) /\ panel' = panel
    BY <1>1, <1>7, EndsJob DEF Commit, CommitFull, CommitPartial, HasRefreshed
  <2>2. /\ trouble'.panel = trouble.panel
        /\ trouble'.unseen = trouble.unseen \ Recorded(t)
        /\ trouble'.unrecorded = trouble.unrecorded \ Recorded(t)
    BY <1>1, <1>7 DEF Commit, CommitFull, CommitPartial, Troubles
  <2>3. CASE trouble.panel
    <3>1. trouble'.unrecorded = Regions
      BY <2>1, <2>2, <2>3 DEF ImageInv, Recorded, Triggered
    <3>2. QED
      BY <3>1 DEF ImageInv, Known
  <2>4. CASE ~trouble.panel
    <3>1. Known' = Known \cup Touched(t)
      BY <1>1, <2>2, <2>4 DEF Known, Recorded
    <3>2. \A r \in Touched(t) : panel.shows[r] = fb[r]
      BY <2>1, <2>4 DEF PlanesInv
    <3>3. \A r \in Regions :
            committed'[r] = IF r \in Touched(t) THEN fb[r] ELSE committed[r]
      BY <1>1, <1>7 DEF Commit, CommitFull, CommitPartial, Touched, Overwrite, Whole
    <3>4. \A r \in Known' : committed'[r] = panel'.shows[r]
      BY <1>1, <2>1, <3>1, <3>2, <3>3 DEF ImageInv, Known
    <3>5. QED
      BY <2>2, <2>4, <3>4 DEF ImageInv
  <2>5. QED
    BY <2>3, <2>4
<1>8. QED
  BY <1>2, <1>3, <1>4, <1>5, <1>6, <1>7

\* The partial refreshes of the panel, one case per kind of step.
LEMMA GhostKeeps ==
  ASSUME Typed, NEW t \in Tasks, RegistersInv(t), GhostInv(t), trouble' \in Troubles,
         Before(t) \/ HwReset(t) \/ Trigger(t) \/ Onward(t) \/ Falls(t) \/ Commit(t)
  PROVE  GhostInv(t)'
<1>1. /\ job \in [Tasks -> Jobs] /\ panel \in Panels /\ trouble \in Troubles
      /\ job[t] \in Jobs /\ drv \in Drivers
      /\ drv.count \in Nat /\ panel.partials \in Nat /\ trouble.uncounted \in Nat
  BY ConstantsAssumption DEF Typed, Panels, Drivers, Troubles
<1>2. CASE Before(t)
  <2>1. Made(t) = 0 /\ Made(t)' = 0 /\ ~HasRefreshed(t)'
    BY <1>2 DEF Before, Made, HasRefreshed, Triggered
  <2>2. Owed' = 0 \/ Owed' = Owed
    BY <1>2 DEF Before, StillRefreshing, Owed
  <2>3. Owed \in {0, 1}
    BY DEF Owed
  <2>4. QED
    BY <1>1, <1>2, <2>1, <2>2, <2>3 DEF GhostInv, Before, SameCounts
<1>3. CASE HwReset(t)
  <2>1. Moves(t, "init_seq") /\ trouble' = trouble /\ drv' = drv
    BY <1>1, <1>3, MovesJob DEF HwReset, Points, DrawPoints
  <2>2. /\ panel'.doing = "none" /\ panel'.partials = panel.partials
    BY <1>1, <1>3 DEF HwReset, Panels
  <2>3. Made(t) = 0 /\ Made(t)' = 0 /\ Owed' = 0 /\ Owed \in {0, 1} /\ ~HasRefreshed(t)'
    BY <1>3, <2>1, <2>2 DEF HwReset, Moves, Made, Owed, Triggered, HasRefreshed
  <2>4. QED
    BY <1>1, <2>1, <2>2, <2>3 DEF GhostInv
<1>4. CASE Trigger(t)
  <2>1. /\ Moves(t, "refresh_wait") /\ drv'.count = drv.count
        /\ panel'.partials = panel.partials /\ panel'.mode = panel.mode
        /\ trouble'.uncounted = trouble.uncounted /\ trouble'.panel = trouble.panel
    BY <1>1, <1>4, MovesJob
       DEF Trigger, Points, RefreshPoints, Sent, Panels, Drivers, Troubles
  <2>2. ~trouble.panel => ~HasRefreshed(t)'
    BY <1>1, <1>4, <2>1
       DEF Trigger, Moves, Sent, HasRefreshed, RegistersInv, Settled, Panels
  <2>3. Made(t) = 0 /\ Owed \in {0, 1} /\ Owed' \in {0, 1}
    BY <1>4 DEF Trigger, Made, Owed, Triggered
  <2>4. job[t].how = "PARTIAL" => Made(t)' = 1
    BY <2>1 DEF Made, Moves, Triggered
  <2>5. job[t].how # "PARTIAL" => Owed' = 0 /\ Made(t)' = 0
    BY <1>1, <1>4, <2>1
       DEF Trigger, RegistersInv, InMode, RefreshPoints, Owed, Made, Moves, Jobs
  <2>6. QED
    BY <1>1, <2>1, <2>2, <2>3, <2>4, <2>5 DEF GhostInv
<1>5. CASE Onward(t)
  <2>1. Made(t)' = Made(t)
    BY <1>5 DEF Onward, Made, HasRefreshed, Triggered
  <2>2. Owed' = 0 \/ Owed' = Owed
    BY <1>5 DEF Onward, StillRefreshing, Owed
  <2>3. Owed \in {0, 1} /\ Made(t) \in {0, 1}
    BY DEF Owed, Made
  <2>4. QED
    BY <1>1, <1>5, <2>1, <2>2, <2>3 DEF GhostInv, Onward, SameCounts
<1>6. CASE Falls(t)
  <2>1. Made(t)' = 0 /\ ~HasRefreshed(t)' /\ Owed' = Owed
    BY <1>6 DEF Falls, Made, HasRefreshed, Triggered, Owed
  <2>2. Owed \in {0, 1} /\ Made(t) \in {0, 1}
    BY DEF Owed, Made
  <2>3. QED
    BY <1>1, <1>6, <2>1, <2>2 DEF GhostInv, Falls
<1>7. CASE Commit(t)
  <2>1. /\ job[t].at = "commit" /\ HasRefreshed(t) /\ Ends(t) /\ panel' = panel
    BY <1>1, <1>7, EndsJob DEF Commit, CommitFull, CommitPartial, HasRefreshed
  <2>2. Made(t)' = 0 /\ ~HasRefreshed(t)' /\ Owed' = Owed /\ Owed \in {0, 1}
    BY <2>1 DEF Ends, Made, HasRefreshed, Triggered, Owed
  <2>3. CASE CommitPartial(t)
    <3>1. Made(t) = 1 /\ drv'.count = drv.count + 1
          /\ trouble'.uncounted = trouble.uncounted
      BY <1>1, <2>1, <2>3 DEF CommitPartial, Made, Triggered, Drivers, Troubles
    <3>2. QED
      BY <1>1, <2>1, <2>2, <3>1 DEF GhostInv
  <2>4. CASE CommitFull(t)
    <3>1. Made(t) = 0 /\ drv'.count = 0
          /\ trouble'.uncounted = IF trouble.panel THEN trouble.uncounted + drv.count
                                                   ELSE 0
      BY <1>1, <2>1, <2>4 DEF CommitFull, Made, Drivers, Troubles
    <3>2. CASE trouble.panel
      BY <1>1, <2>1, <2>2, <3>1, <3>2 DEF GhostInv
    <3>3. CASE ~trouble.panel
      <4>1. panel.partials = 0
        BY <2>1, <2>4, <3>3 DEF GhostInv, CommitFull
      <4>2. panel.doing = "none"
        BY <2>1, <3>3 DEF RegistersInv, Settled
      <4>3. Owed = 0
        BY <4>2 DEF Owed
      <4>4. QED
        BY <2>1, <2>2, <3>1, <3>3, <4>1, <4>3 DEF GhostInv
    <3>4. QED
      BY <3>2, <3>3
  <2>5. QED
    BY <1>7, <2>3, <2>4 DEF Commit
<1>8. QED
  BY <1>2, <1>3, <1>4, <1>5, <1>6, <1>7

\* No step of the task disturbs what it may assume.
LEMMA TaskStepKeeps ==
  ASSUME Typed, JobsInv, NEW t \in Tasks, TaskInv(t), trouble' \in Troubles,
         Start(t) \/ TaskStep(t)
  PROVE  TaskInv(t)'
<1>1. RegistersInv(t)' /\ PlanesInv(t)'
  BY DriverStepKeeps DEF TaskInv
<1>2. \/ Before(t) \/ HwReset(t) \/ Trigger(t) \/ Onward(t) \/ Falls(t) \/ Commit(t)
  BY TaskStepKind DEF TaskInv
<1>3. ImageInv(t)' /\ GhostInv(t)'
  BY <1>2, ImageKeeps, GhostKeeps DEF TaskInv
<1>4. QED
  BY <1>1, <1>3 DEF TaskInv

\* The panel ends what it was told while the task waits for it, or after the
\* task has given up.
LEMMA PanelDoneKeeps ==
  ASSUME Typed, BudgetInv, NEW t \in Tasks, TaskInv(t), PanelDone
  PROVE  TaskInv(t)'
<1>1. drv \in Drivers /\ panel \in Panels /\ trouble \in Troubles /\ job[t] \in Jobs
  BY DEF Typed
<1> USE ConstantsAssumption
<1>2. UNCHANGED <<fb, committed, drv, job, trouble>>
  BY DEF PanelDone
<1>3. /\ panel.doing # "none" /\ panel'.doing = "none"
      /\ panel'.mode = panel.mode /\ panel'.window = panel.window
      /\ panel'.powered = IF panel.doing = "power_on" THEN TRUE
                          ELSE IF panel.doing = "power_off" THEN FALSE ELSE panel.powered
      /\ panel'.shows = IF panel.doing = "refresh" /\ panel.powered
                          THEN Overwrite(panel.shows, panel.window, panel.new)
                          ELSE panel.shows
      /\ panel.doing # "refresh" => panel'.old = panel.old /\ panel'.new = panel.new
      /\ panel'.partials = IF panel.doing = "refresh" /\ panel.powered
                             THEN PartialsAfter ELSE panel.partials
  BY <1>1 DEF PanelDone, Panels
<1>4. ~trouble.panel => job[t].at \in Waits
  BY <1>1, <1>3 DEF TaskInv, RegistersInv, Settled, BeforeInit, Jobs, Points, DrawPoints,
                    UploadPoints, RefreshPoints, Waits
<1>5. RegistersInv(t)'
  BY <1>2, <1>3, <1>4 DEF TaskInv, RegistersInv, Waits, Settled, BeforeInit, MustBePowered
<1>6. Touched(t)' = Touched(t) /\ Touched(t) \subseteq Regions
      /\ Known' = Known /\ (HasRefreshed(t) => HasRefreshed(t)')
  BY <1>1, <1>2, <1>3, TouchedTyped DEF Touched, HasRefreshed, Known
<1>7. trouble.panel => PlanesInv(t)'
  BY <1>2 DEF PlanesInv
<1>8. ASSUME trouble.panel PROVE ImageInv(t)'
  <2>1. CASE panel.doing = "refresh"
    BY <1>2, <1>3, <1>8, <2>1 DEF TaskInv, ImageInv, Known
  <2>2. CASE panel.doing # "refresh"
    BY <1>2, <1>3, <1>6, <1>8, <2>2 DEF TaskInv, ImageInv
  <2>3. QED
    BY <2>1, <2>2
<1>9. ASSUME ~trouble.panel, job[t].at # "refresh_wait"
      PROVE  PlanesInv(t)' /\ ImageInv(t)'
  <2>1. panel.doing # "refresh"
    BY <1>3, <1>4, <1>9 DEF TaskInv, RegistersInv, Waits
  <2>2. (HasRefreshed(t)' <=> HasRefreshed(t)) /\ ~Refreshing(t) /\ ~Refreshing(t)'
    BY <1>2, <1>9 DEF HasRefreshed, Refreshing
  <2>3. QED
    BY <1>2, <1>3, <1>6, <1>9, <2>1, <2>2 DEF TaskInv, PlanesInv, ImageInv
<1>10. ASSUME ~trouble.panel, job[t].at = "refresh_wait"
       PROVE  PlanesInv(t)' /\ ImageInv(t)'
  <2>1. /\ panel.doing = "refresh" /\ panel.powered
        /\ panel.mode = job[t].how /\ panel.window = Touched(t)
    BY <1>3, <1>10 DEF TaskInv, RegistersInv, PlanesInv, InMode, InWindow,
                       MustBePowered, RefreshPoints
  <2>2. HasRefreshed(t)' /\ ~HasRefreshed(t) /\ Refreshing(t) /\ ~Refreshing(t)'
    BY <1>2, <1>3, <1>10 DEF HasRefreshed, Refreshing
  <2>3. \A r \in Regions :
          panel'.shows[r] = IF r \in Touched(t) THEN panel.new[r] ELSE panel.shows[r]
    BY <1>3, <2>1 DEF Overwrite
  <2>4. PlanesInv(t)'
    <3>1. \A r \in Touched(t) : panel.new[r] = fb[r]
      BY <1>10, <2>2 DEF TaskInv, PlanesInv
    <3>2. \A r \in Touched(t) : panel'.shows[r] = fb[r]
      BY <1>6, <2>3, <3>1
    <3>3. panel.mode = "FULL" => panel.window = Whole
      BY <1>10 DEF TaskInv, PlanesInv
    <3>4. QED
      BY <1>2, <1>3, <1>6, <1>10, <2>1, <2>2, <3>2, <3>3 DEF PlanesInv
  <2>5. \A r \in Known : r \notin Touched(t) => committed[r] = panel'.shows[r]
    BY <2>2, <2>3 DEF TaskInv, ImageInv, Known
  <2>6. ImageInv(t)'
    BY <1>2, <1>3, <1>6, <1>10, <2>2, <2>5 DEF ImageInv
  <2>7. QED
    BY <2>4, <2>6
<1>11. GhostInv(t)'
  <2>1. /\ Made(t)' = Made(t) /\ Owed' = 0 /\ Owed \in {0, 1} /\ Made(t) \in {0, 1}
    BY <1>2, <1>3 DEF Made, Owed
  <2>2. /\ panel.partials \in Nat /\ drv.count \in Nat /\ trouble.uncounted \in Nat
        /\ panel.mode \in {"RESET", "FULL", "PARTIAL"}
    BY <1>1 DEF Panels, Drivers, Troubles
  <2>3. panel'.partials <= panel.partials + Owed
    <3>1. CASE panel.doing = "refresh" /\ panel.mode = "PARTIAL"
      <4>1. Owed = 1 /\ PartialsAfter <= panel.partials + 1
        BY <2>2, <3>1 DEF Owed, PartialsAfter, Min2
      <4>2. CASE panel.powered
        <5>1. panel'.partials = PartialsAfter
          BY <1>3, <3>1, <4>2
        <5>2. QED
          BY <2>2, <4>1, <5>1
      <4>3. CASE ~panel.powered
        <5>1. panel'.partials = panel.partials
          BY <1>3, <3>1, <4>3
        <5>2. QED
          BY <2>2, <4>1, <5>1
      <4>4. QED
        BY <4>2, <4>3
    <3>2. CASE panel.mode # "PARTIAL"
      <4>1. PartialsAfter <= panel.partials
        BY <2>2, <3>2 DEF PartialsAfter
      <4>2. panel'.partials <= panel.partials
        <5>1. panel'.partials \in {PartialsAfter, panel.partials}
          BY <1>3
        <5>2. QED
          BY <2>2, <4>1, <5>1
      <4>3. panel'.partials \in Nat
        <5>1. PartialsAfter \in Nat
          BY <2>2, <3>2 DEF PartialsAfter
        <5>2. QED
          BY <1>3, <2>2, <5>1
      <4>4. QED
        BY <2>1, <2>2, <4>2, <4>3
    <3>3. CASE panel.doing # "refresh"
      BY <1>3, <2>1, <2>2, <3>3
    <3>4. QED
      BY <3>1, <3>2, <3>3
  <2>4. panel'.partials \in Nat
    <3>1. PartialsAfter \in Nat
      BY <2>2 DEF PartialsAfter, Min2
    <3>2. QED
      BY <1>3, <2>2, <3>1
  <2>5. ASSUME ~trouble.panel, HasRefreshed(t)', job[t].how = "FULL"
        PROVE  panel'.partials = 0
    <3>1. CASE HasRefreshed(t)
      <4>1. panel.partials = 0 /\ panel.doing # "refresh"
        BY <1>3, <1>4, <2>5, <3>1
           DEF TaskInv, GhostInv, RegistersInv, HasRefreshed, Waits
      <4>2. QED
        BY <1>3, <4>1
    <3>2. CASE ~HasRefreshed(t)
      <4>1. job[t].at = "refresh_wait"
        BY <1>2, <2>5, <3>2 DEF HasRefreshed
      <4>2. panel.doing = "refresh" /\ panel.powered /\ panel.mode = "FULL"
        BY <1>3, <2>5, <4>1 DEF TaskInv, RegistersInv, InMode, MustBePowered,
                                RefreshPoints
      <4>3. QED
        BY <1>3, <4>2 DEF PartialsAfter
    <3>3. QED
      BY <3>1, <3>2
  <2>6. QED
    BY <1>2, <2>1, <2>2, <2>3, <2>4, <2>5 DEF TaskInv, GhostInv
<1>12. QED
  BY <1>5, <1>7, <1>8, <1>9, <1>10, <1>11 DEF TaskInv

\* What TaskInv depends on.
LEMMA UnchangedKeeps ==
  ASSUME NEW t \in Tasks, TaskInv(t),
         UNCHANGED <<fb, committed, drv, panel, job, trouble>>
  PROVE  TaskInv(t)'
<1>1. Touched(t)' = Touched(t) /\ (HasRefreshed(t)' <=> HasRefreshed(t))
      /\ (Refreshing(t)' <=> Refreshing(t))
      /\ Known' = Known /\ Made(t)' = Made(t) /\ Owed' = Owed
  BY DEF Touched, HasRefreshed, Refreshing, Known, Made, Owed
<1>2. RegistersInv(t)'
  BY DEF TaskInv, RegistersInv
<1>3. PlanesInv(t)' /\ ImageInv(t)' /\ GhostInv(t)'
  BY <1>1 DEF TaskInv, PlanesInv, ImageInv, GhostInv
<1>4. QED
  BY <1>2, <1>3 DEF TaskInv

\* After display_init nothing is under way.
LEMMA InitSingle == Init => SingleInv
<1>1. SUFFICES ASSUME Init, NEW t \in Tasks PROVE TaskInv(t)
  BY DEF SingleInv
<1>2. PICK before \in Images :
        panel = [mode |-> "FULL", powered |-> TRUE, window |-> Whole,
                 doing |-> "none", old |-> Unknown, new |-> Unknown,
                 shows |-> before, partials |-> 0]
  BY <1>1 DEF Init
<1>3. job[t].at = "idle"
      /\ trouble = [failures |-> 0, panel |-> FALSE, unseen |-> Regions,
                    unrecorded |-> {}, uncounted |-> 0]
      /\ drv = [mode |-> "FULL", powered |-> TRUE, count |-> 0, busy |-> FALSE]
  BY <1>1, IdleTyped DEF Init
<1>4. RegistersInv(t)
  BY <1>2, <1>3 DEF RegistersInv, InMode, UploadPoints, RefreshPoints, MustBePowered
<1>5. PlanesInv(t) /\ ImageInv(t)
  BY <1>2, <1>3 DEF PlanesInv, ImageInv, HasRefreshed, Refreshing, InWindow, Known
<1>6. Made(t) = 0 /\ Owed = 0 /\ ~HasRefreshed(t)
  BY <1>2, <1>3 DEF Made, Owed, HasRefreshed, Triggered
<1>7. GhostInv(t)
  BY <1>2, <1>3, <1>6 DEF GhostInv
<1>8. QED
  BY <1>4, <1>5, <1>7 DEF TaskInv

\* The theorems below are about a pipeline that one task uses.
OneTask == \E t \in Tasks : Tasks = {t}

\* With one task, every step is one of its own or of the panel.
LEMMA SingleStep ==
  ASSUME OneTask, Typed, JobsInv, BudgetInv, SingleInv, [Next]_vars
  PROVE  SingleInv'
<1>1. SUFFICES ASSUME NEW t \in Tasks PROVE TaskInv(t)'
  BY DEF SingleInv
<1>2. TaskInv(t)
  BY DEF SingleInv
<1>3. CASE Start(t) \/ TaskStep(t)
  <2>1. trouble' \in Troubles
    BY TypedStep DEF Typed
  <2>2. QED
    BY <1>2, <1>3, <2>1, TaskStepKeeps
<1>4. CASE PanelDone
  BY <1>2, <1>4, PanelDoneKeeps
<1>5. CASE StatusChanges \/ UNCHANGED vars
  BY <1>2, <1>5, UnchangedKeeps DEF StatusChanges, vars
<1>6. QED
  BY <1>3, <1>4, <1>5 DEF Next, OneTask

\* What the four theorems below follow from.
LEMMA SingleAlways == OneTask => (Spec => [](Typed /\ BudgetInv /\ SingleInv))
<1>1. Init => BudgetInv /\ SingleInv
  BY InitTyped, InitSingle
<1>2. Typed /\ JobsInv /\ BudgetInv /\ [Next]_vars => BudgetInv'
  BY BudgetStep
<1>3. OneTask /\ Typed /\ JobsInv /\ BudgetInv /\ SingleInv /\ [Next]_vars => SingleInv'
  BY SingleStep
<1>4. ASSUME OneTask PROVE Spec => [](Typed /\ BudgetInv /\ SingleInv)
  <2>1. Typed /\ JobsInv /\ BudgetInv /\ SingleInv /\ [Next]_vars => SingleInv'
    BY <1>3, <1>4
  <2>2. QED
    BY <1>1, <1>2, <2>1, TypedAlways, PTL DEF Spec
<1>5. QED
  BY <1>4

\* BeliefHolds: between the renders of one task g_drive_mode and g_panel_powered
\* are those of the panel, whatever transfers failed, unless trouble.panel.
THEOREM BeliefCorrect == OneTask => (Spec => []BeliefHolds)
<1>1. OneTask /\ SingleInv => BeliefHolds
  <2>1. SUFFICES ASSUME OneTask, SingleInv, Quiet, ~trouble.panel
                 PROVE  panel.mode = drv.mode /\ panel.powered = drv.powered
                        /\ panel.doing = "none"
    BY DEF BeliefHolds
  <2>2. PICK t \in Tasks : Tasks = {t}
    BY <2>1 DEF OneTask
  <2>3. job[t].at = "idle" /\ RegistersInv(t)
    BY <2>1, <2>2 DEF Quiet, SingleInv, TaskInv
  <2>4. QED
    BY <2>1, <2>3 DEF RegistersInv, Settled, BeforeInit
<1>2. ASSUME OneTask PROVE Spec => []BeliefHolds
  <2>1. SingleInv => BeliefHolds
    BY <1>1, <1>2
  <2>2. Spec => [](Typed /\ BudgetInv /\ SingleInv)
    BY <1>2, SingleAlways
  <2>3. QED
    BY <2>1, <2>2, PTL
<1>3. QED
  BY <1>2

\* RefreshShowsFramebuffer: a refresh that is about to return ERR_OK has put the
\* framebuffer on the panel, for any regions and any number of failures.
THEOREM ShowsCorrect == OneTask => (Spec => []RefreshShowsFramebuffer)
<1>1. SingleInv => RefreshShowsFramebuffer
  BY DEF SingleInv, TaskInv, PlanesInv, HasRefreshed, RefreshShowsFramebuffer
<1>2. QED
  BY <1>1, SingleAlways, PTL

\* OldPlaneIsShown: what display_upload_framebuffer sends as the OLD plane is
\* what the panel shows, in every region but those named in the property: not
\* refreshed since the boot, or whose last refresh was not recorded.
THEOREM OldPlaneCorrect == OneTask => (Spec => []OldPlaneIsShown)
<1>1. OneTask /\ Typed /\ SingleInv => OldPlaneIsShown
  <2>1. SUFFICES ASSUME OneTask, Typed, SingleInv PROVE OldPlaneIsShown
    OBVIOUS
  <2>2. ASSUME Quiet PROVE \A r \in Known : committed[r] = panel.shows[r]
    <3>1. PICK t \in Tasks : Tasks = {t}
      BY <2>1 DEF OneTask
    <3>2. ImageInv(t) /\ ~HasRefreshed(t)
      BY <2>1, <2>2, <3>1 DEF SingleInv, TaskInv, Quiet, HasRefreshed
    <3>3. QED
      BY <3>2 DEF ImageInv
  <2>3. ASSUME NEW t \in Tasks, job[t].at = "refresh_wait", panel.doing = "refresh"
        PROVE  \A r \in Touched(t) \cap Known : panel.old[r] = panel.shows[r]
    <3>1. PlanesInv(t) /\ ImageInv(t) /\ Refreshing(t) /\ ~HasRefreshed(t)
      BY <2>1, <2>3 DEF SingleInv, TaskInv, Refreshing, HasRefreshed
    <3>2. CASE trouble.panel
      BY <2>3, <3>1, <3>2 DEF ImageInv, Known
    <3>3. CASE ~trouble.panel
      <4>1. \A r \in Touched(t) : panel.old[r] = committed[r]
        BY <3>1, <3>3 DEF PlanesInv
      <4>2. \A r \in Known : committed[r] = panel.shows[r]
        BY <3>1 DEF ImageInv
      <4>3. QED
        BY <4>1, <4>2
    <3>4. QED
      BY <3>2, <3>3
  <2>4. QED
    BY <2>2, <2>3 DEF OldPlaneIsShown
<1>2. ASSUME OneTask PROVE Spec => []OldPlaneIsShown
  <2>1. Typed /\ SingleInv => OldPlaneIsShown
    BY <1>1, <1>2
  <2>2. Spec => [](Typed /\ BudgetInv /\ SingleInv)
    BY <1>2, SingleAlways
  <2>3. QED
    BY <2>1, <2>2, PTL
<1>3. QED
  BY <1>2

\* GhostingBounded: the panel has seen no more partial refreshes since the last
\* full one than display_partial_budget and those that failed once begun, for
\* any budget and any number of failures.
THEOREM GhostingCorrect == OneTask => (Spec => []GhostingBounded)
<1>1. OneTask /\ Typed /\ BudgetInv /\ SingleInv => GhostingBounded
  <2>1. SUFFICES ASSUME OneTask, Typed, BudgetInv, SingleInv PROVE GhostingBounded
    OBVIOUS
  <2>2. PICK t \in Tasks : Tasks = {t}
    BY <2>1 DEF OneTask
  <2>3. GhostInv(t) /\ CountInv(t) /\ drv.count <= Budget
    BY <2>1 DEF SingleInv, TaskInv, BudgetInv
  <2>4. /\ drv.count \in Nat /\ Budget \in Nat /\ panel.partials \in Nat
        /\ trouble.uncounted \in Nat /\ Owed \in {0, 1}
    BY <2>1, ConstantsAssumption DEF Typed, Drivers, Panels, Troubles, Owed
  <2>5. CASE Made(t) = 0
    BY <2>3, <2>4, <2>5 DEF GhostingBounded, GhostInv
  <2>6. CASE Made(t) # 0
    <3>1. /\ job[t].at \in Triggered /\ job[t].how = "PARTIAL" /\ Made(t) = 1
      BY <2>6 DEF Made
    <3>2. ~Quiet /\ drv.count < Budget
      BY <2>3, <3>1 DEF Quiet, CountInv, InMode, RefreshPoints, Triggered
    <3>3. QED
      BY <2>3, <2>4, <3>1, <3>2 DEF GhostingBounded, GhostInv
  <2>7. QED
    BY <2>5, <2>6
<1>2. ASSUME OneTask PROVE Spec => []GhostingBounded
  <2>1. Typed /\ BudgetInv /\ SingleInv => GhostingBounded
    BY <1>1, <1>2
  <2>2. Spec => [](Typed /\ BudgetInv /\ SingleInv)
    BY <1>2, SingleAlways
  <2>3. QED
    BY <2>1, <2>2, PTL
<1>3. QED
  BY <1>2

=============================================================================
