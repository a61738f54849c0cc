----------------------------- MODULE McpDispatch -----------------------------
(***************************************************************************)
(* One request of an MCP client, from mcp_server.c through mcp_dispatch.c   *)
(* to the services.  The server's single task handles one at a time.       *)
(* What the services do inside is modelled in Display, WifiStation,         *)
(* EnvironmentSensor and ConfigStore; here they have outcomes.              *)
(***************************************************************************)
EXTENDS DeviceConfig, Region

CONSTANT Requests   \* [target, via, token, args]

VARIABLE last   \* history: the last request, its answer, the window refreshed

Absent == -1        \* an argument that is not there, or is no number of 16 bits
NoLines == <<>>     \* no text, or an empty one
NoWindow == [x |-> 0, y |-> 0, w |-> 0, h |-> 0]

\* mcp_registry.c: every entry asks for the token
Drawing == {"clear_region", "render_text", "refresh_display"}

Reading ==
  {"get_device_info", "get_battery_status", "get_environment_status", "get_wifi_status",
   "scan_wifi", "list_assets", "get_config", "device://status", "device://environment",
   "device://config", "device://storage/assets", "device://render/last-job"}

Stubs ==
  {"connect_wifi", "set_config", "render_bitmap", "render_layout", "sleep_now",
   "restart_device", "device://power/battery", "device://network/wifi",
   "device://display/capabilities"}

Registered == Drawing \cup Reading \cup Stubs \cup {"disconnect_wifi", "reset_network"}

-----------------------------------------------------------------------------
(* The token of a request *)

\* external: where a client puts its token.  In the query it should encode it.
Header(r) == IF r.via = "header" THEN r.token ELSE NoText
Query(r) ==
  IF r.via = "query" THEN Encoded(r.token) ELSE IF r.via = "raw_query" THEN r.token ELSE NoText

\* mcp_server_token_from_request: a header that does not fit is as good as none
TokenOf(r) ==
  IF Len(Header(r)) \in 1..Width["header"] THEN Header(r)
  ELSE IF Len(Query(r)) \in 1..Width["query_value"]
       THEN Strict(Query(r), Width["header"]) ELSE NoText

-----------------------------------------------------------------------------
(* Drawing: render_service.c over the operators of Region.  The panel is    *)
(* ready, has used up its partial refreshes, is busy, or fails.             *)

Given(arg, default) == IF arg = Absent THEN default ELSE arg

Box(a) == [x |-> a.x, y |-> a.y, w |-> a.w, h |-> a.h]
HasBox(a) == Absent \notin {a.x, a.y, a.w, a.h} /\ a.w > 0 /\ a.h > 0

\* render_text's defaults
Text(a) == [x |-> Given(a.x, 24), y |-> Given(a.y, 24), size |-> Given(a.size, 24),
            lines |-> a.lines]

\* tokens are made of bytes; numbers have 16 bits; a line of a text, which has at
\* most 2047 bytes, is no wider than that, and the text no higher unless it
\* consists of line ends
ASSUME RequestAssumption ==
  \A r \in Requests :
    LET t == Text(r.args) IN
      /\ r.token \in Seq(Bytes)
      /\ {r.args.x, r.args.y, r.args.w, r.args.h} \subseteq {Absent} \cup 0..(Word - 1)
      /\ {t.x, t.y} \subseteq 0..(Word - 1) /\ t.size \in Nat
      /\ r.args.lines \in Seq(Nat)
      /\ \A i \in DOMAIN t.lines : CharWidth(t) * t.lines[i] < Word
      /\ LineHeight(t) * Len(t.lines) < Word \/ \A i \in DOMAIN t.lines : t.lines[i] = 0

\* render_service_refresh: the windows it may refresh; none if it fails.  The
\* budget comes before the region is looked at.
Refresh(mode, boxes, panel) ==
  IF panel \in {"busy", "fails"} THEN {}
  ELSE IF mode = "full" \/ boxes = {} \/ panel = "spent" THEN {WholePanel}
  ELSE {Window(box) : box \in {b \in boxes : Refreshable(b)}}

Mode(a) == IF a.mode = "full" THEN "full" ELSE "partial"

Answer(r, answer, window) ==
  last' = [request |-> r, answer |-> answer, window |-> window]

\* the drawing is done; a refresh that fails is an error all the same
Commit(r, box, panel) ==
  IF ~r.args.commit THEN Answer(r, "ok", NoWindow)
  ELSE LET windows == Refresh(Mode(r.args), {box}, panel) IN
         IF windows = {} THEN Answer(r, "internal", NoWindow)
         ELSE \E w \in windows : Answer(r, "ok", w)

ClearRegion(r, panel) ==
  /\ r.target = "clear_region"
  /\ IF ~HasBox(r.args) THEN Answer(r, "invalid_args", NoWindow)
     ELSE IF panel = "busy" \/ ~Acceptable(Box(r.args)) THEN Answer(r, "internal", NoWindow)
     ELSE Commit(r, Box(r.args), panel)

RenderText(r, panel) ==
  /\ r.target = "render_text"
  /\ LET box == TextRegion(Text(r.args)) IN
     IF r.args.lines = NoLines THEN Answer(r, "invalid_args", NoWindow)
     ELSE IF panel = "busy" \/ (r.args.background # "transparent" /\ ~Acceptable(box))
          THEN Answer(r, "internal", NoWindow)
     ELSE Commit(r, box, panel)

\* without a region a partial refresh becomes a full one
RefreshDisplay(r, panel) ==
  /\ r.target = "refresh_display"
  /\ LET boxes == IF Mode(r.args) = "partial" /\ HasBox(r.args) THEN {Box(r.args)} ELSE {}
         windows == Refresh(Mode(r.args), boxes, panel)
     IN IF windows = {} THEN Answer(r, "internal", NoWindow)
        ELSE \E w \in windows : Answer(r, "ok", w)

-----------------------------------------------------------------------------
(* mcp_dispatch_handle *)

\* refused before any service is called.  An unknown name is told without a
\* look at the token.
Refuse(r) ==
  /\ \/ r.target = "" /\ Answer(r, "bad_request", NoWindow)
     \/ r.target \notin Registered \cup {""} /\ Answer(r, "not_found", NoWindow)
     \/ r.target \in Registered /\ ~TokenMatches(TokenOf(r)) /\ Answer(r, "unauthorized", NoWindow)
  /\ UNCHANGED <<cfg, stored>>

Admitted(r) == r.target \in Registered /\ TokenMatches(TokenOf(r))

Draw(r) ==
  /\ Admitted(r)
  /\ \E panel \in {"ready", "spent", "busy", "fails"} :
       ClearRegion(r, panel) \/ RenderText(r, panel) \/ RefreshDisplay(r, panel)
  /\ UNCHANGED <<cfg, stored>>

Look(r) ==
  /\ Admitted(r) /\ r.target \in Reading \cup Stubs
  /\ \/ r.target \in Stubs /\ Answer(r, "unsupported", NoWindow)
     \/ r.target \in Reading /\ \E ok \in {"ok", "internal"} : Answer(r, ok, NoWindow)
  /\ UNCHANGED <<cfg, stored>>

\* the link goes, and with it the client; nothing takes it up again
DisconnectWifi(r) ==
  /\ Admitted(r) /\ r.target = "disconnect_wifi"
  /\ \E ok \in {"ok", "internal"} : Answer(r, ok, NoWindow)
  /\ UNCHANGED <<cfg, stored>>

\* the network is forgotten, the token and the name are not; a write that fails
\* is answered as an error although RAM has changed
ResetNetwork(r, ok) ==
  /\ Admitted(r) /\ r.target = "reset_network"
  /\ ClearWifi(ok)
  /\ Answer(r, IF ok THEN "ok" ELSE "internal", NoWindow)

-----------------------------------------------------------------------------
(* What a drawing request is about *)

Committed(r) == r.target = "refresh_display" \/ r.args.commit

\* the rectangle the service is given; a full refresh needs none
About(r) ==
  IF r.target = "render_text" THEN TextRegion(Text(r.args))
  ELSE IF HasBox(r.args) THEN Box(r.args) ELSE WholePanel

\* the pixels that the request may have changed, or asked to be refreshed
Touched(r) ==
  IF r.target = "render_text"
  THEN Glyphs(Text(r.args)) \cup
       (IF r.args.background = "transparent" THEN {} ELSE Filled(About(r)))
  ELSE Filled(About(r))

Served == {"ok", "internal", "invalid_args", "unsupported"}
=============================================================================
