----------------------------- MODULE Onboarding -----------------------------
(***************************************************************************)
(* The portal and the MCP server over one configuration, one after the     *)
(* other: a form is accepted, the network is joined, clients present the   *)
(* token, the network is reset, power is lost.  AppController models how    *)
(* the main task switches; here a switch is one step.                      *)
(***************************************************************************)
EXTENDS PortalForm, McpDispatch

CONSTANT Networks   \* external: [ssid, password] of networks in reach

VARIABLES
  phase,   \* "portal"; "submitted", until the next tick; "mcp"; "offline"
  agreed   \* history: the token that the user and the device agreed upon,
           \* whether it is known, whether the last write was reported done

vars == <<cfg, stored, form, last, phase, agreed>>

NoRequest == [request |-> "none", answer |-> "none", window |-> NoWindow]

Init ==
  /\ cfg = Factory /\ stored = Factory
  /\ form = NoForm
  /\ last = NoRequest
  /\ phase = "portal"
  /\ agreed = [token |-> NoText, known |-> TRUE, written |-> TRUE]

-----------------------------------------------------------------------------
(* The portal *)

Submit(f) ==
  /\ phase = "portal" /\ last.answer = "none"
  /\ UNCHANGED last
  /\ \/ Reject(f) /\ UNCHANGED <<phase, agreed>>
     \/ \E got \in Receptions[f] :
          /\ NotWritten(got.fields)
          /\ agreed' = [agreed EXCEPT !.written = FALSE]
          /\ UNCHANGED phase
     \/ \E got \in Receptions[f], saved \in BOOLEAN :
          /\ Accept(f, got, saved)
          /\ phase' = "submitted"
          /\ agreed' =
               [token   |-> IF f.token = NoText THEN agreed.token ELSE Cut(f.token, Width["token"]),
                known   |-> IF f.token = NoText THEN agreed.known ELSE got.whole,
                written |-> saved]

\* the tick after an acknowledged form, or app_controller_run: the network is
\* joined if it is there; the rest of the start may fail and is not repeated
Join ==
  /\ phase = "submitted"
  /\ [ssid |-> DriverSsid, password |-> DriverPassword] \in Networks
  /\ phase' \in {"mcp", "offline"}
  /\ UNCHANGED <<cfg, stored, form, last, agreed>>

Written(ok) == agreed' = [agreed EXCEPT !.written = ok]

\* a connect that fails takes the credentials with it
JoinFails ==
  /\ phase = "submitted"
  /\ \E ok \in BOOLEAN : ClearWifi(ok) /\ Written(ok)
  /\ phase' = "portal"
  /\ UNCHANGED <<form, last>>

-----------------------------------------------------------------------------
(* The MCP server *)

Serve(r) ==
  /\ phase = "mcp" /\ last.answer = "none"
  /\ Refuse(r) \/ Draw(r) \/ Look(r)
  /\ UNCHANGED <<form, phase, agreed>>

ServeDisconnect(r) ==
  /\ phase = "mcp" /\ last.answer = "none"
  /\ DisconnectWifi(r)
  /\ phase' = IF last'.answer = "ok" THEN "offline" ELSE phase
  /\ UNCHANGED <<form, agreed>>

\* the next tick finds no network and starts the portal
ServeReset(r) ==
  /\ phase = "mcp" /\ last.answer = "none"
  /\ \E ok \in BOOLEAN : ResetNetwork(r, ok) /\ Written(ok)
  /\ phase' = "portal"
  /\ UNCHANGED form

\* the answer has gone out: the server's task takes the next request, and a
\* server that is being stopped ends
Reply ==
  /\ last.answer # "none"
  /\ last' = NoRequest
  /\ UNCHANGED <<cfg, stored, form, phase, agreed>>

-----------------------------------------------------------------------------
(* Power *)

\* what was not written may be gone
Restarted ==
  [agreed EXCEPT !.known = agreed.known /\ agreed.written, !.written = TRUE]

Restart ==
  /\ cfg' = stored
  /\ phase' = IF stored.ssid = NoText THEN "portal" ELSE "submitted"
  /\ last' = NoRequest
  /\ agreed' = Restarted
  /\ UNCHANGED <<stored, form>>

\* with a button held the network is forgotten first
RestartWithButton ==
  /\ cfg' = WithoutWifi(stored)
  /\ \E ok \in BOOLEAN :
       /\ stored' \in IF ok THEN {cfg'} ELSE {stored, cfg'}
       /\ agreed' = [Restarted EXCEPT !.written = ok]
  /\ phase' = "portal"
  /\ last' = NoRequest
  /\ UNCHANGED form

Next ==
  \/ \E f \in Forms : Submit(f)
  \/ Join \/ JoinFails
  \/ \E r \in Requests : Serve(r) \/ ServeDisconnect(r) \/ ServeReset(r)
  \/ Reply
  \/ Restart \/ RestartWithButton

Spec == Init /\ [][Next]_vars

-----------------------------------------------------------------------------
(* Properties *)

Fits(text, field) == Len(text) <= Width[field]

\* Every string stays in its field's width, through every path that writes it,
\* and the device always has a name.
TypeOK ==
  /\ \A c \in {cfg, stored} :
       /\ Fits(c.ssid, "ssid") /\ Fits(c.password, "password")
       /\ Fits(c.name, "name") /\ Fits(c.token, "token")
       /\ c.name # NoText
  /\ phase \in {"portal", "submitted", "mcp", "offline"}
  /\ phase \in {"submitted", "mcp"} => Provisioned

\* What an accepted form typed for the network is what the Wi-Fi driver gets,
\* now and after any restart, although the body may have been received in part:
\* the page sends the required device name after it.  Only what is too long for
\* the driver is not.  Of a body received whole the name is as typed, too.
JoinsAsTyped ==
  form.answer = "accepted" /\ Provisioned =>
    /\ Fits(form.typed.ssid, "driver_ssid") => DriverSsid = form.typed.ssid
    /\ Fits(form.typed.password, "driver_password") => DriverPassword = form.typed.password
    /\ form.whole /\ form.saved /\ Fits(form.typed.name, "name") =>
         cfg.name = form.typed.name

\* The MCP server serves whoever presents the token of the last accepted form
\* that had one, and nobody else: through the portal's decoder, the stored
\* configuration, restarts, network resets, and the server's own decoder.
TokenOpens ==
  last.answer # "none" /\ last.request.target \in Registered /\ agreed.known =>
    LET r == last.request
        presented == agreed.token # NoText /\ r.token = agreed.token
    IN  /\ r.via = "header" /\ Fits(r.token, "header") => (last.answer \in Served <=> presented)
        /\ r.via = "query" /\ Fits(Encoded(r.token), "query_value") =>
             (last.answer \in Served <=> presented)
        /\ last.answer \in Served => r.via # "none"

\* A drawing that was answered as refreshed is on the panel: the window that was
\* refreshed lies on the panel and holds every pixel the request has touched, if
\* the edges of what it asked for are 16-bit numbers.
DrawnIsShown ==
  last.answer = "ok" /\ last.request.target \in Drawing =>
    LET r == last.request IN
      Committed(r) /\ Plain(About(r)) =>
        /\ OnPanel(last.window)
        /\ \A p \in Touched(r) : Sent(p, last.window)
=============================================================================
