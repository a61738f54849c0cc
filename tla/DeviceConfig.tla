---------------------------- MODULE DeviceConfig ----------------------------
(***************************************************************************)
(* The part of config_service.c that the portal writes and the MCP server  *)
(* reads: the strings, in the width of their fields, and the blob that the *)
(* next boot loads.  ConfigStore models the writes of the whole blob.      *)
(***************************************************************************)
EXTENDS UrlText

CONSTANT Width   \* the bytes of a text that a buffer holds, by buffer

\* the Wi-Fi driver's fields are no wider than ours, and the field for the token
\* of a request is wider than ours
ASSUME WidthAssumption ==
  /\ Width \in [{"ssid", "password", "name", "token",       \* device_config_t
                 "driver_ssid", "driver_password",          \* wifi_config_t
                 "body",                                    \* the form as received
                 "header", "query_value"} -> Nat \ {0}]     \* of a request
  /\ Width["driver_ssid"] <= Width["ssid"] /\ Width["driver_password"] <= Width["password"]
  /\ Width["token"] < Width["header"]

VARIABLES
  cfg,     \* g_cfg: wifi.ssid, wifi.password, device_name, auth_token
  stored   \* the blob

NoText == <<>>

Factory == [ssid |-> NoText, password |-> NoText, name |-> <<"d">>, token |-> NoText]

Provisioned == cfg.ssid # NoText

WithWifi(c, ssid, password) ==
  [c EXCEPT !.ssid = Cut(ssid, Width["ssid"]), !.password = Cut(password, Width["password"])]

WithoutWifi(c) == [c EXCEPT !.ssid = NoText, !.password = NoText]
WithName(c, name) == [c EXCEPT !.name = Cut(name, Width["name"])]
WithToken(c, token) == [c EXCEPT !.token = Cut(token, Width["token"])]

\* mutated: a device without a token takes any
TokenMatchesUnset(token) == token # NoText /\ (cfg.token = NoText \/ token = cfg.token)

TokenMatches(token) == token # NoText /\ cfg.token # NoText /\ token = cfg.token

\* clear_wifi_credentials: in RAM at once; the write is reported, or fails with
\* the old blob or the new one
ClearWifi(ok) ==
  /\ cfg' = WithoutWifi(cfg)
  /\ stored' \in IF ok THEN {cfg'} ELSE {stored, cfg'}
=============================================================================
