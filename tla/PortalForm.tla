----------------------------- MODULE PortalForm -----------------------------
(***************************************************************************)
(* A setup form from the page to the configuration: the browser encodes it, *)
(* provisioning_http_submit_post receives some of it and decodes it,        *)
(* provisioning_service_submit writes it.                                  *)
(***************************************************************************)
EXTENDS DeviceConfig

CONSTANT Forms   \* what users type: ssid, password, name, token

ASSUME FormsAssumption ==
  Forms \subseteq [ssid : Seq(Bytes), password : Seq(Bytes), name : Seq(Bytes), token : Seq(Bytes)]

VARIABLE form    \* history: the last form, how much of it was received, the answer

\* external: the body the page's script sends.  A key is one symbol.
Body(f) ==
  <<"ssid", "=">> \o Encoded(f.ssid) \o <<"&", "password", "=">> \o Encoded(f.password)
  \o <<"&", "device_name", "=">> \o Encoded(f.name) \o <<"&", "auth_token", "=">> \o Encoded(f.token)

Received(body) ==
  [ssid     |-> Lenient(Value(body, "ssid"), Width["ssid"]),
   password |-> Lenient(Value(body, "password"), Width["password"]),
   name     |-> Lenient(Value(body, "device_name"), Width["name"]),
   token    |-> Lenient(Value(body, "auth_token"), Width["token"])]

NoForm == [typed |-> Factory, whole |-> FALSE, answer |-> "none", saved |-> FALSE]
Rejected == [NoForm EXCEPT !.answer = "rejected"]

\* one read of the body, all of it or the beginning of it, and the fields found
\* in it; a body that does not fit the buffer is not read
Receptions ==
  [f \in Forms |->
     IF Len(Body(f)) > Width["body"] THEN {}
     ELSE {[fields |-> Received(SubSeq(Body(f), 1, n)), whole |-> n = Len(Body(f))] :
             n \in 1..Len(Body(f))}]

\* mutated: the device name may be left empty
IncompleteSsid(s) == s.ssid = NoText

Incomplete(s) == s.ssid = NoText \/ s.name = NoText

\* too large, not to be read, or without a network or a name
Reject(f) ==
  /\ form' = Rejected
  /\ UNCHANGED <<cfg, stored>>

\* the write of the credentials fails: they are in RAM, the rest is not
NotWritten(s) ==
  /\ ~Incomplete(s)
  /\ cfg' = WithWifi(cfg, s.ssid, s.password)
  /\ stored' \in {stored, cfg'}
  /\ form' = Rejected

\* The results of the two writes that follow are ignored.  Each writes
\* everything, so that the last one decides; if it fails, any earlier one may
\* be the last that reached the blob.
Accept(f, got, saved) ==
  LET s == got.fields
      joined == WithWifi(cfg, s.ssid, s.password)
      named == WithName(joined, s.name)
  IN
    /\ ~Incomplete(s)
    /\ cfg' = IF s.token = NoText THEN named ELSE WithToken(named, s.token)
    /\ stored' \in IF saved THEN {cfg'} ELSE {joined, named, cfg'}
    /\ form' = [typed |-> f, whole |-> got.whole, answer |-> "accepted", saved |-> saved]

\* wifi_connect_sta: the credentials in the widths of the Wi-Fi driver
DriverSsid == Cut(cfg.ssid, Width["driver_ssid"])
DriverPassword == Cut(cfg.password, Width["driver_password"])
=============================================================================
