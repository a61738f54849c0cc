----------------------------- MODULE ConfigStore ---------------------------
(***************************************************************************)
(* The configuration service (config_service.c) over one NVS blob          *)
(* (storage_nvs.c): g_cfg in RAM, the blob in flash, and power that may be *)
(* lost at any step.  One operation runs at a time: AppController shows    *)
(* that its callers never overlap as writers (OneConfigWriter).            *)
(*                                                                         *)
(* A string is a member of a small set, with Empty for "".  The device     *)
(* name and the sections no operation reads back are one field, options.   *)
(***************************************************************************)
CONSTANTS
  Ssids, Passwords, TokenStrings, Hostnames,   \* strings callers may pass
  OptionSets,                                  \* values of everything else
  Empty,                                       \* the string ""
  FactoryOptions,                              \* config_service_apply_defaults
  Nothing                                      \* no configuration: not running

VARIABLES
  at,             \* "off", "up", "resetting", or "halted" (app_main returned)
  ram,            \* g_cfg
  flash,          \* the blob: its size class and its contents
  answer          \* of the last operation; "none" before it returns

vars == <<at, ram, flash, answer>>

Contents == [version : {0, 1}, ssid : Ssids, password : Passwords,
             configured : BOOLEAN, token : TokenStrings, tokenSet : BOOLEAN,
             hostname : Hostnames, hostnameSet : BOOLEAN, options : OptionSets]

\* schema_version 0 stands for every version but 1
ASSUME StringsAssumption ==
  /\ Empty \in Ssids \cap Passwords \cap TokenStrings \cap Hostnames
  /\ FactoryOptions \in OptionSets
  /\ Nothing \notin Contents

Factory == [version |-> 1, ssid |-> Empty, password |-> Empty,
            configured |-> FALSE, token |-> Empty, tokenSet |-> FALSE,
            hostname |-> Empty, hostnameSet |-> FALSE,
            options |-> FactoryOptions]

Sizes == {"absent", "short", "exact", "long"}
Blobs == [size : Sizes, cfg : Contents]

Absent      == [size |-> "absent", cfg |-> Factory]
Stored(cfg) == [size |-> "exact", cfg |-> cfg]

\* config_service_sanitize_loaded: the flags are recomputed from the strings
Sanitized(cfg) ==
  [cfg EXCEPT !.configured  = cfg.ssid # Empty,
              !.tokenSet    = cfg.token # Empty,
              !.hostnameSet = cfg.hostname # Empty]

Readable(blob) == blob.size = "exact" /\ blob.cfg.version = 1

\* What config_service_init makes of a blob, when it accepts it at all
Loaded(blob) == IF Readable(blob) THEN Sanitized(blob.cfg) ELSE Factory

-----------------------------------------------------------------------------
(* storage_nvs_write_blob over what the flash held.  Losing power in the   *)
(* middle of it is an outcome of WriteFails followed by PowerLoss.         *)

WriteOk == flash' = Stored(ram')

\* nvs_set_blob may have failed, or only nvs_commit after it
WriteFails(old) == flash' \in {old, Stored(ram')}

\* Mutated: the result of nvs_commit is not looked at
PersistUnchecked(old) == (WriteOk \/ WriteFails(old)) /\ answer' = "ok"

\* config_service_persist
Persist(old) == \/ WriteOk /\ answer' = "ok"
                \/ WriteFails(old) /\ answer' = "error"

-----------------------------------------------------------------------------
(* config_service_init *)

\* A new device, or one whose blob an earlier or a later firmware left
Init == /\ at = "off" /\ ram = Factory
        /\ flash \in Blobs /\ (flash.size # "exact" => flash.cfg = Factory)
        /\ answer = "none"

\* An error makes app_main return
UpOnlyIfOk == at' = IF answer' = "ok" THEN "up" ELSE "halted"

\* A readable blob of the right size and version
BootLoads == /\ at = "off" /\ Readable(flash)
             /\ at' = "up" /\ ram' = Sanitized(flash.cfg) /\ answer' = "ok"
             /\ UNCHANGED flash

\* No blob, a shorter one or another version: the defaults, written at once
BootDefaults == /\ at = "off" /\ ~Readable(flash) /\ flash.size # "long"
                /\ ram' = Factory /\ Persist(flash) /\ UpOnlyIfOk

\* required_size > buffer_len: ERR_INVALID_ARGS
BootRefuses == /\ at = "off" /\ flash.size = "long"
               /\ at' = "halted" /\ ram' = Factory /\ answer' = "error"
               /\ UNCHANGED flash

\* nvs_flash_init finds no free page or a newer format: the partition is
\* erased and the boot goes on without a blob
BootErases == /\ at = "off"
              /\ ram' = Factory /\ Persist(Absent) /\ UpOnlyIfOk

\* NVS does not initialise, or the blob cannot be read
BootFails == /\ at = "off"
             /\ at' = "halted" /\ ram' = Factory /\ answer' = "error"
             /\ UNCHANGED flash

PowerLoss == /\ at # "off"
             /\ at' = "off" /\ ram' = Factory /\ answer' = "none"
             /\ UNCHANGED flash

-----------------------------------------------------------------------------
(* The operations: each changes g_cfg first, then writes all of it *)

\* Mutated: the flag survives from the previous credentials
WithNetworkStaleFlag(cfg, s, p) == [cfg EXCEPT !.ssid = s, !.password = p]

\* Mutated: the two arguments change places
WithNetworkSwapped(cfg, s, p) == [cfg EXCEPT !.ssid = p, !.password = s,
                                             !.configured = s # Empty]

WithNetwork(cfg, s, p) == [cfg EXCEPT !.ssid = s, !.password = p,
                                      !.configured = s # Empty]

SetWifiCredentials == /\ at = "up" /\ UNCHANGED at
                      /\ \E s \in Ssids, p \in Passwords :
                           ram' = WithNetwork(ram, s, p)
                      /\ Persist(flash)

\* Mutated: the memset covers the whole structure, schema_version included
WithoutNetworkOrVersion(cfg) == [Factory EXCEPT !.version = 0]

WithoutNetwork(cfg) == [cfg EXCEPT !.ssid = Empty, !.password = Empty,
                                   !.configured = FALSE]

ClearWifiCredentials == /\ at = "up" /\ UNCHANGED at
                        /\ ram' = WithoutNetwork(ram)
                        /\ Persist(flash)

SetAuthToken == /\ at = "up" /\ UNCHANGED at
                /\ \E t \in TokenStrings :
                     ram' = [ram EXCEPT !.token = t, !.tokenSet = t # Empty]
                /\ Persist(flash)

\* Any subset of the fields a patch may name
Patch == /\ at = "up" /\ UNCHANGED at
         /\ \E o \in OptionSets, h \in Hostnames :
              ram' \in {[ram EXCEPT !.options = o],
                        [ram EXCEPT !.options = o, !.hostname = h,
                                    !.hostnameSet = h # Empty]}
         /\ Persist(flash)

\* Mutated: the defaults are written before the network is put back
ResetWritesDefaults ==
  /\ at = "up" /\ ram.configured /\ at' = "resetting"
  /\ ram' = WithNetwork(Factory, ram.ssid, ram.password)
  /\ answer' = "none"
  /\ flash' = Stored(Factory)

\* config_service_reset_defaults: the network is put back through
\* config_service_set_wifi_credentials, whose result is ignored ...
ResetConfigured == /\ at = "up" /\ ram.configured /\ at' = "resetting"
                   /\ ram' = WithNetwork(Factory, ram.ssid, ram.password)
                   /\ answer' = "none"
                   /\ (WriteOk \/ WriteFails(flash))

ResetUnconfigured == /\ at = "up" /\ ~ram.configured /\ at' = "resetting"
                     /\ ram' = Factory /\ answer' = "none"
                     /\ UNCHANGED flash

\* ... and the blob is written by reset_defaults itself
ResetFinishes == /\ at = "resetting" /\ at' = "up"
                 /\ UNCHANGED ram
                 /\ Persist(flash)

Next == \/ BootLoads \/ BootDefaults \/ BootRefuses \/ BootErases \/ BootFails
        \/ PowerLoss
        \/ SetWifiCredentials \/ ClearWifiCredentials \/ SetAuthToken \/ Patch
        \/ ResetConfigured \/ ResetUnconfigured \/ ResetFinishes

Spec == Init /\ [][Next]_vars

-----------------------------------------------------------------------------
(* Properties *)

Running == at \in {"up", "resetting"}

TypeOK == /\ at \in {"off", "up", "resetting", "halted"}
          /\ ram \in Contents /\ flash \in Blobs
          /\ answer \in {"none", "ok", "error"}

\* The flags other components decide by (is_provisioned, has_auth_token,
\* token_matches, hostname_set) say what the strings are, whatever sequence
\* of operations, failed writes and restarts on foreign blobs led here.  With
\* a stale auth_token_set an empty token would match an unset one.
FlagsTellContents == Running => ram = Sanitized(ram)

\* The firmware never leaves a blob in flash that its own next start would
\* replace by the defaults or refuse.
OwnBlobsBoot == Running => Readable(flash)

Network(cfg) == IF cfg.configured THEN <<cfg.ssid, cfg.password>> ELSE <<>>

ResetStep == ResetConfigured \/ ResetUnconfigured \/ ResetFinishes

\* A reset to the defaults keeps the network, in RAM and for the next start,
\* at each of its two writes, also when the first one fails or power is lost
\* between them.  Nothing in the firmware calls config_service_reset_defaults yet.
ResetKeepsNetwork ==
  [][ResetStep => /\ Network(ram') = Network(ram)
                  /\ Network(Loaded(flash')) \in
                       {Network(Loaded(flash)), Network(ram)}]_vars

\* The detailed store implements the abstract one: an operation answered with
\* "ok" is what the next start loads, whole, and one that failed leaves the
\* old blob or the new one, never a mixture.
Register == INSTANCE DurableRegister WITH
  Values  <- Contents,
  Factory <- Factory,
  Nothing <- Nothing,
  live    <- IF Running THEN ram ELSE Nothing,
  kept    <- Loaded(flash)

KeepsPromise == Register!Spec
=============================================================================
