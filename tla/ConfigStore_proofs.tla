------------------------ MODULE ConfigStore_proofs -------------------------
(***************************************************************************)
(* What holds of the configuration store for every set of strings: the     *)
(* invariants of the run config_store, and that the store implements the   *)
(* durable register.                                                       *)
(***************************************************************************)
EXTENDS ConfigStore, TLAPS

\* The flags and the version of g_cfg, and the readability of the blob: what
\* makes Sanitized the identity on every configuration the store itself wrote
Coherent(cfg) == cfg = Sanitized(cfg) /\ cfg.version = 1

StoreInv == TypeOK /\ (Running => Coherent(ram) /\ Readable(flash))

-----------------------------------------------------------------------------
(* The operators on configurations *)

\* The defaults are a coherent configuration.
LEMMA FactoryCoherent == Factory \in Contents /\ Coherent(Factory)
<1>1. Factory \in Contents
  BY StringsAssumption DEF Factory, Contents
<1>2. Factory = Sanitized(Factory)
  <2>1. /\ Factory.configured = (Factory.ssid # Empty)
        /\ Factory.tokenSet = (Factory.token # Empty)
        /\ Factory.hostnameSet = (Factory.hostname # Empty)
    BY Zenon DEF Factory
  <2> QED BY <1>1, <2>1 DEF Sanitized, Contents
<1> QED BY <1>1, <1>2 DEF Coherent, Factory

\* Recomputing the flags twice is recomputing them once.
LEMMA SanitizedCoherent ==
  ASSUME NEW c \in Contents
  PROVE  /\ Sanitized(c) \in Contents
         /\ Sanitized(Sanitized(c)) = Sanitized(c)
         /\ Sanitized(c).version = c.version
BY DEF Contents, Sanitized

\* A blob the store wrote is loaded as it was written.
LEMMA LoadedStored ==
  ASSUME NEW c \in Contents, Coherent(c)
  PROVE  /\ Stored(c) \in Blobs /\ Readable(Stored(c))
         /\ Loaded(Stored(c)) = c
BY DEF Coherent, Stored, Blobs, Sizes, Readable, Loaded

\* Whatever blob is in flash, loading it gives a coherent configuration.
LEMMA LoadedCoherent ==
  ASSUME NEW b \in Blobs
  PROVE  Loaded(b) \in Contents /\ Coherent(Loaded(b))
<1>1. CASE Readable(b)
  <2>1. b.cfg \in Contents BY DEF Blobs
  <2> QED BY <1>1, <2>1, SanitizedCoherent DEF Loaded, Readable, Coherent
<1>2. CASE ~Readable(b)
  BY <1>2, FactoryCoherent DEF Loaded
<1> QED BY <1>1, <1>2

\* Every setter keeps the flags in step with the strings it sets.
LEMMA SettersCoherent ==
  ASSUME NEW c \in Contents, Coherent(c)
  PROVE  /\ \A s \in Ssids, p \in Passwords :
              WithNetwork(c, s, p) \in Contents /\ Coherent(WithNetwork(c, s, p))
         /\ WithoutNetwork(c) \in Contents /\ Coherent(WithoutNetwork(c))
         /\ \A t \in TokenStrings :
              LET d == [c EXCEPT !.token = t, !.tokenSet = t # Empty]
              IN  d \in Contents /\ Coherent(d)
         /\ \A o \in OptionSets : LET d == [c EXCEPT !.options = o]
                                  IN  d \in Contents /\ Coherent(d)
         /\ \A o \in OptionSets, h \in Hostnames :
              LET d == [c EXCEPT !.options = o, !.hostname = h,
                                 !.hostnameSet = h # Empty]
              IN  d \in Contents /\ Coherent(d)
<1>1. /\ c.version = 1 /\ c.configured = (c.ssid # Empty)
      /\ c.tokenSet = (c.token # Empty)
      /\ c.hostnameSet = (c.hostname # Empty)
  BY DEF Coherent, Sanitized, Contents
<1>2. ASSUME NEW s \in Ssids, NEW p \in Passwords
      PROVE  WithNetwork(c, s, p) \in Contents /\ Coherent(WithNetwork(c, s, p))
  BY <1>1 DEF WithNetwork, Coherent, Sanitized, Contents
<1>3. WithoutNetwork(c) \in Contents /\ Coherent(WithoutNetwork(c))
  BY <1>1, StringsAssumption DEF WithoutNetwork, Coherent, Sanitized, Contents
<1>4. ASSUME NEW t \in TokenStrings
      PROVE  LET d == [c EXCEPT !.token = t, !.tokenSet = t # Empty]
             IN  d \in Contents /\ Coherent(d)
  BY <1>1 DEF Coherent, Sanitized, Contents
<1>5. ASSUME NEW o \in OptionSets
      PROVE  LET d == [c EXCEPT !.options = o] IN d \in Contents /\ Coherent(d)
  BY <1>1 DEF Coherent, Sanitized, Contents
<1>6. ASSUME NEW o \in OptionSets, NEW h \in Hostnames
      PROVE  LET d == [c EXCEPT !.options = o, !.hostname = h,
                                !.hostnameSet = h # Empty]
             IN  d \in Contents /\ Coherent(d)
  BY <1>1 DEF Coherent, Sanitized, Contents
<1> QED BY <1>2, <1>3, <1>4, <1>5, <1>6

-----------------------------------------------------------------------------
(* The shape of a step *)

\* A write of a coherent configuration leaves a readable blob when it is
\* acknowledged, and the old blob or the new one when it is not.
LEMMA PersistResult ==
  ASSUME NEW old \in Blobs, ram' \in Contents, Coherent(ram'), Persist(old)
  PROVE  /\ flash' \in Blobs /\ answer' \in {"ok", "error"}
         /\ answer' = "ok" => flash' = Stored(ram')
         /\ flash' \in {old, Stored(ram')}
         /\ Readable(flash') \/ flash' = old
         /\ Loaded(flash') \in {Loaded(old), ram'}
         /\ answer' = "ok" => Loaded(flash') = ram'
<1>1. Stored(ram') \in Blobs /\ Readable(Stored(ram')) /\ Loaded(Stored(ram')) = ram'
  BY LoadedStored
<1>2. CASE WriteOk /\ answer' = "ok"
  BY <1>1, <1>2 DEF WriteOk
<1>3. CASE WriteFails(old) /\ answer' = "error"
  BY <1>1, <1>3 DEF WriteFails
<1> QED BY <1>2, <1>3 DEF Persist

\* The operations that run while the device is up, as one shape: a coherent
\* g_cfg and a write of it.
Operation == SetWifiCredentials \/ ClearWifiCredentials \/ SetAuthToken \/ Patch

LEMMA OperationShape ==
  ASSUME StoreInv, Operation
  PROVE  /\ at = "up" /\ at' = "up"
         /\ ram' \in Contents /\ Coherent(ram')
         /\ Persist(flash)
<1>1. at = "up" /\ at' = "up" /\ Persist(flash)
  BY DEF Operation, SetWifiCredentials, ClearWifiCredentials, SetAuthToken, Patch
<1>2. ram \in Contents /\ Coherent(ram)
  BY <1>1 DEF StoreInv, TypeOK, Running
<1>3. CASE SetWifiCredentials
  BY <1>2, <1>3, SettersCoherent DEF SetWifiCredentials
<1>4. CASE ClearWifiCredentials
  BY <1>2, <1>4, SettersCoherent DEF ClearWifiCredentials
<1>5. CASE SetAuthToken
  BY <1>2, <1>5, SettersCoherent DEF SetAuthToken
<1>6. CASE Patch
  <2>1. PICK o \in OptionSets, h \in Hostnames :
          ram' \in {[ram EXCEPT !.options = o],
                    [ram EXCEPT !.options = o, !.hostname = h,
                                !.hostnameSet = h # Empty]}
    BY <1>6 DEF Patch
  <2>2. CASE ram' = [ram EXCEPT !.options = o]
    <3>1. ram' \in Contents /\ Coherent(ram')
      BY <1>2, <2>2, SettersCoherent
    <3> QED BY <1>1, <3>1
  <2>3. CASE ram' = [ram EXCEPT !.options = o, !.hostname = h,
                                !.hostnameSet = h # Empty]
    <3>1. ram' \in Contents /\ Coherent(ram')
      BY <1>2, <2>3, SettersCoherent
    <3> QED BY <1>1, <3>1
  <2> QED BY <2>1, <2>2, <2>3
<1>7. ram' \in Contents /\ Coherent(ram')
  BY <1>3, <1>4, <1>5, <1>6 DEF Operation
<1> QED BY <1>1, <1>7

\* Both ways into a reset leave a coherent g_cfg, the flash a configuration
\* the store wrote, and the network as it was.
Reset == ResetConfigured \/ ResetUnconfigured

LEMMA ResetShape ==
  ASSUME StoreInv, Reset
  PROVE  /\ at = "up" /\ at' = "resetting" /\ answer' = "none"
         /\ ram' \in Contents /\ Coherent(ram')
         /\ flash' \in Blobs /\ flash' \in {flash, Stored(ram')}
         /\ Readable(flash')
         /\ Network(ram') = Network(ram)
<1>1. /\ at = "up" /\ at' = "resetting" /\ answer' = "none"
      /\ ram \in Contents /\ Coherent(ram) /\ flash \in Blobs /\ Readable(flash)
  BY DEF Reset, ResetConfigured, ResetUnconfigured, StoreInv, TypeOK, Running
<1>2. CASE ResetConfigured
  <2>1. ram.ssid \in Ssids /\ ram.password \in Passwords /\ ram.ssid # Empty
    BY <1>1, <1>2 DEF ResetConfigured, Contents, Coherent, Sanitized
  <2>2. ram' \in Contents /\ Coherent(ram')
    BY <1>2, <2>1, FactoryCoherent, SettersCoherent DEF ResetConfigured
  <2>3. Network(ram') = Network(ram)
    BY <1>1, <1>2, <2>1
       DEF ResetConfigured, WithNetwork, Factory, Network, Contents
  <2>4. flash' \in {flash, Stored(ram')}
    BY <1>1, <1>2 DEF ResetConfigured, WriteOk, WriteFails
  <2> QED BY <1>1, <2>2, <2>3, <2>4, LoadedStored
<1>3. CASE ResetUnconfigured
  <2>1. Network(ram') = Network(ram)
    BY <1>3 DEF ResetUnconfigured, Network, Factory
  <2> QED BY <1>1, <1>3, <2>1, FactoryCoherent DEF ResetUnconfigured
<1> QED BY <1>2, <1>3 DEF Reset

\* The starts: the defaults or what the blob says, and up only when answered
\* with "ok".
Start == BootLoads \/ BootDefaults \/ BootRefuses \/ BootErases \/ BootFails

LEMMA StartShape ==
  ASSUME StoreInv, Start
  PROVE  /\ at = "off" /\ at' = IF answer' = "ok" THEN "up" ELSE "halted"
         /\ ram' \in Contents /\ Coherent(ram') /\ flash' \in Blobs
         /\ answer' \in {"ok", "error"}
         /\ answer' = "ok" => Readable(flash') /\ Loaded(flash') = ram'
         /\ \/ Loaded(flash') = Loaded(flash)
            \/ Loaded(flash') = Factory
<1>1. /\ at = "off" /\ flash \in Blobs
  BY DEF Start, BootLoads, BootDefaults, BootRefuses, BootErases, BootFails,
         StoreInv, TypeOK
<1>2. CASE BootLoads
  <2>1. flash.cfg \in Contents /\ Readable(flash) BY <1>1, <1>2 DEF BootLoads, Blobs
  <2>2. ram' = Loaded(flash) /\ flash' = flash
    BY <1>2, <2>1 DEF BootLoads, Loaded
  <2> QED BY <1>1, <1>2, <2>1, <2>2, LoadedCoherent DEF BootLoads
<1>3. CASE BootDefaults
  <2>1. Loaded(flash) = Factory BY <1>3 DEF BootDefaults, Loaded
  <2>2. ram' = Factory /\ Persist(flash)
        /\ at' = IF answer' = "ok" THEN "up" ELSE "halted"
    BY <1>3 DEF BootDefaults, UpOnlyIfOk
  <2>3. Readable(Stored(Factory)) BY FactoryCoherent, LoadedStored
  <2> QED BY <1>1, <2>1, <2>2, <2>3, FactoryCoherent, PersistResult
<1>4. CASE BootErases
  <2>1. Absent \in Blobs /\ Loaded(Absent) = Factory
    BY FactoryCoherent DEF Absent, Blobs, Sizes, Loaded, Readable
  <2>2. ram' = Factory /\ Persist(Absent)
        /\ at' = IF answer' = "ok" THEN "up" ELSE "halted"
    BY <1>4 DEF BootErases, UpOnlyIfOk
  <2>3. Readable(Stored(Factory)) BY FactoryCoherent, LoadedStored
  <2> QED BY <1>1, <2>1, <2>2, <2>3, FactoryCoherent, PersistResult
<1>5. CASE BootRefuses
  BY <1>1, <1>5, FactoryCoherent DEF BootRefuses
<1>6. CASE BootFails
  BY <1>1, <1>6, FactoryCoherent DEF BootFails
<1> QED BY <1>2, <1>3, <1>4, <1>5, <1>6 DEF Start

-----------------------------------------------------------------------------
(* The inductive invariant *)

LEMMA StoreInvInit == Init => StoreInv
BY FactoryCoherent DEF Init, StoreInv, TypeOK, Running

LEMMA StoreInvNext == StoreInv /\ [Next]_vars => StoreInv'
<1> SUFFICES ASSUME StoreInv, [Next]_vars PROVE StoreInv'
  OBVIOUS
<1> USE DEF StoreInv, TypeOK, Running
<1>1. CASE Operation
  BY <1>1, OperationShape, PersistResult
<1>2. CASE Reset
  BY <1>2, ResetShape
<1>3. CASE ResetFinishes
  BY <1>3, PersistResult DEF ResetFinishes
<1>4. CASE Start
  BY <1>4, StartShape
<1>5. CASE PowerLoss
  BY <1>5, FactoryCoherent DEF PowerLoss
<1>6. CASE UNCHANGED vars
  BY <1>6 DEF vars
<1> QED BY <1>1, <1>2, <1>3, <1>4, <1>5, <1>6 DEF Next, Operation, Reset, Start

\* The types, for every set of strings.
THEOREM StoreTypeCorrect == Spec => []TypeOK
<1>1. StoreInv => TypeOK BY DEF StoreInv
<1> QED BY <1>1, StoreInvInit, StoreInvNext, PTL DEF Spec

\* The flags other components decide by never disagree with the strings.
THEOREM FlagsCorrect == Spec => []FlagsTellContents
<1>1. StoreInv => FlagsTellContents BY DEF StoreInv, FlagsTellContents, Coherent
<1> QED BY <1>1, StoreInvInit, StoreInvNext, PTL DEF Spec

\* The firmware never leaves a blob that its own next start would not load.
THEOREM OwnBlobsCorrect == Spec => []OwnBlobsBoot
<1>1. StoreInv => OwnBlobsBoot BY DEF StoreInv, OwnBlobsBoot
<1> QED BY <1>1, StoreInvInit, StoreInvNext, PTL DEF Spec

-----------------------------------------------------------------------------
(* A reset keeps the network *)

LEMMA ResetStepKeepsNetwork ==
  ASSUME StoreInv, ResetStep
  PROVE  /\ Network(ram') = Network(ram)
         /\ Network(Loaded(flash')) \in {Network(Loaded(flash)), Network(ram)}
<1>1. CASE Reset
  <2>1. /\ ram' \in Contents /\ Coherent(ram') /\ Network(ram') = Network(ram)
        /\ flash' \in {flash, Stored(ram')}
    BY <1>1, ResetShape
  <2> QED BY <2>1, LoadedStored
<1>2. CASE ResetFinishes
  <2>1. /\ ram' = ram /\ Persist(flash) /\ ram \in Contents /\ Coherent(ram)
        /\ flash \in Blobs
    BY <1>2 DEF ResetFinishes, StoreInv, TypeOK, Running
  <2>2. Loaded(flash') \in {Loaded(flash), ram}
    BY <2>1, PersistResult
  <2> QED BY <2>1, <2>2
<1> QED BY <1>1, <1>2 DEF ResetStep, Reset

\* Neither write of a reset, failed or cut short, changes the network that
\* the device uses or the next start finds.
THEOREM ResetCorrect == Spec => ResetKeepsNetwork
<1>1. StoreInv /\ [Next]_vars =>
        [ResetStep => /\ Network(ram') = Network(ram)
                      /\ Network(Loaded(flash')) \in
                           {Network(Loaded(flash)), Network(ram)}]_vars
  BY ResetStepKeepsNetwork
<1> QED BY <1>1, StoreInvInit, StoreInvNext, PTL DEF Spec, ResetKeepsNetwork

-----------------------------------------------------------------------------
(* The store implements the durable register *)

liveMap == IF Running THEN ram ELSE Nothing

LEMMA InitImplements == Init => Register!Init
<1> SUFFICES ASSUME Init PROVE Register!Init
  OBVIOUS
<1>1. flash \in Blobs /\ ~Running /\ answer = "none" BY DEF Init, Running
<1> QED BY <1>1, LoadedCoherent DEF Register!Init

LEMMA StepImplements ==
  StoreInv /\ [Next]_vars => [Register!Next]_(Register!vars)
<1> SUFFICES ASSUME StoreInv, [Next]_vars
             PROVE  Register!Next \/ UNCHANGED Register!vars
  BY DEF Register!vars
<1>0. /\ flash \in Blobs
      /\ ram \in Contents
      /\ Running => Coherent(ram)
      /\ Running <=> at \in {"up", "resetting"}
      /\ Running' <=> at' \in {"up", "resetting"}
      /\ Nothing \notin Contents
  BY StringsAssumption DEF StoreInv, TypeOK, Running
<1>1. CASE Operation
  <2>1. /\ Running /\ Running' /\ ram' \in Contents /\ Coherent(ram')
        /\ Persist(flash)
    BY <1>0, <1>1, OperationShape
  <2>2. /\ answer' \in {"ok", "error"}
        /\ Loaded(flash') \in {Loaded(flash), ram'}
        /\ answer' = "ok" => Loaded(flash') = ram'
    BY <1>0, <2>1, PersistResult
  <2> QED BY <1>0, <2>1, <2>2
          DEF Register!Next, Register!Acknowledge, Register!NotAcknowledged
<1>2. CASE Reset
  <2>1. /\ Running /\ Running' /\ answer' = "none"
        /\ ram' \in Contents /\ Coherent(ram')
        /\ flash' \in {flash, Stored(ram')}
    BY <1>0, <1>2, ResetShape
  <2>2. Loaded(flash') \in {Loaded(flash), ram'}
    BY <2>1, LoadedStored
  <2> QED BY <1>0, <2>1, <2>2 DEF Register!Next, Register!NotAcknowledged
<1>3. CASE ResetFinishes
  <2>1. Running /\ Running' /\ ram' = ram /\ Coherent(ram) /\ Persist(flash)
    BY <1>0, <1>3 DEF ResetFinishes
  <2>2. /\ answer' \in {"ok", "error"}
        /\ Loaded(flash') \in {Loaded(flash), ram'}
        /\ answer' = "ok" => Loaded(flash') = ram'
    BY <1>0, <2>1, PersistResult
  <2> QED BY <1>0, <2>1, <2>2
          DEF Register!Next, Register!Acknowledge, Register!NotAcknowledged
<1>4. CASE Start
  <2>1. /\ ~Running /\ (Running' <=> answer' = "ok")
        /\ answer' \in {"ok", "error"}
        /\ answer' = "ok" => Loaded(flash') = ram'
        /\ Loaded(flash') = Loaded(flash) \/ Loaded(flash') = Factory
    BY <1>0, <1>4, StartShape
  <2> QED BY <1>0, <2>1
          DEF Register!Next, Register!Start, Register!StartErased
<1>5. CASE PowerLoss
  BY <1>0, <1>5 DEF PowerLoss, Register!Next, Register!PowerOff
<1>6. CASE UNCHANGED vars
  BY <1>6 DEF vars, Register!vars, Running
<1> QED BY <1>1, <1>2, <1>3, <1>4, <1>5, <1>6 DEF Next, Operation, Reset, Start

\* What the store answers with "ok" is what the next start finds, whole; what
\* it answers with an error leaves the old configuration or the new one.
THEOREM StoreKeepsPromise == Spec => KeepsPromise
<1> QED BY InitImplements, StepImplements, StoreInvInit, StoreInvNext, PTL
        DEF Spec, KeepsPromise, Register!Spec
=============================================================================
