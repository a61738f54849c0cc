SPECIFICATION FairSpec
CONSTANTS
  Networks = {n1, n2}
  Tokens = {t1}
  NoNetwork = NoNetwork
  NoToken = NoToken
  NoSubmission = NoSubmission
  MdnsAvailable = TRUE
INVARIANTS
  TypeOK
  PortalAndMcpExclusive
  OneConfigWriter
  HaltedServesNothing
  EnabledMeansServing
  PortalReachable
  NeverStranded
  AckedResetDurable
  AcceptedNetworkDurable
  BlobMatchesRam
PROPERTIES
  LifecycleImplemented
  MainTaskNeverStuck
  ResetLeadsToProvisioning
  SubmissionIsTried
