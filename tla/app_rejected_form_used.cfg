SPECIFICATION Spec
CONSTANTS
  Networks = {n1, n2}
  Tokens = {t1}
  NoNetwork = NoNetwork
  NoToken = NoToken
  NoSubmission = NoSubmission
  MdnsAvailable = TRUE
INVARIANTS
  ConnectsAsAccepted
