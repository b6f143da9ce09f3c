SPECIFICATION MCSpec
CONSTANTS
  Password = {"", "a"}
  Empty = ""
  Secret = {"k1", "k2"}
  Backend = {"LDK", "LND", "GREENLIGHT", "BREEZ", "PHOENIX", "CASHU"}
  Preset = {"none", "LDK"}
  Supplies = {FALSE}
  DbFaults = FALSE
  Inner = {"home"}
  Typed = {}
  FormRows = {"LNDMacaroonHex"}
  Faults = {"reload", "crash"}
INVARIANTS FrontTypeOK CheckedMeansReadable LoggedOutIsOut
PROPERTIES IdentityStable NewPasswordOpens Settles HubEntered
