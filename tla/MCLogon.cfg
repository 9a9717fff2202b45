SPECIFICATION FairSpec
CONSTANTS
  n1 = n1
  n2 = n2
  NoNick = NoNick
  Nick = {n1, n2}
  WantNick = n1
  MutNick <- MCMutNick
  Renews = TRUE
  SaslModes = {"try", "must"}
  TlsModes = {"none", "cap", "first"}
  Settled = TRUE
  MaxQ = 2
INVARIANTS LogonTypeOK MustHave SaslDone AskOffered TlsAgrees NickAgrees
PROPERTIES Returns
