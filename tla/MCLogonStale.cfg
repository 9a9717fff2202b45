SPECIFICATION Spec
CONSTANTS
  n1 = n1
  n2 = n2
  NoNick = NoNick
  Nick = {n1, n2}
  WantNick = n1
  MutNick <- MCMutNick
  Renews = FALSE
  SaslModes = {"try", "must"}
  TlsModes = {"none", "cap", "first"}
  Settled = TRUE
  MaxQ = 2
INVARIANTS MustHave
