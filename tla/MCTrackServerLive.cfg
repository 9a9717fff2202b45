SPECIFICATION ServerSpec
CONSTANTS
  a = a
  A = A
  b = b
  d = d
  c1 = c1
  c2 = c2
  op = op
  voice = voice
  NoNick = NoNick
  NickKey <- MCNickKey
  ChanKey <- MCChanKey
  Stronger <- MCStronger
  NameLists = {}
  MaxRefs = 4
  MaxTags = 2
  MaxPfx = 7
  Nick = {a, b}
  Chan = {c1}
  Sym = {op, voice}
  Obj = {1, 2, 3}
  FailSites = {}
  TagKinds = {}
  PerLine = 1
  AppNames = {"one","all"}
  MaxQ = 3
INVARIANTS PrefixesTrue
PROPERTIES Converges
CHECK_DEADLOCK FALSE
