SPECIFICATION TagsSpec
CONSTANTS
  a = a
  A = A
  b = b
  d = d
  c1 = c1
  c2 = c2
  op = op
  voice = voice
  NoNick = NoNick
  NickKey <- MCNickKey
  ChanKey <- MCChanKey
  Stronger <- MCStronger
  NameLists = {}
  MaxRefs = 4
  MaxTags = 2
  MaxPfx = 7
  Nick = {a, b}
  Chan = {c1, c2}
  Sym = {}
  Obj = {1, 2, 3}
  FailSites = {}
  TagKinds = {"auto"}
  PerLine = 2
  AppNames = {}
  MaxQ = 3
SYMMETRY ChanSymmetry
INVARIANTS TagPersists TagsAlive
CHECK_DEADLOCK FALSE
