SPECIFICATION SafeSpec
CONSTANTS
  a = a
  A = A
  b = b
  d = d
  c1 = c1
  c2 = c2
  op = op
  voice = voice
  NoNick = NoNick
  NickKey <- MCNickKey
  ChanKey <- MCChanKey
  Stronger <- MCStronger
  NameLists = {}
  MaxRefs = 4
  MaxTags = 2
  MaxPfx = 7
  Nick = {a, A, b}
  Chan = {c1, c2}
  Sym = {}
  Obj = {1, 2, 3}
  FailSites = {"chan","user","memb","init","usermap"}
  TagKinds = {}
  PerLine = 2
  AppNames = {"one"}
  MaxQ = 3
SYMMETRY ChanSymmetry
INVARIANTS FreedOnce ViewMatches NchansExact NobodyDangles ObjectsFreed
PROPERTIES ImplementsRoster
CHECK_DEADLOCK FALSE
