SPECIFICATION Spec
CONSTANTS
  a = a
  A = A
  b = b
  c1 = c1
  c2 = c2
  op = op
  voice = voice
  NoNick = NoNick
  Nick = {a, A, b}
  NickKey <- MCNickKey
  Chan = {c1, c2}
  ChanKey <- MCChanKey
  Sym = {}
  Stronger <- MCStronger
  MaxPfx = 2
  Obj = {1, 2, 3}
  FailSites = {"chan", "user", "memb", "strdup", "rename", "init", "usermap"}
  NameLists <- MCNameLists
  TagKinds = {}
  MaxRefs = 2
  MaxTags = 2
SYMMETRY ChanSymmetry
INVARIANTS TypeOK RefInv
CHECK_DEADLOCK FALSE
