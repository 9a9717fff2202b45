SPECIFICATION Spec
CONSTANTS
  ka = ka
  kA = kA
  kb = kb
  ke = ke
  kc = kc
  n1 = n1
  n2 = n2
  n3 = n3
  Nil = Nil
  NoKey = NoKey
  Key = {ka, kA, kb, ke, kc}
  KeyRep <- MCKeyRep
  Val = {1, 2}
  BSz = 2
  Hash <- MCHash
  Node = {n1, n2, n3}
SYMMETRY NodeSymmetry
INVARIANTS CountExact MemoryOwned
PROPERTIES ImplementsDict
CHECK_DEADLOCK FALSE
