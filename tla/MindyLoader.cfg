SPECIFICATION LoadSpec
CONSTANTS
  f = f
  g = g
  h = h
  ka = ka
  kb = kb
  kc = kc
  kd = kd
  Threads = {t1, t2}
  Files = {f, g, h}
  Contents <- MCContents
  Root = Root
  Classes = {ka, kb, kc, kd}
  SuperChoices <- MCSuperChoices
  SlotChoices <- MCSlotChoices
  EachSubclass = {"e"}
INVARIANTS LoadedWhenReturned NoFormWaits DefinitionsInOrder CplIsRight SlotsKeptApart
SYMMETRY MCSymmetry
CHECK_DEADLOCK FALSE
