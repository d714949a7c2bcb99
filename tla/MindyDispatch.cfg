SPECIFICATION DispatchSpec
CONSTANTS
  kp = kp
  kq = kq
  kr = kr
  ox = ox
  oy = oy
  oz = oz
  mp = mp
  mq = mq
  ms = ms
  mt = mt
  mt2 = mt2
  my = my
  Root = Root
  Classes = {kp, kq, kr}
  SuperChoices <- MCSuperChoices
  SlotChoices <- MCSlotChoices
  EachSubclass = {}
  Objects = {ox, oy, oz}
  ClassOf <- MCClassOf
  Methods = {mp, my, ms, mt, mt2, mq}
  Asked = {ms}
  MaxMethods = 3
  Specializers <- MCSpecializers
  Signatures <- MCSignatures
  ArgLists <- MCArgLists
INVARIANTS CacheAnswersAfresh NextMethodsSorted
CHECK_DEADLOCK FALSE
