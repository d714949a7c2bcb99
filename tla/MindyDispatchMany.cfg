SPECIFICATION DispatchSpec
CONSTANTS
  k0 = k0
  k1 = k1
  k2 = k2
  o = o
  m01 = m01
  m30 = m30
  m02 = m02
  m20 = m20
  m12 = m12
  m21 = m21
  m11 = m11
  Root = Root
  Classes = {k0, k1, k2}
  SuperChoices <- MCSuperChoices
  SlotChoices <- MCSlotChoices
  EachSubclass = {}
  Objects = {o}
  ClassOf <- MCClassOf
  Methods = {m01, m30, m02, m20, m12, m21, m11}
  Asked = {}
  MaxMethods = 7
  Specializers <- MCSpecializers
  Signatures <- MCSignatures
  ArgLists <- MCArgLists
INVARIANTS MostSpecificFirst
CHECK_DEADLOCK FALSE
