------------------------ MODULE MCMindyDispatchMany ------------------------
(* One class below another, three deep, and seven methods of two arguments,  *)
(* each named for how far from the class of the arguments its types are.     *)
EXTENDS MindyDispatch

CONSTANTS k0, k1, k2, o, m01, m30, m02, m20, m12, m21, m11

MCSuperChoices == (k2 :> {<<Root>>}) @@ (k1 :> {<<k2>>}) @@ (k0 :> {<<k1>>})
MCSlotChoices == [c \in Classes |-> {<<>>}]
MCClassOf == (o :> k0)
MCSpecializers ==
  (m01 :> <<Class(k0), Class(k1)>>) @@ (m30 :> <<Class(Root), Class(k0)>>)
    @@ (m02 :> <<Class(k0), Class(k2)>>) @@ (m20 :> <<Class(k2), Class(k0)>>)
    @@ (m12 :> <<Class(k1), Class(k2)>>) @@ (m21 :> <<Class(k2), Class(k1)>>)
    @@ (m11 :> <<Class(k1), Class(k1)>>)
MCSignatures == {<<Class(Root), Class(Root)>>}
MCArgLists == {<<o, o>>}
=============================================================================
