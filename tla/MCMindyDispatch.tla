---------------------------- MODULE MCMindyDispatch ---------------------------
(* Two classes and one below the first or both of them; of the six methods   *)
(* two take the same types, and some are ambiguous for most arguments.       *)
EXTENDS MindyDispatch

CONSTANTS kp, kq, kr, ox, oy, oz, mp, my, ms, mt, mt2, mq

MCSuperChoices == (kp :> {<<Root>>}) @@ (kq :> {<<Root>>}) @@ (kr :> {<<kp>>, <<kq, kp>>})
MCSlotChoices == [c \in Classes |-> {<<>>}]
MCClassOf == (ox :> kp) @@ (oy :> kp) @@ (oz :> kr)
MCSpecializers ==
  (mp :> <<Class(kp), Class(Root)>>) @@ (my :> <<Singleton(oy), Class(Root)>>)
    @@ (ms :> <<Class(Root), Singleton(ox)>>) @@ (mt :> <<Class(Root), Class(kp)>>)
    @@ (mq :> <<Class(Root), Class(kq)>>) @@ (mt2 :> <<Class(Root), Class(kp)>>)
MCSignatures == {<<Class(Root), Class(Root)>>, <<Class(kp), Class(Root)>>}
MCArgLists == {<<oy, ox>>, <<oy, oy>>, <<oy, oz>>}
=============================================================================
