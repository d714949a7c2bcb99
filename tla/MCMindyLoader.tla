---------------------------- MODULE MCMindyLoader -----------------------------
(* A file with a class, a load of another file and a second class; that      *)
(* other file with a class below them; and one with a class below any.       *)
EXTENDS MindyLoader

CONSTANTS f, g, h, ka, kb, kc, kd

MCContents ==
  (f :> <<Definition(ka), LoadOf(g), Definition(kb)>>) @@ (g :> <<Definition(kc)>>) @@ (h :> <<Definition(kd)>>)

UpToTwo(S) == {<<k>> : k \in S} \cup {<<k[1], k[2]>> : k \in S \X S}

MCSuperChoices ==
  (ka :> {<<Root>>}) @@ (kb :> {<<Root>>, <<ka>>}) @@ (kc :> UpToTwo({ka, kb}))
    @@ (kd :> UpToTwo({ka, kb, kc}))

MCSlotChoices ==
  (ka :> {<<"x">>}) @@ (kb :> {<<"y">>, <<"y", "y2">>}) @@ (kc :> {<<"z", "e">>, <<"x">>})
    @@ (kd :> {<<"w">>})

MCSymmetry == Permutations(Threads)
=============================================================================
