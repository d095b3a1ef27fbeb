------------------------ MODULE MCMultiTurnRollout ------------------------
(***************************************************************************)
(* Engine outputs and tool results for TLC.                                *)
(***************************************************************************)
EXTENDS RolloutRefinement

Out(kind, ids) == [kind |-> kind, ids |-> ids]
Turn == <<"text", "im_end">>

AskOutputs == {Out("image", Turn), Out("text", Turn), Out("answer", Turn)}
OddOutputs ==
  AskOutputs \cup
  { Out("empty_text", Turn),
    Out("image", <<"text", "text">>),
    Out("answer", <<>>) }

Returned(ids, grids) == [raised |-> FALSE, ids |-> ids, grids |-> grids]
Raised == [raised |-> TRUE, ids |-> <<>>, grids |-> <<>>]

TextHit == Returned(<<"text">>, <<>>)
NoImage == Returned(<<"text">>, <<>>)
OneImage == Returned(<<"image_pad">>, <<2>>)
TwoImages == Returned(<<"image_pad", "text", "image_pad">>, <<2, 1>>)

TextOnly == {TextHit}
ImageHits == {NoImage, OneImage, TwoImages}
ImageHitsOrRaised == {OneImage, Raised}
===========================================================================
