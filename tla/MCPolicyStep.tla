---------------------------- MODULE MCPolicyStep ----------------------------
(***************************************************************************)
(* Turns for TLC.  ToldTurn is the prompt after an image search, which     *)
(* shows the form of a text search.                                        *)
(***************************************************************************)
EXTENDS PolicyStep

ImageTurn == <<"reason", "image_search", "im_end">>
TextTurn == <<"reason", "open", "text", "close", "im_end">>
GoldTurn == <<"reason", "open", "gold", "close", "im_end">>
HastyTurn == <<"open", "text", "close", "im_end">>

RightTurn == <<"reason", "right", "im_end">>
WrongTurn == <<"reason", "wrong", "im_end">>
ChangedTurn == <<"reason", "wrong", "right", "im_end">>
\* Five searches in the last round, whose bonuses are worth a correct answer.
RefusedTurn ==
  <<"reason">> \o FlattenSeq([k \in 1..5 |-> <<"open", "text", "close">>]) \o <<"im_end">>

HitTurn == <<"results", "gold", "im_end">>
ToldTurn == <<"results", "open", "text", "close", "im_end">>

AllSearches == {ImageTurn, TextTurn, GoldTurn, HastyTurn}
AllLastTurns == {RightTurn, WrongTurn, ChangedTurn, RefusedTurn}
AllToolTurns == {HitTurn, ToldTurn}

\* A right answer at once, and a wrong one after two searches.
RightRow == Fit(Written(RightTurn, 1), 20)
WrongRow ==
  Fit(Written(ImageTurn, 1) \o Written(HitTurn, 2) \o Written(TextTurn, 3)
        \o Written(HitTurn, 4) \o Written(WrongTurn, 5), 20)
FewRows == {RightRow, WrongRow}

\* The penalty and the bonus of the scripts.
ScriptPrices == {<<1, 200>>}
===========================================================================
