------------------------------ MODULE MCDagIg ------------------------------
(***************************************************************************)
(* Samples, observations and gains small enough for TLC: two samples share *)
(* an id, and some gold answers have an alias.                             *)
(***************************************************************************)
EXTENDS DagIg

MCWords == STRING

MCSample(id, question, bridge, image, golds, direct, needs) ==
  [id |-> id, question |-> question, bridge |-> bridge, image |-> image,
   golds |-> golds, direct |-> direct, needs |-> needs]

MCSamples ==
  {MCSample("s1", <<"which", "bridge">>, TRUE, "img", <<"rome", "roma">>, Unknown, TRUE),
   MCSample("s2", <<"where">>, FALSE, None, <<"oslo">>, "oslo", FALSE),
   MCSample("s2", <<"who">>, FALSE, None, <<"rome", "roma">>, Unknown, TRUE)}

MCObservations ==
  {[text |-> <<"where", "roma">>, answer |-> "rome"],
   [text |-> <<"roma", "oslo", "rome">>, answer |-> "oslo"],
   [text |-> <<"tower">>, answer |-> None]}

MCPolicyOutputs ==
  {[tool |-> "text_search", text |-> Placeholder],
   [tool |-> "image_search", text |-> <<"tower">>],
   [tool |-> "stop", text |-> <<>>],
   [tool |-> "stop", text |-> <<"oslo">>],
   [tool |-> "ocr", text |-> <<"tower">>]}

MCAnswers == {"rome"}

MCRawGains == {-8, 3}

MCLimit == [m \in AllModes |-> IF m = "prompted" THEN 3 ELSE 2]
=============================================================================
