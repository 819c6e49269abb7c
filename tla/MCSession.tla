----------------------------- MODULE MCSession ------------------------------
(* One tag stands for the three of the sender node that are given a value  *)
(* at once; the scene's, whose id is stored and never used, is left out.   *)
EXTENDS Session

MCSceneTags == <<>>
MCOtherTags == <<"position">>
=============================================================================
