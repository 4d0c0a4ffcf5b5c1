---------------------------- MODULE MCPromptCascade ----------------------------
(***************************************************************************)
(* Small batches and threads for PromptCascade.                            *)
(***************************************************************************)
EXTENDS PromptCascade

MCFileOf == ("p" :> "f") @@ ("q" :> "g")
MCTargets == << "p", "q" >>
MCContextFiles == {<< >>, << 4, 9 >>}
MCThreads == {<< >>, << 3, 8 >>, << 6, 2, 7 >>}
=============================================================================
