----------------------------- MODULE MCSignOff -----------------------------
(* Instances of SignOff: single lines, or a pasted reply of two paragraphs. *)
EXTENDS SignOff

MCLines == {<<"yes">>, <<"no">>, <<"text">>, <<"blank">>}
MCPastes == {<<"text">>, <<"text", "blank", "yes">>}
MCEvents == AllEvents \ {"init", "noise"}
MCRefusal == {"prose", "edit?"}
=============================================================================
