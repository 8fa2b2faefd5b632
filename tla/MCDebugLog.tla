----------------------------- MODULE MCDebugLog -----------------------------
(***************************************************************************)
(* Two processors and a page of four bytes: messages that fit, that end at  *)
(* its last bytes, that are longer than it, and that are empty, on a screen *)
(* that they fill.                                                          *)
(***************************************************************************)
EXTENDS DebugLog

SmallMessages == {<< >>, <<"text">>, <<"text", "newline">>,
                  <<"text", "text", "newline", "text", "text">>}
=============================================================================
