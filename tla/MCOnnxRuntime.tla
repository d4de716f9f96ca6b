----------------------------- MODULE MCOnnxRuntime -----------------------------
(***************************************************************************)
(* TLC instance of OnnxRuntime: a text model and a custom one, two requests*)
(* at a time, and three session objects: two placeholders or sessions in   *)
(* the map and one in creation, or on its way out.                         *)
(***************************************************************************)
EXTENDS OnnxRuntime

CONSTANTS m1, m2, s1, s2, s3, c1, c2

MCModels   == {m1, m2}
MCText     == {m1}
MCSessions == {s1, s2, s3}
MCClients  == {c1, c2}
===============================================================================
