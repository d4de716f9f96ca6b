----------------------------- MODULE MCModelLogView -----------------------------
(***************************************************************************)
(* TLC instance of ModelLogView over LogStore.  A model that is removed    *)
(* and registered again, so that two buffer objects write into the log of  *)
(* one runtime, which overflows; a subscriber whose channel is full after  *)
(* one line, and a viewer that is cut after two lines and loses its        *)
(* connection once.                                                        *)
(***************************************************************************)
EXTENDS ModelLogView

CONSTANTS d1, b1, b2, t1, s1

MCIds      == {d1}
MCBufs     == {b1, b2}
MCRuntimes == {t1}
MCSubs     == {s1}
MCReplays  == {0, 1}

MCMaxView   == 1
MCKeepView  == 1
MCReplay    == 2
MCMaxBreaks == 1

MCSymmetry == Permutations(MCBufs)
===============================================================================
