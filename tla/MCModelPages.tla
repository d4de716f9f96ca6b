---------------------------- MODULE MCModelPages ----------------------------
(***************************************************************************)
(* TLC instance of ModelPages.  One model, which may have to be registered *)
(* first, with two settings, and two requests in flight, so that the       *)
(* answers of a poll, a save and a refresh overtake each other.            *)
(***************************************************************************)
EXTENDS ModelPages

CONSTANTS old

MCFilters == {"all", "running"}
MCFirstModels == {Gone, [conf |-> old, state |-> "stopped"]}
MCOutsideStates == {"running"}
MCFirstPages == {"list"}
MCMaxFlight == 2
MCMaxChanges == 1
MCMaxMoves  == 3
=============================================================================
