---------------------------- MODULE MCChatSession ----------------------------
(***************************************************************************)
(* TLC instance of ChatSession.  Two models, two completions, which one    *)
(* session makes one after the other with a history, or two sessions at    *)
(* once, and lines that may be cut in two.                                 *)
(***************************************************************************)
EXTENDS ChatSession

MCKinds     == {"both", "done"}
MCBodyLimit == 1
MCMaxImages == 1
MCMaxCalls  == 2
MCMaxLines  == 2
MCMaxMoves  == 3
MCFirstRoutes == {Bare}
MCFirstStates == {"vision"}
=============================================================================
