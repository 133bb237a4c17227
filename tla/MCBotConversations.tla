------------------------- MODULE MCBotConversations -------------------------
(***************************************************************************)
(* Instances for TLC: two names, and a choice only of the cap.             *)
(***************************************************************************)
EXTENDS BotConversations

CONSTANTS n1, n2, d1, c1, c2, s1, v1
=============================================================================
