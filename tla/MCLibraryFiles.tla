--------------------------- MODULE MCLibraryFiles ---------------------------
(* Two bundled sequences, one of the player's, and hotkeys.ini.            *)
EXTENDS LibraryFiles

CONSTANTS starter1, starter2

MCStarterList == <<starter1, starter2>>
=============================================================================
