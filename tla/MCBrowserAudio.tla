-------------------------- MODULE MCBrowserAudio --------------------------
(* A small instance of BrowserAudio: the values of its cfg are all it needs. *)
EXTENDS BrowserAudio
=============================================================================
