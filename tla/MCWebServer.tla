---------------------------- MODULE MCWebServer ----------------------------
(* Small instances of WebServer for TLC. *)
EXTENDS WebServer

CONSTANTS w1, w2
============================================================================
