------------------------------- MODULE MCSession -------------------------------
(* A small instance of Session: its constants are given in Session.cfg. *)
EXTENDS Session
===============================================================================
