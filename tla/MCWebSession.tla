---------------------------- MODULE MCWebSession ----------------------------
(* WebSession with two tabs of one user and, besides their refreshes, one   *)
(* call at a time; three rows cover the cookie and two of the calls.        *)
EXTENDS WebSession
=============================================================================
