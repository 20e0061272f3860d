------------------------------- MODULE MCFeeds -------------------------------
(* Feeds with pages of few rows. *)
EXTENDS Feeds
=============================================================================
