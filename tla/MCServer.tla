------------------------------ MODULE MCServer ------------------------------
(* Instances of Server for TLC: two connections, one picture name. *)
EXTENDS Server

CONSTANTS h1, h2, poller, p1, nowhere, directory

MCHandlers == {h1, h2}
OneLeaver  == {h1}
MCPhotos   == {p1}
AllNames   == {p1, nowhere, directory}
PhotoNames == {p1, nowhere}
AllOptions == Settings
TwoOptions == {"resolution", "contrast"}
=============================================================================
