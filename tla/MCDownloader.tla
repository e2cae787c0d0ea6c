---------------------------- MODULE MCDownloader ----------------------------
(***************************************************************************)
(* Instances of Downloader for TLC. With parts of two bytes the objects    *)
(* have no chunk, a short one, a full one, or up to five, which fill the   *)
(* workers and the channel, the last of them short or full.                *)
(***************************************************************************)
EXTENDS Downloader

CONSTANTS w1, w2
=============================================================================
