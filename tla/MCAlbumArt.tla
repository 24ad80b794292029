----------------------------- MODULE MCAlbumArt -----------------------------
(***************************************************************************)
(* AlbumArt with one song whose art is fetched, one of a disabled protocol *)
(* and stacked modals.                                                     *)
(***************************************************************************)
EXTENDS AlbumArt
=============================================================================
