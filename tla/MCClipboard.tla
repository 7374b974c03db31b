------------------------------ MODULE MCClipboard -----------------------------
(***************************************************************************)
(* Constants for checking Clipboard.                                       *)
(***************************************************************************)
EXTENDS Clipboard
=============================================================================
