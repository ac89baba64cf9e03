---------------------------- MODULE MCFlashRetry ----------------------------
(* TLC instance of FlashRetry. *)
EXTENDS FlashRetry
=============================================================================
