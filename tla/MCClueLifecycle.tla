--------------------------- MODULE MCClueLifecycle ---------------------------
(* Small instances of ClueLifecycle: one lead with a long history, or an    *)
(* invalid lead before a valid one.                                         *)
EXTENDS ClueLifecycle

MCMaxEvents == <<3, 3>>
=============================================================================
