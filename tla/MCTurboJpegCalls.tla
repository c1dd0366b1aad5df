-------------------------- MODULE MCTurboJpegCalls --------------------------
(* Two requests at the same time, of every kind of file. *)
EXTENDS TurboJpegCalls
CONSTANTS t1, t2
MCThreads == {t1, t2}
=============================================================================
