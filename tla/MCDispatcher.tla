---------------------------- MODULE MCDispatcher ----------------------------
(* Model checking instance of Dispatcher.                                  *)
EXTENDS Dispatcher

CONSTANTS t1, t2
MCCached == {t1}
=============================================================================
