---------------------------- MODULE MCCanvasSync ----------------------------
(* Model checking of CanvasSync: one asset, two concurrent invocations.    *)
EXTENDS CanvasSync
============================================================================
