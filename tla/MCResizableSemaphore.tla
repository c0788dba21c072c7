----------------------- MODULE MCResizableSemaphore -----------------------
(* ResizableSemaphore on a handful of coroutines, for TLC. *)
EXTENDS ResizableSemaphore, TLC
CONSTANTS a, b, c, d
===========================================================================
