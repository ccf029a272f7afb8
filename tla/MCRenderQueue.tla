---------------------------- MODULE MCRenderQueue ----------------------------
(* Small instances; the threads of requests are interchangeable. *)
EXTENDS RenderQueue, TLC

=============================================================================
