-------------------------- MODULE MCFrameTransport --------------------------
(* Small instances of FrameTransport: a request whose answer is awaited and a frame
   of a stream. *)
EXTENDS FrameTransport

CONSTANTS request, stream
=============================================================================
