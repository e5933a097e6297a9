----------------------------- MODULE MCTransport -----------------------------
(* Two handles over two channels: graphics on the I/O channel and audio. *)
EXTENDS Transport

CONSTANTS io, rdpsnd, display, audio

MCChannel == {io, rdpsnd}
MCSender  == {display, audio}
MCBytes   == 1 .. MaxFrames

MCOneChannel == {io}
MCOneSender  == {display}
=============================================================================
