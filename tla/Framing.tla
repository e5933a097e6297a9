------------------------------- MODULE Framing -------------------------------
(***************************************************************************)
(* How the server cuts the client's byte stream into frames:               *)
(* rdpcore-server/src/transport.rs, called with read_tpkt_frame during the *)
(* connection sequence and with read_steady_state_frame as the first       *)
(* branch of the session loop's biased select!.                            *)
(*                                                                         *)
(* Bytes arrive in pieces of any size.  A reader is a future that owns the *)
(* bytes it has taken off the socket (`taken`).  When another branch of    *)
(* the select! completes first, the future is dropped, and those bytes     *)
(* with it.  Frames are real encodings, so a reader that has lost its      *)
(* place misreads lengths exactly as the code would.                       *)
(***************************************************************************)
EXTENDS Wire

\* Streams: what a client may send: the TPKT frames of the connection
\* sequence (`early`), then the session's, which are TPKT or fast-path
\* (`steady`), and the places where a piece may end (`cuts`).
\* MaxTears bounds how often a read is dropped halfway.
CONSTANTS Streams, MaxTears

VARIABLES stream, arrived, offset, taken, frames, reader, torn

framingVars == <<stream, arrived, offset, taken, frames, reader, torn>>

Sent == stream.early \o stream.steady
Socket == FlattenSeq(Sent)

\* The connection sequence is over once its frames have been read.
Steady == Len(frames) >= Len(stream.early)

FramingInit ==
  /\ stream \in Streams
  /\ arrived = 0 /\ offset = 0
  /\ taken = <<>> /\ frames = <<>>
  /\ reader = "reading"
  /\ torn = 0

TpktLength(p) == FromBE(SubSeq(p, 3, 4))

\* read_tpkt_frame: a header of four bytes, then what it declares.
read_tpkt_frame(p) == IF Len(p) < 4 THEN 4 ELSE TpktLength(p)

\* read_tpkt_frame_after, with the version byte already taken.
read_tpkt_frame_after(p) == IF Len(p) < 4 THEN 4 ELSE TpktLength(p)

\* Mistake: a length of two bytes is taken for one of one byte.
one_byte_length(p) == IF Len(p) < 2 THEN 2 ELSE p[2] % 128

read_fastpath_frame_after(p) ==
  IF Len(p) < 2 THEN 2
  ELSE IF p[2] < 128 THEN p[2]
  ELSE IF Len(p) < 3 THEN 3 ELSE (p[2] % 128) * 256 + p[3]

read_steady_state_frame(p) ==
  IF p = <<>> THEN 1
  ELSE IF p[1] = 3 THEN read_tpkt_frame_after(p) ELSE read_fastpath_frame_after(p)

\* How long the frame is, as far as the bytes taken tell.
Wanted(p) == IF Steady THEN read_steady_state_frame(p) ELSE read_tpkt_frame(p)

Arrive(end) ==
  /\ end > arrived
  /\ arrived' = end
  /\ UNCHANGED <<stream, offset, taken, frames, reader, torn>>

\* One read_exact makes what progress it can.
Take ==
  /\ reader = "reading"
  /\ Wanted(taken) > Len(taken) /\ arrived > offset
  /\ LET n == Least(Wanted(taken) - Len(taken), arrived - offset)
     IN  /\ taken' = taken \o SubSeq(Socket, offset + 1, offset + n)
         /\ offset' = offset + n
  /\ UNCHANGED <<stream, arrived, frames, reader, torn>>

Complete ==
  /\ reader = "reading"
  /\ Wanted(taken) = Len(taken)
  /\ frames' = Append(frames, taken)
  /\ taken' = <<>>
  /\ UNCHANGED <<stream, arrived, offset, reader, torn>>

\* A length shorter than its own header is an error that ends the session.
Invalid ==
  /\ reader = "reading"
  /\ Wanted(taken) < Len(taken)
  /\ reader' = "failed"
  /\ UNCHANGED <<stream, arrived, offset, taken, frames, torn>>

\* The read is polled first and is pending; another branch is ready.
OtherBranch ==
  /\ reader = "reading" /\ Steady
  /\ Wanted(taken) > Len(taken) /\ arrived = offset
  /\ taken /= <<>> => torn < MaxTears
  /\ taken' = <<>>
  /\ torn' = IF taken = <<>> THEN torn ELSE torn + 1
  /\ UNCHANGED <<stream, arrived, offset, frames, reader>>

FramingNext ==
  \/ \E end \in stream.cuts : Arrive(end)
  \/ Take
  \/ Complete
  \/ Invalid
  \/ OtherBranch

FramingSpec == FramingInit /\ [][FramingNext]_framingVars

----------------------------------------------------------------------------
\* As long as no other branch of the select! has won while a frame was half
\* read, the frames handed on are the client's, in order and whole, whatever
\* pieces they arrived in; none is refused, and none that has arrived
\* completely is held back (transport.rs, session_loop.rs:448).
FramesUnlessTorn ==
  torn = 0 =>
    /\ reader = "reading"
    /\ IsPrefix(frames, Sent)
    /\ arrived > 0 /\ arrived = offset /\ Wanted(taken) > Len(taken) =>
         \A k \in Len(frames) + 1 .. Len(Sent) : Len(FlattenSeq(SubSeq(Sent, 1, k))) > arrived

\* The same without the condition: read_tpkt_frame and its fellows "read one
\* complete unit" (transport.rs:12, 30, 62).
FramesAlwaysWhole == IsPrefix(frames, Sent)
=============================================================================
