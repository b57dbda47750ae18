---------------------------- MODULE PreviewPipe -----------------------------
(***************************************************************************)
(* The preview pipe of an enrollment: the daemon writes frames and guidance *)
(* lines into it (push_preview, push_guidance of daemon/src/enroll.rs), the *)
(* app's PreviewReader (app/faceid_app/onboarding.py) takes them apart      *)
(* again.  The pipe does not block: a write that does not fit stops in the *)
(* middle and is the last one.  A byte is a record of what it is and of the *)
(* frame it belongs to; the four bytes of a length are two.                *)
(***************************************************************************)
EXTENDS Integers, Sequences

CONSTANTS
    None,
    Contents,    \* what is written: a set of [kind, size], "J" a frame, "G" guidance
    MaxFrame,    \* PreviewReader.MAX_FRAME
    Capacity,    \* what the pipe holds
    MaxFrames    \* bound on the frames written

ASSUME PipeAssumption ==
    /\ Contents \subseteq [kind : {"J", "G"}, size : Nat]
    /\ {MaxFrame, Capacity, MaxFrames} \subseteq Nat

VARIABLES
    pipe,      \* open: the daemon still writes; data: bytes to be read; sent: frames
    reader,    \* the PreviewReader, or None
    frames     \* frames written so far, to any pipe

pipeVars == <<pipe, reader, frames>>

\* The next frame: n tells equal ones apart.
Frames == {[kind |-> c.kind, size |-> c.size, n |-> frames + 1] : c \in Contents}

Payload(f) == [i \in 1..f.size |-> [what |-> "payload", of |-> f]]

Bytes(f) == <<[what |-> "type", of |-> f],
              [what |-> "length", of |-> f], [what |-> "length", of |-> f]>> \o Payload(f)

NewPipe   == [open |-> TRUE, data |-> <<>>, sent |-> <<>>]
NewReader == [open |-> TRUE, stage |-> "type", want |-> 1, buf |-> <<>>,
              kind |-> "J", emitted |-> <<>>]

InitPipe == pipe = [NewPipe EXCEPT !.open = FALSE] /\ reader = None /\ frames = 0

\* push_preview, push_guidance: the type, the length, the payload, each whole
\* or not at all but for a long payload.
Write(f) ==
    LET room == Capacity - Len(pipe.data)
        cut  == IF room = 2 THEN 1 ELSE room
        fits == Len(Bytes(f)) <= room
    IN  /\ pipe.open /\ frames < MaxFrames /\ frames' = frames + 1
        /\ pipe' = [open |-> fits, sent |-> Append(pipe.sent, f),
                    data |-> pipe.data \o SubSeq(Bytes(f), 1, IF fits THEN Len(Bytes(f)) ELSE cut)]
        /\ UNCHANGED reader

\* Nobody reads any more, and what was written is lost. GLib does not close a
\* stream with a read pending, so the read end may stay open for a while: nobody
\* looks at what is in it, and when a write fails is left open (Unread).
DropReader ==
    /\ reader' = None
    /\ pipe' = [pipe EXCEPT !.data = <<>>, !.sent = <<>>]

\* Session::close_preview
ClosedEnd(p) == [p EXCEPT !.open = FALSE]

\* What the reader does with the piece it was waiting for.
Piece(r) ==
    LET chunk == SubSeq(r.buf, 1, r.want)
        rest  == [r EXCEPT !.buf = SubSeq(@, r.want + 1, Len(@))]
    IN  CASE r.stage = "type" ->
               IF chunk[1].what # "type" THEN [rest EXCEPT !.open = FALSE]
               ELSE [rest EXCEPT !.kind = chunk[1].of.kind, !.want = 2, !.stage = "length"]
          [] r.stage = "length" ->
               LET size == chunk[1].of.size IN
               IF size = 0 \/ size > MaxFrame THEN [rest EXCEPT !.open = FALSE]
               ELSE [rest EXCEPT !.want = size, !.stage = "payload"]
          [] r.stage = "payload" ->
               [rest EXCEPT !.emitted = Append(@, [kind |-> r.kind, payload |-> chunk]),
                            !.want = 1, !.stage = "type"]

\* All the pieces the buffer holds, until one closes the reader: after[n] is
\* the reader after n turns of the loop, of which there are at most Len(r.buf).
Pieces(r) ==
    LET after[n \in 0..Len(r.buf)] ==
            IF n = 0 THEN r
            ELSE LET p == after[n - 1]
                 IN  IF p.open /\ Len(p.buf) >= p.want THEN Piece(p) ELSE p
    IN  after[Len(r.buf)]

\* What was left in the buffer is forgotten.
BadRead ==
    /\ reader # None /\ reader.open
    /\ \/ \E k \in 1..Len(pipe.data) :
            /\ reader' = Pieces([reader EXCEPT !.buf = SubSeq(pipe.data, 1, k)])
            /\ pipe' = [pipe EXCEPT !.data = SubSeq(@, k + 1, Len(@))]
       \/ /\ pipe.data = <<>> /\ ~pipe.open
          /\ reader' = [reader EXCEPT !.open = FALSE] /\ UNCHANGED pipe
    /\ UNCHANGED frames

\* _on_read: some of the bytes, or the end of the file.
Read ==
    /\ reader # None /\ reader.open
    /\ \/ \E k \in 1..Len(pipe.data) :
            /\ reader' = Pieces([reader EXCEPT !.buf = @ \o SubSeq(pipe.data, 1, k)])
            /\ pipe' = [pipe EXCEPT !.data = SubSeq(@, k + 1, Len(@))]
       \/ /\ pipe.data = <<>> /\ ~pipe.open
          /\ reader' = [reader EXCEPT !.open = FALSE] /\ UNCHANGED pipe
    /\ UNCHANGED frames

\* However the bytes are cut up on the way and wherever the daemon stops, the
\* reader shows the frames that were written: whole, in order, none twice and
\* none made up of two.
FramesWhole ==
    reader # None =>
        /\ Len(reader.emitted) <= Len(pipe.sent)
        /\ \A i \in 1..Len(reader.emitted) :
              reader.emitted[i] = [kind |-> pipe.sent[i].kind, payload |-> Payload(pipe.sent[i])]
=============================================================================
