------------------------------ MODULE ExecStream ------------------------------
(* One command run in a container, from POST /exec/<id>/start to its exit     *)
(* code: rest/client.py (FrameReader, stream_frames, _read_until_done), the   *)
(* sockets and pipes of rest/transport.py below it, run_exec of rest/api.py   *)
(* above it.  Output comes as frames of a header and a payload; the transport *)
(* cuts them anywhere.  Bytes are known by their number in the stream.        *)
EXTENDS Integers, Sequences

CONSTANTS
    Frames,     \* how many frames the command may write
    Ends,       \* Ends[i]: number of the last byte of frame i
    Header,     \* FRAME_HEADER
    Block,      \* how much one read of a socket asks for
    Junk        \* the size read where no header is

ASSUME FrameAssumption ==
    /\ Frames \in Nat /\ Header \in Nat \ {0} /\ Block \in Nat \ {0} /\ Junk \in Nat
    /\ Ends \in [0..Frames -> Nat] /\ Ends[0] = 0
    /\ \A i, j \in 0..Frames : i < j => Ends[j] >= Ends[i] + Header

VARIABLES
    transport,  \* "socket", or "pipe": Podman on Windows
    emitted,    \* frames the command has written
    command,    \* whether it runs, as the engine knows it
    arrived,    \* bytes that have reached this host
    peer,       \* the engine's end of the connection
    at,         \* place of the reader
    asked,      \* bytes PeekNamedPipe has reported, which the reader asks for
    taken,      \* bytes taken off the transport, by http.client's own buffer
    fed,        \* bytes fed to FrameReader
    pos,        \* bytes it has consumed; the rest is its _buffer
    out,        \* the payloads it has put out, each as <<first, last>> byte
    window,     \* "open": finished_at is set
    handle,     \* of the pipe, or the descriptor of the socket
    refs,       \* _io_refs: files made of the socket and not closed
    closed,     \* _closed: the socket itself has been
    flaws       \* history: what has kept the reader from seeing all of it

engine == <<transport, emitted, command, arrived, peer>>
reader == <<at, asked, taken, fed, pos, out, window>>
socket == <<handle, refs, closed>>
vars == <<engine, reader, socket, flaws>>

(* The connection ended before the output; the engine could not say whether   *)
(* the command runs; bytes are buffered where no peek sees them; bytes came   *)
(* after the last peek, in flight for longer than TRAILING_READ_SECONDS or    *)
(* while the last poll was answered.                                          *)
Flaws == {"cut", "blind", "ahead", "late"}
Suffer(flaw, occurs) == flaws' = IF occurs THEN flaws \cup {flaw} ELSE flaws

Over == {"done", "failed"}
Reading == {"peek", "take", "poll", "read", "parse"}
\* The connection is closed after the output, or after an error.
Closing == {"closing", "failing"}
Payload == Nat \X Nat
Places == {"connect", "head"} \cup Reading \cup Closing \cup {"code"} \cup Over

Init ==
    /\ transport \in {"socket", "pipe"}
    /\ emitted = 0 /\ command = "running" /\ arrived = 0 /\ peer = "open"
    /\ at = "connect" /\ asked = 0 /\ taken = 0 /\ fed = 0 /\ pos = 0
    /\ out = <<>> /\ window = "shut"
    /\ handle = "shut" /\ refs = 0 /\ closed = FALSE /\ flaws = {}

(* --- the command and the engine ------------------------------------------- *)

Started == at \notin {"connect"}

Write ==
    /\ Started /\ command = "running" /\ emitted < Frames
    /\ emitted' = emitted + 1
    /\ UNCHANGED <<transport, command, arrived, peer, reader, socket, flaws>>

Finish ==
    /\ Started /\ command = "running"
    /\ command' = "ended"
    /\ UNCHANGED <<transport, emitted, arrived, peer, reader, socket, flaws>>

Arrive ==
    /\ peer = "open"
    /\ arrived' \in (arrived + 1)..Ends[emitted]
    /\ Suffer("late", at = "poll" /\ window = "open")
    /\ UNCHANGED <<transport, emitted, command, peer, reader, socket>>

\* A socket is closed at the end of the output; Podman's pipe is not.
HangUp ==
    /\ transport = "socket" /\ command = "ended" /\ arrived = Ends[emitted] /\ peer = "open"
    /\ peer' = "closed"
    /\ UNCHANGED <<transport, emitted, command, arrived, reader, socket, flaws>>

\* The engine stops, or something between drops the connection.
CutOff ==
    /\ Started /\ peer = "open" /\ (command = "running" \/ arrived < Ends[emitted])
    /\ peer' = "closed"
    /\ Suffer("cut", TRUE)
    /\ UNCHANGED <<transport, emitted, command, arrived, reader, socket>>

(* --- the socket object: reference counts ---------------------------------- *)

\* makefile(): the response reads through a file of its own.
OpenFile == refs' = refs + 1 /\ UNCHANGED <<handle, closed>>

\* _release_io: the response is closed, or collected as its caller returns or
\* drops the exception.
ReleaseFile ==
    /\ refs' = refs - 1
    /\ handle' = IF closed /\ refs = 1 THEN "shut" ELSE handle
    /\ UNCHANGED closed

\* Fault: the handle is closed under the file that reads from it.
CloseSocketAtOnce == closed' = TRUE /\ handle' = "shut" /\ UNCHANGED refs

\* close(): the handle stays while a file is open.
CloseSocket ==
    closed' = TRUE /\ handle' = (IF refs > 0 THEN handle ELSE "shut") /\ UNCHANGED refs

(* --- the request ---------------------------------------------------------- *)

Connect ==
    /\ at = "connect"
    /\ \/ at' = "head" /\ handle' = "open" /\ UNCHANGED <<refs, closed>>
       \/ at' = "failed" /\ UNCHANGED socket
    /\ UNCHANGED <<engine, asked, taken, fed, pos, out, window, flaws>>

Fail ==
    /\ at' = "failing"
    /\ UNCHANGED <<engine, asked, taken, fed, pos, out, window, socket, flaws>>

\* getresponse(): the head is read through the buffered file, with as much of
\* the output as is there.  The reply has no length, so http.client closes the
\* socket as soon as it has handed it to the response.
GetResponse ==
    /\ at = "head" /\ refs = 0
    /\ OpenFile
    /\ taken' = arrived
    /\ Suffer("ahead", transport = "pipe" /\ arrived > 0)
    /\ UNCHANGED <<engine, at, asked, fed, pos, out, window>>

HandOver ==
    /\ at = "head" /\ refs > 0
    /\ CloseSocket
    /\ at' = IF transport = "pipe" THEN "peek" ELSE "read"
    /\ UNCHANGED <<engine, asked, taken, fed, pos, out, window, flaws>>

\* The engine refuses, or the connection fails before the head is there.
Refused == at = "head" /\ Fail

(* --- a socket: read to the end -------------------------------------------- *)

\* BufferedReader.read(n) waits for n bytes or the end.
ReadBlock ==
    /\ at = "read" /\ handle = "open"
    /\ \/ arrived >= fed + Block /\ fed' = fed + Block
       \/ peer = "closed" /\ fed < arrived /\ arrived < fed + Block /\ fed' = arrived
    /\ taken' \in fed'..arrived
    /\ at' = "parse"
    /\ UNCHANGED <<engine, asked, pos, out, window, socket, flaws>>

EndOfStream ==
    /\ at = "read" /\ handle = "open" /\ peer = "closed" /\ fed = arrived
    /\ at' = "closing"
    /\ UNCHANGED <<engine, asked, taken, fed, pos, out, window, socket, flaws>>

\* The socket's timeout, or a reset.
ReadFails == at = "read" /\ Fail

(* --- a pipe: peek, poll, and a trailing window ---------------------------- *)

\* What PeekNamedPipe reports; nothing once the pipe is broken.
Waiting == IF peer = "closed" \/ handle = "shut" THEN 0 ELSE arrived - taken

Peek ==
    /\ at = "peek"
    /\ asked' = Waiting
    /\ at' = IF Waiting > 0 THEN "take" ELSE "poll"
    /\ UNCHANGED <<engine, taken, fed, pos, out, window, socket, flaws>>

\* read(asked) is served from the buffer first, and fills the buffer with
\* whatever the pipe holds by then.  The end of a broken pipe may come first.
Take ==
    /\ at = "take" /\ handle = "open"
    /\ fed' = fed + asked
    /\ IF taken >= fed' THEN UNCHANGED taken ELSE taken' \in fed'..arrived
    /\ Suffer("ahead", taken' > fed')
    /\ at' = "parse"
    /\ window' = "shut"
    /\ UNCHANGED <<engine, asked, pos, out, socket>>

TakeNothing ==
    /\ at = "take" /\ handle = "open" /\ peer = "closed"
    /\ at' = "poll"
    /\ UNCHANGED <<engine, asked, taken, fed, pos, out, window, socket, flaws>>

TakeFails == at = "take" /\ peer = "closed" /\ Fail

\* exec_running: a question that fails counts as finished.
Ended(answered) == answered => command = "ended"

\* Fault: the first poll that finds the command finished ends the reading.
SettledAtOnce(answered) == Ended(answered)

\* Fault: nothing but the end of the connection ends the reading of a pipe.
SettledNever(answered) == FALSE

\* The window has passed since the poll that found it finished.
Settled(answered) == window = "open" /\ Ended(answered)

Poll(answered) ==
    /\ at = "poll"
    /\ \/ /\ Settled(answered)
          /\ at' = "closing"
          /\ IF answered
             THEN Suffer("late", window = "open" /\ arrived < Ends[emitted])
             ELSE Suffer("blind", TRUE)
          /\ UNCHANGED window
       \/ /\ at' = "peek"
          /\ Suffer("blind", ~answered)
          /\ window' = IF Ended(answered) THEN "open" ELSE "shut"
    /\ UNCHANGED <<engine, asked, taken, fed, pos, out, socket>>

\* Nothing for as long as the client's timeout, and the command goes on.
GiveUp == at = "poll" /\ command = "running" /\ Fail

(* --- FrameReader.feed ----------------------------------------------------- *)

Boundary(p) == \E k \in 0..(Frames - 1) : Ends[k] = p

\* The size that the four bytes of a header at p give.
SizeAt(p) ==
    IF Boundary(p)
    THEN LET k == CHOOSE k \in 0..(Frames - 1) : Ends[k] = p IN Ends[k + 1] - p - Header
    ELSE Junk

\* A header and the whole of its payload are in the buffer.
Whole == fed - pos >= Header /\ fed - pos >= Header + SizeAt(pos)

ParseFrame ==
    /\ at = "parse" /\ Whole
    /\ pos' = pos + Header + SizeAt(pos)
    /\ out' = Append(out, <<pos + Header + 1, pos'>>)
    /\ UNCHANGED <<engine, at, asked, taken, fed, window, socket, flaws>>

\* Fault: each chunk is parsed by itself.
DropRest ==
    /\ at = "parse" /\ ~Whole
    /\ at' = IF transport = "pipe" THEN "peek" ELSE "read"
    /\ pos' = fed
    /\ UNCHANGED <<engine, asked, taken, fed, out, window, socket, flaws>>

\* What is left of a frame stays in the buffer for the next chunk.
KeepRest ==
    /\ at = "parse" /\ ~Whole
    /\ at' = IF transport = "pipe" THEN "peek" ELSE "read"
    /\ UNCHANGED <<engine, asked, taken, fed, pos, out, window, socket, flaws>>

(* --- the end of the connection -------------------------------------------- *)

\* Fault: a file closed twice, by the end of the body and by its collection, is
\* released twice.
CloseResponseTwice ==
    /\ at \in Closing
    /\ ReleaseFile
    /\ UNCHANGED <<engine, reader, flaws>>

\* http.client closes the response and the socket in the order the reply and
\* the error give: a reply without a length has lost its socket already, the
\* body of a refusal is read to its end and its file closed before the socket
\* is, and a connection lost in the head closes the socket first.
CloseResponse ==
    /\ at \in Closing /\ refs > 0
    /\ ReleaseFile
    /\ UNCHANGED <<engine, reader, flaws>>

CloseConnection ==
    /\ at \in Closing /\ ~closed
    /\ CloseSocket
    /\ UNCHANGED <<engine, reader, flaws>>

Leave ==
    /\ at \in Closing /\ refs = 0 /\ closed
    /\ at' = IF at = "closing" THEN "code" ELSE "failed"
    /\ UNCHANGED <<engine, asked, taken, fed, pos, out, window, socket, flaws>>

(* --- exec_exit_code ------------------------------------------------------- *)

\* Fault: a command that still runs is given the code 0.
ExitCodeAssumed ==
    /\ at = "code"
    /\ at' = "done"
    /\ UNCHANGED <<engine, asked, taken, fed, pos, out, window, socket, flaws>>

\* Asked for apart; a command that still runs has no exit code.
ExitCode ==
    /\ at = "code"
    /\ at' = IF command = "running" THEN "failed" ELSE "done"
    /\ UNCHANGED <<engine, asked, taken, fed, pos, out, window, socket, flaws>>

CodeFails ==
    /\ at = "code"
    /\ at' = "failed"
    /\ UNCHANGED <<engine, asked, taken, fed, pos, out, window, socket, flaws>>

Engine == Write \/ Finish \/ Arrive \/ HangUp \/ CutOff
Parse == ParseFrame \/ KeepRest
Close == CloseResponse \/ CloseConnection \/ Leave
Reader ==
    \/ Connect \/ GetResponse \/ HandOver \/ Refused
    \/ ReadBlock \/ EndOfStream
    \/ Peek \/ Take \/ TakeNothing \/ TakeFails
    \/ (\E answered \in BOOLEAN : Poll(answered))
    \/ Parse \/ Close \/ ExitCode \/ CodeFails
Timeouts == ReadFails \/ GiveUp

Next == Engine \/ Reader \/ Timeouts \/ (at \in Over /\ UNCHANGED vars)

Spec == Init /\ [][Next]_vars

\* The reader goes on, its timeouts run out, and a question that has been put
\* to the engine long enough is answered.
FairSpec ==
    /\ Spec /\ WF_vars(Reader) /\ WF_vars(ReadFails) /\ SF_vars(GiveUp)
    /\ WF_vars(Arrive) /\ SF_vars(\E answered \in BOOLEAN : Poll(answered) /\ at' = "closing")

(* --- properties ----------------------------------------------------------- *)

TypeOK ==
    /\ transport \in {"socket", "pipe"} /\ emitted \in 0..Frames
    /\ command \in {"running", "ended"} /\ arrived \in Nat
    /\ peer \in {"open", "closed"}
    /\ at \in Places
    /\ asked \in Nat /\ taken \in Nat /\ fed \in Nat /\ pos \in Nat
    /\ out \in Seq(Payload) /\ window \in {"open", "shut"}
    /\ handle \in {"open", "shut"} /\ refs \in 0..1 /\ closed \in BOOLEAN
    /\ flaws \subseteq Flaws

\* What the reader puts out are payloads of the command's frames, whole, in
\* order and none left out, wherever the transport cuts the bytes (FrameReader).
FramesWhole ==
    /\ Len(out) <= emitted
    /\ \A i \in 1..Len(out) : out[i] = <<Ends[i - 1] + Header + 1, Ends[i]>>

\* An exit code is handed back only with all the output the command wrote, as
\* long as the connection holds, the engine answers the polls, the output comes
\* while the reader looks, and no byte is buffered where a peek does not see it
\* (_read_until_done).
SuccessIsComplete ==
    at = "done" =>
        /\ command = "ended"
        /\ flaws = {} => Len(out) = emitted

Result == IF at = "done" THEN "code" ELSE IF at = "failed" THEN "error" ELSE "pending"

Delivery == INSTANCE OutputDelivery WITH
                Pieces <- Frames, written <- emitted, given <- Len(out),
                result <- Result, excused <- flaws # {}

\* Every step is one of the delivery or invisible to it: a frame is put out
\* once, after it was written and before the result; the result is final, and
\* an exit code is that of a command that has ended and whose output has come,
\* however the bytes are cut, buffered and polled for (run_exec).
MeetsDelivery == Delivery!DeliverySpec

\* SuccessIsComplete whatever was buffered: what _read_until_done says of itself.
PipeIsDrained ==
    at = "done" /\ flaws \subseteq {"ahead"} => Len(out) = emitted

\* The handle stays open under the reader and under any file made of it, and
\* does not outlive the call, whichever of the two is closed first (_PipeSocket).
HandleKept ==
    /\ at \in Reading \/ refs > 0 => handle = "open"
    /\ at \in Over => handle = "shut"

\* The call comes back: on a pipe that never ends, and on a socket whose
\* engine says nothing more.
ReaderReturns == at = "head" ~> at \in Over
===============================================================================
