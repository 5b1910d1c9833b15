-------------------------- MODULE ExecStream_proofs --------------------------
(* Proofs about ExecStream, for any number of frames of any length, cut       *)
(* anywhere, on a socket and on a pipe.                                       *)
EXTENDS ExecStream, TLAPS

(* --- what the stream is --------------------------------------------------- *)

\* Bytes are read no sooner than they arrive, nor arrive sooner than written.
InOrder ==
    /\ pos <= fed /\ fed <= taken /\ taken <= arrived /\ arrived <= Ends[emitted]
    /\ at = "take" => fed + asked <= arrived

\* The buffer starts at the end of the last frame put out.
AtBoundary == Len(out) <= Frames /\ pos = Ends[Len(out)]

\* Outside the loop of feed, no frame is left whole in the buffer.
Parsed == at # "parse" => ~Whole

\* Later frames end later.
LEMMA EndsGrow ==
    ASSUME NEW i \in 0..Frames, NEW j \in 0..Frames
    PROVE  /\ Ends[i] \in Nat /\ Ends[j] \in Nat
           /\ i <= j => Ends[i] <= Ends[j]
           /\ Ends[i] <= Ends[j] => i <= j
           /\ i < j => Ends[i] + Header <= Ends[j]
           /\ Ends[i] = Ends[j] => i = j
  BY FrameAssumption

\* The header at the end of frame i - 1 gives the length of frame i.
LEMMA SizeAtBoundary ==
    ASSUME NEW k \in 0..(Frames - 1)
    PROVE  SizeAt(Ends[k]) = Ends[k + 1] - Ends[k] - Header
<1> DEFINE Pick == CHOOSE j \in 0..(Frames - 1) : Ends[j] = Ends[k]
<1>1. Boundary(Ends[k])
  BY FrameAssumption DEF Boundary
<1>2. Pick \in 0..(Frames - 1) /\ Ends[Pick] = Ends[k]
  OBVIOUS
<1>3. Pick = k
  BY <1>2, EndsGrow, FrameAssumption
<1> QED
  BY <1>1, <1>3 DEF SizeAt

\* A size is a number of bytes, wherever it is read.
LEMMA SizeIsNat ==
    ASSUME NEW p \in Nat
    PROVE  SizeAt(p) \in Nat
<1>1. CASE Boundary(p)
  <2>1. PICK k \in 0..(Frames - 1) : Ends[k] = p
    BY <1>1 DEF Boundary
  <2>2. SizeAt(p) = Ends[k + 1] - Ends[k] - Header
    BY <2>1, SizeAtBoundary
  <2>3. k \in 0..Frames /\ k + 1 \in 0..Frames /\ k < k + 1
    BY FrameAssumption
  <2> QED
    BY <2>2, <2>3, EndsGrow, FrameAssumption
<1>2. CASE ~Boundary(p)
  BY <1>2, FrameAssumption DEF SizeAt
<1> QED
  BY <1>1, <1>2

\* Whether a frame is whole depends on the buffer alone.
LEMMA SameBuffer ==
    ASSUME pos' = pos, fed' = fed
    PROVE  Whole' = Whole
  BY DEF Whole, SizeAt, Boundary

(* --- the invariant -------------------------------------------------------- *)

\* Where the handle and the file on it stand.
Held ==
    /\ at \notin {"connect", "failed"} => (handle = "open" <=> refs > 0 \/ ~closed)
    /\ at = "connect" => handle = "shut" /\ refs = 0
    /\ at \in {"connect", "head"} => ~closed
    /\ at \in Reading => refs > 0
    /\ at = "code" => refs = 0 /\ closed
    /\ at \in Over => handle = "shut" /\ refs = 0
    /\ at = "read" => transport = "socket"
    /\ at \in {"peek", "take", "poll"} => transport = "pipe"

\* What the engine's hanging up means, and what a settling reader has seen.
Ending ==
    /\ peer = "closed" /\ "cut" \notin flaws =>
           transport = "socket" /\ command = "ended" /\ arrived = Ends[emitted]
    /\ window = "open" /\ "blind" \notin flaws => command = "ended"
    /\ transport = "pipe" /\ "ahead" \notin flaws => taken = fed
    /\ at = "poll" /\ window = "open" /\ flaws = {} => fed = arrived

\* What the reader knows when it leaves the stream.
Drained ==
    /\ at \in {"closing", "code", "done"} /\ flaws = {} =>
          command = "ended" /\ fed = Ends[emitted]
    /\ at = "done" => command = "ended"

StreamInv ==
    /\ TypeOK /\ InOrder /\ AtBoundary /\ FramesWhole /\ Parsed
    /\ Held /\ Ending /\ Drained

USE DEF engine, reader, socket, vars, Suffer, Flaws

LEMMA InitInv == Init => StreamInv
<1> SUFFICES ASSUME Init PROVE StreamInv
  OBVIOUS
<1>1. TypeOK
  BY FrameAssumption DEF Init, TypeOK, Places, Reading, Closing, Over
<1>2. InOrder /\ AtBoundary /\ FramesWhole
  BY FrameAssumption DEF Init, InOrder, AtBoundary, FramesWhole
<1>3. Parsed
  BY FrameAssumption, SizeIsNat DEF Init, Parsed, Whole
<1>4. Held /\ Ending /\ Drained
  BY FrameAssumption DEF Init, Held, Ending, Drained, Reading, Over
<1> QED
  BY <1>1, <1>2, <1>3, <1>4 DEF StreamInv

LEMMA EngineKeepsInv == StreamInv /\ Engine => StreamInv'
<1> SUFFICES ASSUME StreamInv, Engine PROVE StreamInv'
  OBVIOUS
<1> USE DEF StreamInv
<1>0. Ends[emitted] \in Nat /\ emitted \in 0..Frames
  BY EndsGrow DEF TypeOK
<1>1. CASE Write
  <2>1. emitted + 1 \in 0..Frames /\ Ends[emitted + 1] \in Nat
        /\ Ends[emitted] <= Ends[emitted + 1]
    BY <1>1, FrameAssumption, EndsGrow DEF Write, TypeOK
  <2>2. TypeOK' /\ InOrder' /\ AtBoundary'
    BY <1>0, <1>1, <2>1 DEF Write, TypeOK, InOrder, AtBoundary
  <2>3. FramesWhole' /\ Parsed' /\ Held'
    BY <1>0, <1>1, <2>1, SameBuffer DEF Write, TypeOK, FramesWhole, Parsed, Held
  <2>4. Ending' /\ Drained'
    BY <1>0, <1>1, <2>1 DEF Write, TypeOK, Ending, Drained
  <2> QED
    BY <2>2, <2>3, <2>4
<1>2. CASE Finish
  BY <1>0, <1>2, SameBuffer DEF Finish, TypeOK, InOrder, AtBoundary, FramesWhole, Parsed, Held,
                    Ending, Drained
<1>3. CASE Arrive
  <2>1. TypeOK' /\ InOrder' /\ AtBoundary'
    BY <1>0, <1>3 DEF Arrive, TypeOK, InOrder, AtBoundary
  <2>2. FramesWhole' /\ Parsed' /\ Held'
    BY <1>3, SameBuffer DEF Arrive, FramesWhole, Parsed, Held
  <2>3. Ending' /\ Drained'
    BY <1>0, <1>3 DEF Arrive, TypeOK, InOrder, Ending, Drained
  <2> QED
    BY <2>1, <2>2, <2>3
<1>4. CASE HangUp
  BY <1>0, <1>4, SameBuffer DEF HangUp, TypeOK, InOrder, AtBoundary, FramesWhole, Parsed, Held,
                    Ending, Drained
<1>5. CASE CutOff
  BY <1>0, <1>5, SameBuffer DEF CutOff, TypeOK, InOrder, AtBoundary, FramesWhole, Parsed, Held,
                    Ending, Drained
<1> QED
  BY <1>1, <1>2, <1>3, <1>4, <1>5 DEF Engine

\* The frame at the head of a buffer that holds it whole is the next one.
LEMMA NextFrame ==
    ASSUME StreamInv, Whole
    PROVE  /\ Len(out) < emitted
           /\ pos + Header + SizeAt(pos) = Ends[Len(out) + 1]
           /\ Ends[Len(out) + 1] <= fed
<1> USE DEF StreamInv
<1>1. Len(out) \in 0..Frames /\ emitted \in 0..Frames /\ pos = Ends[Len(out)]
  BY DEF TypeOK, AtBoundary
<1>6. pos \in Nat /\ fed \in Nat /\ Ends[emitted] \in Nat /\ fed <= Ends[emitted]
  BY <1>1, EndsGrow DEF InOrder, TypeOK
<1>7. SizeAt(pos) \in Nat /\ fed - pos >= Header + SizeAt(pos)
  BY <1>6, SizeIsNat DEF Whole
<1>2. pos + Header <= Ends[emitted]
  BY <1>6, <1>7, FrameAssumption
<1>3. Len(out) < emitted
  BY <1>1, <1>2, EndsGrow, FrameAssumption
<1>4. Len(out) \in 0..(Frames - 1) /\ Len(out) + 1 \in 0..Frames
  BY <1>1, <1>3, FrameAssumption
<1>5. SizeAt(pos) = Ends[Len(out) + 1] - pos - Header
  BY <1>1, <1>4, SizeAtBoundary
<1>8. Ends[Len(out) + 1] \in Nat
  BY <1>4, EndsGrow
<1>9. pos + Header + SizeAt(pos) = Ends[Len(out) + 1]
  BY <1>5, <1>6, <1>8, FrameAssumption
<1> QED
  BY <1>3, <1>6, <1>7, <1>8, <1>9, FrameAssumption

LEMMA ParseKeepsInv == StreamInv /\ Parse => StreamInv'
<1> SUFFICES ASSUME StreamInv, Parse PROVE StreamInv'
  OBVIOUS
<1> USE DEF StreamInv
<1>1. CASE ParseFrame
  <2>1. Whole /\ pos' = Ends[Len(out) + 1] /\ Len(out) < emitted /\ pos' <= fed
    BY <1>1, NextFrame DEF ParseFrame
  <2>2. pos = Ends[Len(out)] /\ out' = Append(out, <<pos + Header + 1, pos'>>)
    BY <1>1 DEF ParseFrame, AtBoundary
  <2>3. Len(out) + 1 \in 0..Frames /\ pos' \in Nat
    BY <2>1, EndsGrow, FrameAssumption DEF TypeOK
  <2>9. <<pos + Header + 1, pos'>> \in Payload
    BY <2>3, FrameAssumption DEF TypeOK, Payload
  <2>4. out' \in Seq(Payload) /\ Len(out') = Len(out) + 1
        /\ \A i \in 1..Len(out) : out'[i] = out[i]
        /\ out'[Len(out) + 1] = <<pos + Header + 1, pos'>>
    BY <2>2, <2>9 DEF TypeOK
  <2>5. TypeOK'
    BY <1>1, <2>3, <2>4 DEF ParseFrame, TypeOK
  <2>6. InOrder' /\ AtBoundary'
    BY <1>1, <2>1, <2>3, <2>4 DEF ParseFrame, InOrder, AtBoundary
  <2>7. FramesWhole'
    <3>1. ASSUME NEW i \in 1..Len(out')
          PROVE  out'[i] = <<Ends[i - 1] + Header + 1, Ends[i]>>
      BY <3>1, <2>1, <2>2, <2>4 DEF FramesWhole, TypeOK
    <3>2. emitted' = emitted
      BY <1>1 DEF ParseFrame
    <3> QED
      BY <3>1, <3>2, <2>1, <2>4 DEF FramesWhole, TypeOK
  <2>8. Parsed' /\ Held' /\ Ending' /\ Drained'
    BY <1>1 DEF ParseFrame, Parsed, Held, Ending, Drained
  <2> QED
    BY <2>5, <2>6, <2>7, <2>8
<1>2. CASE KeepRest
  BY <1>2, SameBuffer DEF KeepRest, TypeOK, InOrder, AtBoundary, FramesWhole, Parsed, Held,
              Ending, Drained, Places, Reading, Closing, Over
<1> QED
  BY <1>1, <1>2 DEF Parse

LEMMA FailKeepsInv ==
    ASSUME StreamInv, Fail, at \in {"head"} \cup Reading, at # "parse"
    PROVE  StreamInv'
<1> USE DEF StreamInv, Fail, Places, Reading, Closing, Over
<1>1. TypeOK' /\ InOrder' /\ AtBoundary' /\ FramesWhole'
  BY DEF TypeOK, InOrder, AtBoundary, FramesWhole
<1>2. Parsed'
  BY SameBuffer DEF Parsed, TypeOK, Held
<1>3. Held' /\ Ending' /\ Drained'
  BY DEF Held, Ending, Drained
<1> QED
  BY <1>1, <1>2, <1>3

LEMMA RequestKeepsInv ==
    StreamInv /\ (Connect \/ GetResponse \/ HandOver) => StreamInv'
<1> SUFFICES ASSUME StreamInv, Connect \/ GetResponse \/ HandOver PROVE StreamInv'
  OBVIOUS
<1> USE DEF StreamInv, OpenFile, CloseSocket, Places, Reading, Closing, Over
<1>1. CASE Connect
  BY <1>1, SameBuffer DEF Connect, TypeOK, InOrder, AtBoundary, FramesWhole, Parsed, Held,
              Ending, Drained
<1>2. CASE GetResponse
  BY <1>2, SameBuffer DEF GetResponse, TypeOK, InOrder, AtBoundary, FramesWhole, Parsed, Held,
              Ending, Drained
<1>3. CASE HandOver
  BY <1>3, SameBuffer DEF HandOver, TypeOK, InOrder, AtBoundary, FramesWhole, Parsed, Held,
              Ending, Drained
<1> QED
  BY <1>1, <1>2, <1>3

LEMMA SocketKeepsInv == StreamInv /\ (ReadBlock \/ EndOfStream) => StreamInv'
<1> SUFFICES ASSUME StreamInv, ReadBlock \/ EndOfStream PROVE StreamInv'
  OBVIOUS
<1> USE DEF StreamInv, Places, Reading, Closing, Over
<1>1. CASE ReadBlock
  <2>1. TypeOK' /\ InOrder'
    BY <1>1, FrameAssumption DEF ReadBlock, TypeOK, InOrder
  <2>2. AtBoundary' /\ FramesWhole' /\ Parsed' /\ Held'
    BY <1>1 DEF ReadBlock, AtBoundary, FramesWhole, Parsed, Held
  <2>3. Ending' /\ Drained'
    BY <1>1 DEF ReadBlock, Held, Ending, Drained
  <2> QED
    BY <2>1, <2>2, <2>3
<1>2. CASE EndOfStream
  BY <1>2, SameBuffer DEF EndOfStream, TypeOK, InOrder, AtBoundary, FramesWhole, Parsed, Held,
              Ending, Drained
<1> QED
  BY <1>1, <1>2

LEMMA PipeKeepsInv ==
    StreamInv /\ (Peek \/ Take \/ TakeNothing \/ \E answered \in BOOLEAN : Poll(answered))
        => StreamInv'
<1> SUFFICES ASSUME StreamInv,
                    Peek \/ Take \/ TakeNothing \/ \E answered \in BOOLEAN : Poll(answered)
             PROVE  StreamInv'
  OBVIOUS
<1> USE DEF StreamInv, Places, Reading, Closing, Over
<1>1. CASE Peek
  BY <1>1, SameBuffer DEF Peek, Waiting, TypeOK, InOrder, AtBoundary, FramesWhole, Parsed, Held,
              Ending, Drained
<1>2. CASE Take
  <2>1. TypeOK' /\ InOrder'
    BY <1>2 DEF Take, TypeOK, InOrder
  <2>2. AtBoundary' /\ FramesWhole' /\ Parsed' /\ Held'
    BY <1>2 DEF Take, AtBoundary, FramesWhole, Parsed, Held
  <2>3. Ending' /\ Drained'
    BY <1>2, <2>1 DEF Take, TypeOK, InOrder, Held, Ending, Drained
  <2> QED
    BY <2>1, <2>2, <2>3
<1>3. CASE TakeNothing
  BY <1>3, SameBuffer DEF TakeNothing, TypeOK, InOrder, AtBoundary, FramesWhole, Parsed, Held,
              Ending, Drained
<1>4. ASSUME NEW answered \in BOOLEAN, Poll(answered)
      PROVE  StreamInv'
  <2>1. Ends[emitted] \in Nat
    BY EndsGrow DEF TypeOK
  <2>2. InOrder' /\ AtBoundary' /\ FramesWhole'
    BY <1>4 DEF Poll, TypeOK, InOrder, AtBoundary, FramesWhole
  <2>3. Parsed' /\ Held'
    BY <1>4, SameBuffer DEF Poll, Parsed, Held
  <2>4. TypeOK'
    <3>1. flaws' \subseteq Flaws
      BY <1>4 DEF Poll, TypeOK
    <3>2. window' \in {"open", "shut"} /\ handle' \in {"open", "shut"} /\ refs' \in 0..1
          /\ at' \in Places
      BY <1>4 DEF Poll, TypeOK
    <3> QED
      BY <1>4, <3>1, <3>2 DEF Poll, TypeOK
  <2>5. Ending'
    BY <1>4 DEF Poll, Settled, Ended, TypeOK, Held, Ending
  <2>6. Drained'
    <3>1. ASSUME at' = "closing", flaws' = {}
          PROVE  command = "ended" /\ fed = Ends[emitted]
      <4>1. answered /\ flaws = {} /\ window = "open" /\ ~(arrived < Ends[emitted])
        BY <1>4, <3>1 DEF Poll, Settled
      <4> QED
        BY <1>4, <2>1, <4>1 DEF Poll, Ending, InOrder, TypeOK
    <3> QED
      BY <1>4, <3>1 DEF Poll, Drained
  <2> QED
    BY <2>2, <2>3, <2>4, <2>5, <2>6
<1> QED
  BY <1>1, <1>2, <1>3, <1>4

LEMMA CloseKeepsInv == StreamInv /\ Close => StreamInv'
<1> SUFFICES ASSUME StreamInv, Close PROVE StreamInv'
  OBVIOUS
<1> USE DEF StreamInv, Close, CloseResponse, CloseConnection, Leave, ReleaseFile, CloseSocket,
            Places, Reading, Closing, Over
<1>1. TypeOK'
  <2>1. CASE CloseResponse
    BY <2>1 DEF TypeOK
  <2>2. CASE CloseConnection
    <3>1. closed' \in BOOLEAN /\ handle' \in {"open", "shut"}
      BY <2>2 DEF TypeOK
    <3> QED
      BY <2>2, <3>1 DEF TypeOK
  <2>3. CASE Leave
    BY <2>3 DEF TypeOK
  <2> QED
    BY <2>1, <2>2, <2>3
<1>5. InOrder' /\ AtBoundary' /\ FramesWhole'
  BY DEF TypeOK, InOrder, AtBoundary, FramesWhole
<1>2. Parsed'
  BY SameBuffer DEF Parsed
<1>3. Held'
  <2>1. CASE CloseResponse
    BY <2>1 DEF TypeOK, Held
  <2>2. CASE CloseConnection
    BY <2>2 DEF TypeOK, Held
  <2>3. CASE Leave
    BY <2>3 DEF TypeOK, Held
  <2> QED
    BY <2>1, <2>2, <2>3
<1>4. Ending' /\ Drained'
  BY DEF TypeOK, Held, Ending, Drained
<1> QED
  BY <1>1, <1>2, <1>3, <1>4, <1>5

LEMMA CodeKeepsInv == StreamInv /\ (ExitCode \/ CodeFails) => StreamInv'
<1> SUFFICES ASSUME StreamInv, ExitCode \/ CodeFails PROVE StreamInv'
  OBVIOUS
<1> USE DEF StreamInv, ExitCode, CodeFails, Places, Reading, Closing, Over
<1>1. TypeOK' /\ InOrder' /\ AtBoundary' /\ FramesWhole'
  BY DEF TypeOK, InOrder, AtBoundary, FramesWhole
<1>2. Parsed'
  BY SameBuffer DEF Parsed
<1>3. Held' /\ Ending' /\ Drained'
  BY DEF TypeOK, Held, Ending, Drained
<1> QED
  BY <1>1, <1>2, <1>3

LEMMA NextKeepsInv == StreamInv /\ [Next]_vars => StreamInv'
<1> SUFFICES ASSUME StreamInv, [Next]_vars PROVE StreamInv'
  OBVIOUS
<1>1. CASE Reader
  <2>1. CASE Refused \/ TakeFails
    BY <2>1, FailKeepsInv DEF Refused, TakeFails, Reading
  <2> QED
    BY <1>1, <2>1, RequestKeepsInv, SocketKeepsInv, PipeKeepsInv, ParseKeepsInv, CloseKeepsInv,
       CodeKeepsInv
       DEF Reader
<1>2. CASE Timeouts
  BY <1>2, FailKeepsInv DEF Timeouts, ReadFails, GiveUp, Reading
<1>3. CASE UNCHANGED vars
  BY <1>3, SameBuffer DEF StreamInv, TypeOK, InOrder, AtBoundary, FramesWhole, Parsed, Held,
              Ending, Drained
<1> QED
  BY <1>1, <1>2, <1>3, EngineKeepsInv DEF Next

(* --- theorems ------------------------------------------------------------- *)

LEMMA Invariance == Spec => []StreamInv
<1> QED
  BY InitInv, NextKeepsInv, PTL DEF Spec

\* Every variable keeps its type.
THEOREM TypesHold == Spec => []TypeOK
<1>1. StreamInv => TypeOK
  BY DEF StreamInv
<1> QED
  BY <1>1, Invariance, PTL

\* Frames of any length, cut anywhere, come out whole, in order and none left
\* out (FrameReader.feed).
THEOREM FramesComeOutWhole == Spec => []FramesWhole
<1>1. StreamInv => FramesWhole
  BY DEF StreamInv
<1> QED
  BY <1>1, Invariance, PTL

\* The transport's handle outlives the close of the connection while its file
\* is read from, and does not outlive the call (_PipeSocket).
THEOREM HandleHeld == Spec => []HandleKept
<1>1. StreamInv => HandleKept
  BY DEF StreamInv, TypeOK, Held, HandleKept, Reading, Over
<1> QED
  BY <1>1, Invariance, PTL

\* What is left when nothing was lost on the way is no whole frame, so nothing.
LEMMA InvComplete == StreamInv => SuccessIsComplete
<1> SUFFICES ASSUME StreamInv, at = "done", flaws = {}
             PROVE  Len(out) = emitted
  BY DEF StreamInv, Drained, SuccessIsComplete
<1>1. fed = Ends[emitted] /\ ~Whole /\ pos = Ends[Len(out)]
  BY DEF StreamInv, Drained, Parsed, AtBoundary
<1>2. Len(out) \in 0..Frames /\ emitted \in 0..Frames /\ Len(out) <= emitted
  BY DEF StreamInv, TypeOK, AtBoundary, FramesWhole
<1>3. CASE Len(out) < emitted
  <2>1. Len(out) \in 0..(Frames - 1) /\ Len(out) + 1 \in 0..Frames
    BY <1>2, <1>3, FrameAssumption
  <2>2. SizeAt(pos) = Ends[Len(out) + 1] - pos - Header
    BY <1>1, <2>1, SizeAtBoundary
  <2>3. Ends[Len(out) + 1] <= Ends[emitted] /\ pos + Header <= Ends[Len(out) + 1]
    BY <1>1, <1>2, <1>3, <2>1, EndsGrow
  <2> QED
    BY <1>1, <1>2, <2>1, <2>2, <2>3, EndsGrow, FrameAssumption DEF Whole
<1> QED
  BY <1>2, <1>3

\* An exit code comes with the whole output, unless the connection was cut, a
\* poll went unanswered, or bytes sat where a peek does not look or came after
\* the last one (_read_until_done, exec_exit_code).
THEOREM Complete == Spec => []SuccessIsComplete
  BY InvComplete, Invariance, PTL

(* --- the delivery --------------------------------------------------------- *)

USE DEF Delivery!deliveryVars

\* A step that shows nothing but a flaw.
LEMMA Unseen ==
    ASSUME UNCHANGED <<emitted, command, Len(out), Result>>, flaws \subseteq flaws'
    PROVE  [Delivery!DeliveryNext]_(Delivery!deliveryVars)
<1>1. CASE flaws' = {}
  BY <1>1
<1>2. CASE flaws' # {}
  <2>1. Delivery!Excuse
    BY <1>2 DEF Delivery!Excuse
  <2> QED
    BY <2>1 DEF Delivery!DeliveryNext
<1> QED
  BY <1>1, <1>2

\* A failure is the one result of a call that was pending.
LEMMA FailDelivers ==
    ASSUME Result = "pending", at' = "failed", UNCHANGED <<emitted, command, out, flaws>>
    PROVE  [Delivery!DeliveryNext]_(Delivery!deliveryVars)
<1>1. Delivery!Error
  BY DEF Result, Delivery!Error
<1> QED
  BY <1>1 DEF Delivery!DeliveryNext

LEMMA CloseDelivers ==
    ASSUME Close
    PROVE  [Delivery!DeliveryNext]_(Delivery!deliveryVars)
<1>1. CASE CloseResponse \/ CloseConnection
  BY <1>1, Unseen DEF CloseResponse, CloseConnection, Result
<1>2. CASE Leave /\ at = "closing"
  BY <1>2, Unseen DEF Leave, Result
<1>3. CASE Leave /\ at # "closing"
  BY <1>3, FailDelivers DEF Leave, Closing, Result
<1> QED
  BY <1>1, <1>2, <1>3 DEF Close

LEMMA EngineDelivers ==
    ASSUME StreamInv, Engine
    PROVE  [Delivery!DeliveryNext]_(Delivery!deliveryVars)
<1>1. CASE Write
  <2>1. Delivery!Write
    BY <1>1 DEF Write, Result, Delivery!Write
  <2> QED
    BY <2>1 DEF Delivery!DeliveryNext
<1>2. CASE Finish
  <2>1. Delivery!Finish
    BY <1>2 DEF Finish, Result, Delivery!Finish
  <2> QED
    BY <2>1 DEF Delivery!DeliveryNext
<1>3. CASE Arrive \/ HangUp \/ CutOff
  BY <1>3, Unseen DEF Arrive, HangUp, CutOff, Result
<1> QED
  BY <1>1, <1>2, <1>3 DEF Engine

LEMMA ParseDelivers ==
    ASSUME StreamInv, Parse
    PROVE  [Delivery!DeliveryNext]_(Delivery!deliveryVars)
<1>1. CASE ParseFrame
  <2>1. Len(out) < emitted
    BY <1>1, NextFrame DEF ParseFrame
  <2>2. Len(out') = Len(out) + 1
    <3>1. out' = Append(out, <<pos + Header + 1, pos'>>)
      BY <1>1 DEF ParseFrame
    <3>2. pos \in Nat /\ SizeAt(pos) \in Nat
      BY SizeIsNat DEF StreamInv, TypeOK
    <3>3. <<pos + Header + 1, pos'>> \in Payload
      BY <1>1, <3>2, FrameAssumption DEF ParseFrame, Payload
    <3> QED
      BY <3>1, <3>3 DEF StreamInv, TypeOK
  <2>3. Result = "pending" /\ Result' = "pending"
    BY <1>1 DEF ParseFrame, Result
  <2>4. Delivery!Give
    BY <1>1, <2>1, <2>2, <2>3 DEF ParseFrame, Delivery!Give
  <2> QED
    BY <2>4 DEF Delivery!DeliveryNext
<1>2. CASE KeepRest
  BY <1>2, Unseen DEF KeepRest, Result
<1> QED
  BY <1>1, <1>2 DEF Parse

LEMMA CodeDelivers ==
    ASSUME StreamInv, SuccessIsComplete', ExitCode
    PROVE  [Delivery!DeliveryNext]_(Delivery!deliveryVars)
<1>1. CASE command = "running"
  <2>1. Delivery!Error
    BY <1>1 DEF ExitCode, Result, Delivery!Error
  <2> QED
    BY <2>1 DEF Delivery!DeliveryNext
<1>2. CASE command # "running"
  <2>1. command = "ended" /\ at' = "done"
    BY <1>2 DEF ExitCode, StreamInv, TypeOK
  <2>2. flaws # {} \/ Len(out) = emitted
    BY <2>1 DEF ExitCode, SuccessIsComplete
  <2>3. Delivery!ExitCode
    BY <2>1, <2>2 DEF ExitCode, Result, Delivery!ExitCode
  <2> QED
    BY <2>3 DEF Delivery!DeliveryNext
<1> QED
  BY <1>1, <1>2

LEMMA StepDelivers ==
    StreamInv /\ SuccessIsComplete' /\ [Next]_vars
        => [Delivery!DeliveryNext]_(Delivery!deliveryVars)
<1> SUFFICES ASSUME StreamInv, SuccessIsComplete', [Next]_vars
             PROVE  [Delivery!DeliveryNext]_(Delivery!deliveryVars)
  OBVIOUS
<1>1. CASE Connect
  <2>1. CASE at' = "failed"
    <3>1. Delivery!Error
      BY <1>1, <2>1 DEF Connect, Result, Delivery!Error
    <3> QED
      BY <3>1 DEF Delivery!DeliveryNext
  <2>2. CASE at' = "head"
    BY <1>1, <2>2, Unseen DEF Connect, Result
  <2> QED
    BY <1>1, <2>1, <2>2 DEF Connect
<1>2. CASE GetResponse \/ HandOver
  BY <1>2, Unseen DEF GetResponse, HandOver, Result
<1>3. CASE ReadBlock \/ EndOfStream
  BY <1>3, Unseen DEF ReadBlock, EndOfStream, Result
<1>4. CASE Peek \/ Take \/ TakeNothing
  BY <1>4, Unseen DEF Peek, Take, TakeNothing, Result
<1>5. ASSUME NEW answered \in BOOLEAN, Poll(answered)
      PROVE  [Delivery!DeliveryNext]_(Delivery!deliveryVars)
  BY <1>5, Unseen DEF Poll, Result
<1>6. CASE Refused \/ TakeFails \/ Timeouts
  BY <1>6, Unseen DEF Refused, TakeFails, Timeouts, ReadFails, GiveUp, Fail, Result
<1>8. CASE CodeFails
  BY <1>8, FailDelivers DEF CodeFails, Result
<1>7. CASE UNCHANGED vars
  BY <1>7, Unseen DEF Result
<1> QED
  BY <1>1, <1>2, <1>3, <1>4, <1>5, <1>6, <1>7, <1>8, EngineDelivers, ParseDelivers,
     CloseDelivers, CodeDelivers
     DEF Next, Reader

\* ExecStream implements OutputDelivery: cut frames, buffers, polls, timeouts
\* and reference counts taken away, the caller sees each piece of output once
\* and in order, then one result, and an exit code short of output only if the
\* connection, the polls or the buffering gave cause (run_exec).
THEOREM Delivers == Spec => MeetsDelivery
<1>1. Init => Delivery!DeliveryInit
  BY DEF Init, Result, Delivery!DeliveryInit
<1>2. StreamInv' => SuccessIsComplete'
  BY InvComplete, PTL
<1>3. StreamInv /\ StreamInv' /\ [Next]_vars => [Delivery!DeliveryNext]_(Delivery!deliveryVars)
  BY <1>2, StepDelivers
<1> QED
  BY <1>1, <1>3, Invariance, PTL DEF Spec, MeetsDelivery, Delivery!DeliverySpec

\* On a socket nothing but a lost connection excuses output that is missing:
\* every other flaw, and so the loss that PipeIsDrained speaks of, is one of
\* the pipes of Podman on Windows (_read_until_done against the EOF of a socket).
SocketFlaws == transport = "socket" => flaws \subseteq {"cut"} /\ window = "shut"

THEOREM SocketIsDrained == Spec => [](SocketFlaws /\ (transport = "socket" => PipeIsDrained))
<1>1. Init => SocketFlaws
  BY DEF Init, SocketFlaws
<1>2. StreamInv /\ SocketFlaws /\ [Next]_vars => SocketFlaws'
  <2> SUFFICES ASSUME StreamInv, SocketFlaws, [Next]_vars, transport = "socket"
               PROVE  flaws' \subseteq {"cut"} /\ window' = "shut"
    BY DEF SocketFlaws, Next, Engine, Reader, Timeouts, Write, Finish, Arrive, HangUp, CutOff,
           Connect, GetResponse, HandOver, Refused, ReadBlock, EndOfStream, Peek, Take,
           TakeNothing, TakeFails, Poll, Parse, ParseFrame, KeepRest, Close, CloseResponse,
           CloseConnection, Leave, ExitCode, CodeFails, ReadFails, GiveUp, Fail
  <2>1. flaws \subseteq {"cut"} /\ window = "shut" /\ at \notin {"peek", "take", "poll"}
    BY DEF SocketFlaws, StreamInv, Held
  <2> QED
    BY <2>1
       DEF Next, Engine, Reader, Timeouts, Write, Finish, Arrive, HangUp, CutOff,
           Connect, GetResponse, HandOver, Refused, ReadBlock, EndOfStream, Peek, Take,
           TakeNothing, TakeFails, Poll, Parse, ParseFrame, KeepRest, Close, CloseResponse,
           CloseConnection, Leave, ExitCode, CodeFails, ReadFails, GiveUp, Fail
<1>3. StreamInv /\ SocketFlaws => (transport = "socket" => PipeIsDrained)
  BY InvComplete DEF SocketFlaws, SuccessIsComplete, PipeIsDrained
<1> QED
  BY <1>1, <1>2, <1>3, Invariance, PTL DEF Spec

(* --- the reader's progress ------------------------------------------------ *)

\* Bytes not yet fed to FrameReader, frames it has not put out, and places to
\* the end of the call or to the next read.
BytesLeft == Ends[Frames] - fed
FramesLeft == Frames - Len(out)
PlacesLeft ==
    CASE at = "connect" -> 11
      [] at = "head" /\ refs = 0 -> 10
      [] at = "head" /\ refs # 0 -> 9
      [] at = "parse" -> 8
      [] at \in {"peek", "read"} -> 7
      [] at = "take" -> 6
      [] at = "poll" -> 5
      [] at \in Closing -> 2 + refs + (IF closed THEN 0 ELSE 1)
      [] at = "code" -> 1
      [] at \in Over -> 0

\* The call has fewer bytes to read, else fewer frames to put out, else fewer
\* places to go.
Nearer ==
    \/ BytesLeft' < BytesLeft
    \/ BytesLeft' = BytesLeft /\ FramesLeft' < FramesLeft
    \/ BytesLeft' = BytesLeft /\ FramesLeft' = FramesLeft /\ PlacesLeft' < PlacesLeft

\* The one step back: a pipe has had nothing, the engine has been asked, and the
\* reader looks again.  It may do so while the command runs; once the command
\* has ended, the window is open and only its seconds can be waited for.
IdleRound ==
    /\ transport = "pipe" /\ at = "poll" /\ at' = "peek"
    /\ command = "ended" => window' = "open"
    /\ BytesLeft' = BytesLeft /\ FramesLeft' = FramesLeft

\* A read asks for something.
AsksForSome == at = "take" => asked > 0

ReaderAdvance ==
    /\ Reader \/ Timeouts => Nearer \/ IdleRound
    /\ Nearer \/ IdleRound \/ UNCHANGED <<reader, socket>>

LEMMA LeftCounted ==
    StreamInv => BytesLeft \in Nat /\ FramesLeft \in 0..Frames /\ PlacesLeft \in 0..11
<1> SUFFICES ASSUME StreamInv
             PROVE  BytesLeft \in Nat /\ FramesLeft \in 0..Frames /\ PlacesLeft \in 0..11
  OBVIOUS
<1> USE DEF StreamInv
<1>1. Ends[emitted] <= Ends[Frames] /\ Ends[emitted] \in Nat /\ Ends[Frames] \in Nat
  <2>1. emitted \in 0..Frames /\ Frames \in 0..Frames /\ emitted <= Frames
    BY FrameAssumption DEF TypeOK
  <2> QED
    BY <2>1, EndsGrow
<1>2. BytesLeft \in Nat
  BY <1>1 DEF BytesLeft, TypeOK, InOrder
<1>3. FramesLeft \in 0..Frames
  BY FrameAssumption DEF FramesLeft, AtBoundary, TypeOK
<1>4. PlacesLeft \in 0..11
  BY DEF PlacesLeft, TypeOK, Places, Reading, Closing, Over
<1> QED
  BY <1>2, <1>3, <1>4

\* A step that reads nothing and goes on to a place nearer to the end.
LEMMA GoesOn ==
    ASSUME StreamInv, fed' = fed, out' = out, PlacesLeft' < PlacesLeft
    PROVE  Nearer
BY DEF Nearer, BytesLeft, FramesLeft

LEMMA FailIsNearer ==
    ASSUME StreamInv, Fail, at \in {"head"} \cup Reading
    PROVE  Nearer
<1>1. PlacesLeft' \in 0..4
  BY DEF Fail, PlacesLeft, Closing, Over, StreamInv, TypeOK
<1>2. PlacesLeft \in 5..10
  BY DEF PlacesLeft, Reading, Closing, Over
<1> QED
  BY <1>1, <1>2, GoesOn DEF Fail

LEMMA ReadIsNearer ==
    ASSUME StreamInv, AsksForSome, ReadBlock \/ Take
    PROVE  Nearer
<1>1. fed' > fed /\ fed' \in Nat /\ fed \in Nat
  BY FrameAssumption DEF StreamInv, TypeOK, AsksForSome, ReadBlock, Take
<1>2. Ends[Frames] \in Nat
  BY FrameAssumption
<1> QED
  BY <1>1, <1>2 DEF Nearer, BytesLeft

LEMMA ParseIsNearer ==
    ASSUME StreamInv, Parse
    PROVE  Nearer
<1>1. CASE ParseFrame
  <2>1. fed' = fed /\ Len(out') = Len(out) + 1
    BY <1>1 DEF StreamInv, TypeOK, Payload, ParseFrame
  <2>2. BytesLeft' = BytesLeft /\ FramesLeft' < FramesLeft
    BY <2>1, FrameAssumption DEF BytesLeft, FramesLeft, StreamInv, TypeOK
  <2> QED
    BY <2>2 DEF Nearer
<1>2. CASE KeepRest
  <2>1. PlacesLeft = 8 /\ PlacesLeft' = 7
    BY <1>2 DEF KeepRest, PlacesLeft, Closing, Over
  <2> QED
    BY <1>2, <2>1, GoesOn DEF KeepRest
<1> QED
  BY <1>1, <1>2 DEF Parse

LEMMA OnwardIsNearer ==
    ASSUME StreamInv, Connect \/ GetResponse \/ HandOver \/ EndOfStream \/ Peek
                      \/ TakeNothing \/ Close \/ ExitCode \/ CodeFails
    PROVE  Nearer
<1>1. PlacesLeft' < PlacesLeft
  <2> USE DEF StreamInv, TypeOK, PlacesLeft, Closing, Over
  <2>1. CASE Close
    BY <2>1 DEF Close, CloseResponse, CloseConnection, Leave, ReleaseFile, CloseSocket
  <2>2. CASE Connect \/ GetResponse \/ HandOver
    BY <2>2 DEF Connect, GetResponse, HandOver, OpenFile, CloseSocket
  <2>3. CASE EndOfStream
    BY <2>3 DEF EndOfStream
  <2>4. CASE Peek \/ TakeNothing \/ ExitCode \/ CodeFails
    BY <2>4 DEF Peek, TakeNothing, ExitCode, CodeFails
  <2> QED
    BY <2>1, <2>2, <2>3, <2>4
<1>2. fed' = fed /\ out' = out
  BY DEF Connect, GetResponse, HandOver, EndOfStream, Peek, TakeNothing, Close, CloseResponse,
         CloseConnection, Leave, ExitCode, CodeFails
<1> QED
  BY <1>1, <1>2, GoesOn

LEMMA PollIsNearerOrIdle ==
    ASSUME StreamInv, NEW answered \in BOOLEAN, Poll(answered)
    PROVE  Nearer \/ IdleRound
<1>1. fed' = fed /\ out' = out /\ at = "poll" /\ PlacesLeft = 5
  BY DEF Poll, PlacesLeft, Closing, Over
<1>2. CASE at' = "closing"
  <2>1. PlacesLeft' < 5
    BY <1>2 DEF Poll, PlacesLeft, Closing, Over, StreamInv, TypeOK
  <2> QED
    BY <1>1, <2>1, GoesOn
<1>3. CASE at' = "peek"
  <2>1. command = "ended" => window' = "open"
    BY <1>3 DEF Poll, Ended
  <2> QED
    BY <1>1, <1>3, <2>1 DEF IdleRound, BytesLeft, FramesLeft, StreamInv, Held
<1> QED
  BY <1>2, <1>3 DEF Poll

LEMMA StepAdvances ==
    StreamInv /\ AsksForSome /\ [Next]_vars => AsksForSome' /\ [ReaderAdvance]_vars
<1> SUFFICES ASSUME StreamInv, AsksForSome, [Next]_vars
             PROVE  AsksForSome' /\ [ReaderAdvance]_vars
  OBVIOUS
<1>1. AsksForSome'
  BY DEF AsksForSome, vars, reader, Next, Engine, Reader, Timeouts, Write, Finish, Arrive, HangUp,
         CutOff, Connect, GetResponse, HandOver, Refused, ReadBlock, EndOfStream, Peek, Take,
         TakeNothing, TakeFails, Poll, Parse, ParseFrame, KeepRest, Close, CloseResponse,
         CloseConnection, Leave, ExitCode, CodeFails, ReadFails, GiveUp, Fail, Closing
<1>2. Reader \/ Timeouts => Nearer \/ IdleRound
  <2>1. Refused \/ TakeFails \/ ReadFails \/ GiveUp => Nearer
    BY FailIsNearer DEF Refused, TakeFails, ReadFails, GiveUp, Reading
  <2> QED
    BY <2>1, ReadIsNearer, ParseIsNearer, OnwardIsNearer, PollIsNearerOrIdle
       DEF Reader, Timeouts
<1>3. Engine \/ UNCHANGED vars => UNCHANGED <<reader, socket>>
  BY DEF Engine, Write, Finish, Arrive, HangUp, CutOff, vars
<1> QED
  BY <1>1, <1>2, <1>3 DEF ReaderAdvance, Next

\* Every step of the reader has it read more, put out more or go on; the one
\* exception is a round of an idle pipe, and there is none on a socket.  Nothing
\* the engine does takes the reader back, so that a call over a socket ends
\* after as many of its own steps as there are bytes and frames and eleven
\* places between them, and a call over a pipe waits only for a command that
\* runs or for the trailing window (stream_frames, _read_until_done).
THEOREM ReaderAdvances ==
    Spec => /\ [](BytesLeft \in Nat /\ FramesLeft \in 0..Frames /\ PlacesLeft \in 0..11)
            /\ [][ReaderAdvance]_vars
<1>1. Init => AsksForSome
  BY DEF Init, AsksForSome
<1> QED
  BY <1>1, LeftCounted, StepAdvances, Invariance, PTL DEF Spec
===============================================================================
