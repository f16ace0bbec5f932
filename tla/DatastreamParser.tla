-------------------------- MODULE DatastreamParser --------------------------
(***************************************************************************)
(* datastream_parser/main.cpp: ProcessStream() sends the bytes of a stream *)
(* one by one to the coroutine Parse, which assembles frames.  A frame is  *)
(* enclosed by ESC SOF; in a frame ESC stands for itself when it is        *)
(* doubled.  Parse reads a byte when it is resumed at a co_await; resumed  *)
(* at its start or at the co_yield of a frame it does not look at the byte *)
(* that was sent.                                                          *)
(***************************************************************************)
EXTENDS Naturals, Sequences, SequencesExt

CONSTANT MaxBytes    \* bound: bytes of the streams together

\* Bytes are told apart as Parse does.
ESC   == "ESC"
SOF   == "SOF"
Other == "other"
Bytes == {ESC, SOF, Other}

\* A std::optional has at most one element.
NoValue == <<>>

VARIABLES wait,       \* where Parse is suspended
          frame,      \* the frame it assembles
          mValue,     \* the frame it has yielded, until it is taken, as <<frame>>
          sent,       \* the bytes that were sent
          received,   \* how many of them Parse has read
          stream,     \* what ProcessStream() does: "send", "check" or "over"
          handled     \* the frames given to HandleFrame

dvars == <<wait, frame, mValue, sent, received, stream, handled>>

Init == /\ wait = "start"
        /\ frame = <<>>
        /\ mValue = NoValue
        /\ sent = <<>>
        /\ received = 0
        /\ stream = "send"
        /\ handled = <<>>

\* Mutant: an ESC that is not doubled does not end the frame.
AfterUnsynced(b) ==
    CASE wait \in {"start", "yield"} -> "idle"
      [] wait = "idle"         -> IF b = ESC THEN "escape" ELSE "idle"
      [] wait = "escape"       -> IF b = SOF THEN "frame" ELSE "idle"
      [] wait = "frame"        -> IF b = ESC THEN "frame escape" ELSE "frame"
      [] wait = "frame escape" -> IF b = SOF THEN "yield" ELSE "frame"

\* Where Parse suspends next when it is resumed after b was sent.
After(b) ==
    CASE wait \in {"start", "yield"} -> "idle"
      [] wait = "idle"         -> IF b = ESC THEN "escape" ELSE "idle"
      [] wait = "escape"       -> IF b = SOF THEN "frame" ELSE "idle"
      [] wait = "frame"        -> IF b = ESC THEN "frame escape" ELSE "frame"
      [] wait = "frame escape" -> CASE b = SOF -> "yield" [] b = ESC -> "frame" [] OTHER -> "idle"

\* SendData(b): the byte is stored and Parse runs to its next suspension.
SendData(b) ==
    /\ stream = "send" /\ Len(sent) < MaxBytes
    /\ wait' = After(b)
    /\ frame' = CASE wait = "escape" /\ b = SOF -> <<>>
                  [] (wait = "frame" /\ b # ESC) \/ (wait = "frame escape" /\ b = ESC) -> Append(frame, b)
                  [] OTHER -> frame
    /\ mValue' = IF After(b) = "yield" THEN <<frame>> ELSE mValue
    /\ sent' = Append(sent, b)
    /\ received' = IF wait \in {"start", "yield"} THEN received ELSE received + 1
    /\ stream' = "check"
    /\ UNCHANGED handled

\* Mutant: the value is read and stays.
CheckKeeping == /\ stream = "check"
                /\ stream' = "send"
                /\ handled' = handled \o mValue
                /\ UNCHANGED <<wait, frame, mValue, sent, received>>

\* operator() takes the value, if there is one, and HandleFrame gets it.
Check == /\ stream = "check"
         /\ stream' = "send"
         /\ handled' = handled \o mValue
         /\ mValue' = NoValue
         /\ UNCHANGED <<wait, frame, sent, received>>

\* The second stream ends; the first one ends unnoticed, as Parse goes on.
EndOfStream == /\ stream = "send"
               /\ stream' = "over"
               /\ UNCHANGED <<wait, frame, mValue, sent, received, handled>>

Next == (\E b \in Bytes : SendData(b)) \/ Check \/ EndOfStream

\* main() goes on.
Spec == Init /\ [][Next]_dvars /\ WF_dvars(Next)
-----------------------------------------------------------------------------
(* Properties *)

\* How a sender encodes a frame.
Packet(f) == <<ESC, SOF>> \o FlattenSeq([i \in DOMAIN f |-> IF f[i] = ESC THEN <<ESC, ESC>> ELSE <<f[i]>>])
                          \o <<ESC, SOF>>

\* What Parse yields was just sent, encoded as a frame, whatever came before.
YieldsFramesSent == mValue # NoValue => IsSuffix(Packet(mValue[1]), sent)

\* Frames, each with any byte before it: the sequence that is sent for them, and
\* the frames alone.
Pieces(fs)   == [before : Bytes, frame : fs]
Sent(ps)     == FlattenSeq([i \in DOMAIN ps |-> <<ps[i].before>> \o Packet(ps[i].frame)])
FramesOf(ps) == [i \in DOMAIN ps |-> ps[i].frame]
Streams(pss) == {[bytes |-> Sent(ps), pieces |-> ps] : ps \in pss}

\* Whenever such a stream is what was sent, all of its frames have been handled,
\* each one once and in order, as main() shows it for "Hello" and "World".
Handles(streams) == stream = "send" =>
                        \A s \in streams : sent = s.bytes => handled = FramesOf(s.pieces)

\* "Send the new byte to the waiting Parse coroutine": every byte that is sent
\* is read by the coroutine.
EveryByteReceived == received = Len(sent)

\* What main() must come to.
Closed == stream = "over"
=============================================================================
