---------------------------- MODULE PixelOutput ----------------------------
(***************************************************************************)
(* From the framebuffer to the wire, for one output channel                *)
(* (EffectRunner.cpp): effects draw HSI pixels into the framebuffer, the   *)
(* coordinator converts them into the channel's buffer, compares it with   *)
(* the buffer of the previous frame and sends the pixels in front of the   *)
(* last one that changed.  Channels do not share buffers, so one stands    *)
(* for all of them.                                                        *)
(*                                                                         *)
(* The frame is remembered as the previous one whether or not it could be  *)
(* sent.  What draws, and the specification, is in EffectRoutine.          *)
(***************************************************************************)
EXTENDS Integers, FiniteSetsExt

CONSTANTS
  NumPixels,   \* the pixels of the channel
  Hsi,         \* colours an effect can draw
  Black,       \* the colour a new framebuffer is filled with
  Rgb,         \* what a channel's buffer holds for a pixel
  Convert,     \* HSIPixel::convertToRGB or convertToRGBW, many to one
  NotSent      \* no data has been sent for a pixel

ASSUME PixelParameters ==
  /\ NumPixels \in Nat
  /\ Black \in Hsi
  /\ Convert \in [Hsi -> Rgb]
  /\ NotSent \notin Rgb

Pixels == 0..(NumPixels - 1)

VARIABLES
  pc,              \* what the coordinator does next
  hasNode,         \* channel->node is not null
  fb,              \* the channel's part of the framebuffer
  channelBuffer,   \* channelBuffers[channel]
  prevFrame,       \* channelBuffersPrevFrame[channel]
  sent,            \* history: what sendto was last given for a pixel
  missed           \* history: the pixels whose last change was not sent: no
                   \* pixel behind them changed with it or since, or the
                   \* data of the frame was dropped

vars == <<pc, hasNode, fb, channelBuffer, prevFrame, sent, missed>>

\* updateChannels, called once: the buffers are allocated, not cleared.  The
\* node of a channel that refers to none is null.
Init ==
  /\ pc = "frame"
  /\ hasNode \in BOOLEAN
  /\ fb = [p \in Pixels |-> Black]
  /\ channelBuffer \in [Pixels -> Rgb]
  /\ prevFrame \in [Pixels -> Rgb]
  /\ sent = [p \in Pixels |-> NotSent]
  /\ missed = Pixels

\* coordinatorRunEffects: the effects draw this into their groups.
RunEffects(drawn) ==
  /\ pc = "frame"
  /\ fb' = drawn
  /\ pc' = "convert"
  /\ UNCHANGED <<hasNode, channelBuffer, prevFrame, sent, missed>>

\* convertPixelData: save the previous frame, then convert the new one.
ConvertPixels ==
  /\ pc = "convert"
  /\ prevFrame' = channelBuffer
  /\ channelBuffer' = [p \in Pixels |-> Convert[fb[p]]]
  /\ pc' = "send"
  /\ UNCHANGED <<hasNode, fb, sent, missed>>

Changed == {p \in Pixels : prevFrame[p] # channelBuffer[p]}

\* Mutant of LastChangedPixel: the number of pixels that changed.
NumberOfChanged == Cardinality(Changed)

\* lastChangedPixel as outputPixelData leaves it.
LastChangedPixel == IF Changed = {} THEN 0 ELSE Max(Changed)

\* sendDataToNode with lastChangedPixel as the number of pixels; nothing is
\* sent when it is zero.
SendPixels ==
  /\ hasNode
  /\ sent' = [p \in Pixels |-> IF p < LastChangedPixel THEN channelBuffer[p] ELSE sent[p]]
  /\ missed' = (missed \cup Changed) \ {p \in Pixels : \E q \in Changed : q > p}

\* outputPixelData returns for want of a node, or sendDataToNode drops the data
\* in an error pause or when sendto fails (FramebufferWrites has the two).
DropPixels ==
  /\ missed' = missed \cup Changed
  /\ UNCHANGED sent

OutputPixelData ==
  /\ pc = "send"
  /\ SendPixels \/ DropPixels
  /\ pc' = "frame"
  /\ UNCHANGED <<hasNode, fb, channelBuffer, prevFrame>>

---------------------------------------------------------------------------
\* The shapes of the buffers.
TypeOK ==
  /\ pc \in {"frame", "convert", "send"}
  /\ hasNode \in BOOLEAN
  /\ fb \in [Pixels -> Hsi]
  /\ channelBuffer \in [Pixels -> Rgb] /\ prevFrame \in [Pixels -> Rgb]
  /\ sent \in [Pixels -> Rgb \cup {NotSent}]
  /\ missed \subseteq Pixels

\* The node has been sent every pixel as it is now, over any number of frames
\* and whatever the uninitialised buffers held, but for those whose last change
\* was missed: leaving out the pixels that are equal in two frames leaves out
\* none that changed before, except the last changed pixel of a frame and what
\* sendDataToNode dropped, which no later frame makes up for (outputPixelData).
OnlyMissedPixelsDiffer ==
  pc # "send" => \A p \in Pixels \ missed : sent[p] = channelBuffer[p]

\* What makes it inductive: between convertPixelData and outputPixelData it
\* is the previous frame that has been sent.
PreviousFrameIsSent ==
  pc = "send" => \A p \in Pixels \ missed : sent[p] = prevFrame[p]
===========================================================================
