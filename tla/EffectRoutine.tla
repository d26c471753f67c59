--------------------------- MODULE EffectRoutine ---------------------------
(***************************************************************************)
(* An effect routine (Routine.cpp) at work on the group it is mapped to,   *)
(* in front of the output pipeline of PixelOutput.                         *)
(*                                                                         *)
(* The script does not draw into the group's buffer but into an array of   *)
(* its own, which attachBuffer makes and which outlives the frame.  After  *)
(* each execution the array is copied into the group's buffer, and from    *)
(* there into the framebuffer.  The script is external: it leaves any      *)
(* colours in the array, also when it ends with an exception, which is     *)
(* logged and otherwise treated like the end of the script; and it may     *)
(* resize the array, but it leaves the global bufferSz alone, which        *)
(* nothing keeps it from assigning.  One mapping stands for all: groups    *)
(* that do not overlap share nothing.                                      *)
(*                                                                         *)
(* The group is an ubergroup with these members, or a plain group, which   *)
(* copies and counts like an ubergroup of one.  The buffer has room for    *)
(* all members, and yet each of them shows its beginning.                  *)
(***************************************************************************)
EXTENDS PixelOutput

VARIABLES
  group,      \* the members of the group in the output map: start, size and
              \* brightness of each; empty when the map is
  buffer,     \* its buffer
  rebind,     \* bufferChanged, or bufferBoundRoutine is another routine
  bufferSz,   \* the routine's bufferSz
  asBuffer,   \* the array the script draws into
  alive,      \* the process has not dereferenced a null pointer
  drawn,      \* history: what the scripts last had drawn at each pixel
  resized     \* history: the script has resized this array

routineVars == <<group, buffer, rebind, bufferSz, asBuffer, alive, drawn, resized>>
effectVars == <<vars, routineVars>>

BlackPixels(n) == [i \in 0..(n - 1) |-> Black]

Size(array) == Cardinality(DOMAIN array)

\* The pixels of a member, and of several.
PixelsOf(m) == m.start..(m.start + m.size - 1)
Covered(members) == UNION {PixelsOf(m) : m \in members}

\* OutputUberGroup::numPixels, for members that do not overlap.
SizeOf(members) == Cardinality(Covered(members))

\* What clients may map: groups that do not overlap, at full brightness.
NewMembers ==
  {m \in [start : Pixels, size : 1..NumPixels, brightness : {1}] : PixelsOf(m) \subseteq Pixels}
Apart(members) == \A m, n \in members : m # n => PixelsOf(m) \cap PixelsOf(n) = {}

Arrays == UNION {[0..(n - 1) -> Hsi] : n \in 0..NumPixels}

EffectInit ==
  /\ Init
  /\ group = {}
  /\ buffer = BlackPixels(0) /\ asBuffer = BlackPixels(0)
  /\ rebind = FALSE /\ bufferSz = 0
  /\ alive = TRUE
  /\ drawn = fb
  /\ resized = FALSE

---------------------------------------------------------------------------
(***************************************************************************)
(* Command clients, between two frames.                                    *)
(***************************************************************************)

\* A script is compiled and prepared (the constructor of Routine) and mapped
\* to a group object of its own.  A script that cannot be loaded, or has no
\* effectStep(), throws LoadError before anything is mapped.
MapEffect(members) ==
  /\ pc = "frame"
  /\ members # {} /\ Apart(members)
  /\ group' = members
  /\ buffer' = BlackPixels(SizeOf(members))
  /\ rebind' = TRUE
  /\ bufferSz' = 0
  /\ asBuffer' = BlackPixels(0)
  /\ resized' = FALSE
  /\ UNCHANGED <<vars, alive, drawn>>

UnmapEffect ==
  /\ pc = "frame"
  /\ group # {}
  /\ group' = {}
  /\ buffer' = BlackPixels(0) /\ asBuffer' = BlackPixels(0)
  /\ rebind' = FALSE /\ bufferSz' = 0
  /\ resized' = FALSE
  /\ UNCHANGED <<vars, alive, drawn>>

\* The ubergroup loses a member: _resizeBuffer allocates its buffer anew.
\* (OutputMapper is about the one that loses its last member.)
RemoveMember(m) ==
  /\ pc = "frame"
  /\ m \in group /\ group # {m}
  /\ group' = group \ {m}
  /\ buffer' = BlackPixels(SizeOf(group'))
  /\ rebind' = TRUE
  /\ UNCHANGED <<vars, bufferSz, asBuffer, alive, drawn, resized>>

SetBrightness(m, level) ==
  /\ pc = "frame"
  /\ m \in group
  /\ group' = (group \ {m}) \cup {[m EXCEPT !.brightness = level]}
  /\ UNCHANGED <<vars, buffer, rebind, bufferSz, asBuffer, alive, drawn, resized>>

---------------------------------------------------------------------------
(***************************************************************************)
(* The coordinator: runEffect.                                             *)
(***************************************************************************)

\* The size the routine works with once bindBufferToRoutine has returned.
BoundSize == IF rebind THEN SizeOf(group) ELSE bufferSz

\* Mutant of BoundArray: the array is made before bufferSz is assigned.
ArrayOfOldSize == IF rebind THEN BlackPixels(bufferSz) ELSE asBuffer

\* attachBuffer makes a new array (_updateASBufferArray).
BoundArray == IF rebind THEN BlackPixels(SizeOf(group)) ELSE asBuffer

\* Mutant of CopyArray: the loop ends one pixel early.
CopyArrayShort(array) ==
  [i \in DOMAIN buffer |-> IF i < BoundSize - 1 THEN array[i] ELSE buffer[i]]

\* _copyASBufferArrayData: bufferSz pixels of the array.
CopyArray(array) ==
  [i \in DOMAIN buffer |-> IF i < BoundSize THEN array[i] ELSE buffer[i]]

\* What a frame shows of these colours: each member has its first pixels, scaled
\* by its brightness.
Shown(pixels, p) ==
  LET m == CHOOSE m \in group : p \in PixelsOf(m)
  IN IF m.brightness = 0 THEN Black ELSE pixels[p - m.start]

\* copyIntoFramebuffer of the group: it hands its whole buffer to each member.
CopyIntoFramebuffer(pixels) ==
  [p \in Pixels |-> IF p \in Covered(group) THEN Shown(pixels, p) ELSE fb[p]]

\* execute(): the script leaves this array behind.
Execute(array) ==
  /\ bufferSz' = BoundSize
  /\ rebind' = FALSE
  /\ asBuffer' = array
  /\ resized' = (Size(array) # Size(BoundArray) \/ (resized /\ ~rebind))

RunEffect(array) ==
  /\ group # {}
  /\ BoundSize <= Size(array)
  /\ Execute(array)
  /\ buffer' = CopyArray(array)
  /\ RunEffects(CopyIntoFramebuffer(buffer'))
  /\ drawn' = [p \in Pixels |-> IF p \in Covered(group) THEN Shown(array, p) ELSE drawn[p]]
  /\ UNCHANGED <<group, alive>>

\* The array has become too short: At(i) is a null pointer.
CopyFails(array) ==
  /\ pc = "frame"
  /\ group # {}
  /\ BoundSize > Size(array)
  /\ Execute(array)
  /\ alive' = FALSE
  /\ UNCHANGED <<vars, group, buffer, drawn>>

Client ==
  \/ \E members \in SUBSET NewMembers : MapEffect(members)
  \/ UnmapEffect
  \/ \E m \in group : RemoveMember(m)
  \/ \E m \in group, level \in {0, 1} : SetBrightness(m, level)

Coordinator ==
  \/ \E array \in Arrays : RunEffect(array) \/ CopyFails(array)
  \/ (ConvertPixels \/ OutputPixelData) /\ UNCHANGED routineVars

Ended == ~alive /\ UNCHANGED effectVars

EffectNext == (alive /\ (Client \/ Coordinator)) \/ Ended

EffectSpec == EffectInit /\ [][EffectNext]_effectVars

---------------------------------------------------------------------------
\* What a node has been sent for a pixel is what the effect had drawn for it
\* last, through the array, the group's buffer, the framebuffer and the
\* channel's buffer, unless the change was missed, though the effect has been
\* replaced, its group has lost members or its brightness has changed meanwhile
\* (execute, copyIntoFramebuffer, convertPixelData, outputPixelData).
SentIsDrawn ==
  pc = "frame" => \A p \in Pixels \ missed : sent[p] = Convert[drawn[p]]

\* Copying the array never leaves it, unless the script has resized it itself:
\* bufferSz and the array follow the group's buffer together (attachBuffer).
CopyStaysInArray == alive \/ resized
===========================================================================
