---------------------------- MODULE PixelProofs ----------------------------
(***************************************************************************)
(* Proofs about the way of a pixel: about EffectRoutine with PixelOutput   *)
(* behind it, for every number of pixels, every set of colours and every   *)
(* conversion, and about FramebufferLayout, for any groups and any ranges. *)
(*                                                                         *)
(* What needs an induction (a last changed pixel, the sum of the pixels of *)
(* some groups) is shown with a least counterexample: < is well-founded on *)
(* Nat, and inclusion on the subsets of a finite set.                      *)
(***************************************************************************)
EXTENDS EffectRoutine, FramebufferLayout, WellFoundedInduction, FiniteSetTheorems, TLAPS

\* A set of naturals that is not empty has a least element.
LEMMA LeastNatural ==
  ASSUME NEW T \in SUBSET Nat, T # {}
  PROVE  \E d \in T : \A e \in T : e >= d
<1> DEFINE Below == OpToRel(<, Nat)
<1>1. IsWellFoundedOn(Below, Nat)
  BY NatLessThanWellFounded
<1>2. \E d \in T : \A e \in T : <<e, d>> \notin Below
  <2> HIDE DEF Below
  <2> QED
    BY <1>1, WFMin
<1>3. PICK d \in T : \A e \in T : <<e, d>> \notin Below
  BY <1>2
<1>4. T \subseteq Nat
  OBVIOUS
<1>5. \A e \in T : ~(e < d)
  BY <1>3, <1>4 DEF OpToRel
<1>6. \A e \in T : e >= d
  BY <1>4, <1>5
<1> QED
  BY <1>6

\* Among subsets of a finite set, if there are any, is one that is none of
\* them any more without one of its elements.
LEMMA LeastSubset ==
  ASSUME NEW S, IsFiniteSet(S), NEW T \in SUBSET (SUBSET S), T # {}
  PROVE  \E s \in T : \A x \in s : s \ {x} \notin T
<1>1. IsWellFoundedOn(StrictSubsetOrdering(S), SUBSET S)
  BY FS_FiniteSubsetsOfFinite, FS_StrictSubsetOrderingWellFounded
<1>2. PICK s \in T : \A t \in T : <<t, s>> \notin StrictSubsetOrdering(S)
  BY <1>1, WFMin
<1>3. ASSUME NEW x \in s, s \ {x} \in T
      PROVE  FALSE
  BY <1>2, <1>3 DEF StrictSubsetOrdering
<1> QED
  BY <1>3

---------------------------------------------------------------------------
PixelInvariant == TypeOK /\ OnlyMissedPixelsDiffer /\ PreviousFrameIsSent

\* A set of pixels that is not empty has a last one.
LEMMA LastPixelExists ==
  ASSUME NEW S \in SUBSET Pixels, S # {}
  PROVE  \E x \in S : \A y \in S : x >= y
<1> DEFINE T == {NumPixels - 1 - p : p \in S}
<1>1. NumPixels \in Nat
  BY PixelParameters
<1>2. \A p \in S : p \in Int /\ NumPixels - 1 - p \in Nat
  BY <1>1 DEF Pixels
<1>3. T \in SUBSET Nat /\ T # {}
  BY <1>2
<1>4. \E d \in T : \A e \in T : e >= d
  <2> HIDE DEF T
  <2> QED
    BY <1>3, LeastNatural
<1>5. PICK d \in T : \A e \in T : e >= d
  BY <1>4
<1>6. \A e \in T : ~(e < d)
  <2> HIDE DEF T
  <2> QED
    BY <1>3, <1>5
<1>7. PICK x \in S : d = NumPixels - 1 - x
  BY <1>5
<1>8. ASSUME NEW y \in S
      PROVE  x >= y
  <2>1. NumPixels - 1 - y \in T
    OBVIOUS
  <2>2. ~(NumPixels - 1 - y < NumPixels - 1 - x)
    BY <1>6, <1>7, <2>1
  <2> QED
    BY <1>1, <1>2, <2>2
<1> QED
  BY <1>8

\* outputPixelData: no changed pixel is behind lastChangedPixel.
LEMMA LastChangedPixelBounds ==
  ASSUME NEW q \in Changed
  PROVE  LastChangedPixel \in Pixels /\ LastChangedPixel >= q
<1>1. Changed \in SUBSET Pixels /\ Changed # {}
  BY DEF Changed
<1>2. \E x \in Changed : \A y \in Changed : x >= y
  BY <1>1, LastPixelExists
<1>3. Max(Changed) \in Changed /\ \A y \in Changed : Max(Changed) >= y
  BY <1>2 DEF Max
<1> QED
  BY <1>1, <1>3 DEF LastChangedPixel

LEMMA PixelInit == Init => PixelInvariant
BY PixelParameters
  DEF Init, PixelInvariant, TypeOK, OnlyMissedPixelsDiffer, PreviousFrameIsSent

\* The step that sends: what it leaves out is what the previous frame, and
\* with it the node, already has.
LEMMA OutputPreserves ==
  ASSUME PixelInvariant, OutputPixelData
  PROVE  PixelInvariant'
<1> USE DEF PixelInvariant
<1>1. TypeOK'
  BY DEF TypeOK, OutputPixelData, SendPixels, DropPixels, Changed
<1>2. ASSUME NEW p \in Pixels \ missed'
      PROVE  sent'[p] = channelBuffer'[p]
  <2>1. channelBuffer' = channelBuffer
    BY DEF OutputPixelData
  <2>2. p \notin missed /\ p \notin Changed => sent[p] = channelBuffer[p]
    BY DEF PreviousFrameIsSent, OutputPixelData, Changed
  <2>3. CASE DropPixels
    BY <1>2, <2>1, <2>2, <2>3 DEF DropPixels
  <2>4. CASE SendPixels
    <3>1. sent'[p] = IF p < LastChangedPixel THEN channelBuffer[p] ELSE sent[p]
      BY <2>4 DEF SendPixels
    <3>2. CASE \E q \in Changed : q > p
      <4>1. PICK q \in Changed : q > p
        BY <3>2
      <4>2. p < LastChangedPixel
        BY <4>1, LastChangedPixelBounds, PixelParameters DEF Pixels, Changed
      <4> QED
        BY <2>1, <3>1, <4>2
    <3>3. CASE ~(\E q \in Changed : q > p)
      BY <1>2, <2>1, <2>2, <2>4, <3>1, <3>3 DEF SendPixels
    <3> QED
      BY <3>2, <3>3
  <2> QED
    BY <2>3, <2>4 DEF OutputPixelData
<1>3. OnlyMissedPixelsDiffer'
  BY <1>2 DEF OnlyMissedPixelsDiffer, OutputPixelData
<1>4. PreviousFrameIsSent'
  BY DEF PreviousFrameIsSent, OutputPixelData
<1> QED
  BY <1>1, <1>3, <1>4

\* The steps before it, given what the effects have drawn.
LEMMA FramePreserves ==
  ASSUME PixelInvariant,
         \/ \E d \in [Pixels -> Hsi] : RunEffects(d)
         \/ ConvertPixels
         \/ UNCHANGED vars
  PROVE  PixelInvariant'
<1> USE DEF PixelInvariant, TypeOK, OnlyMissedPixelsDiffer, PreviousFrameIsSent
<1>1. CASE \E d \in [Pixels -> Hsi] : RunEffects(d)
  BY <1>1 DEF RunEffects
<1>2. CASE ConvertPixels
  BY <1>2, PixelParameters DEF ConvertPixels
<1>3. CASE UNCHANGED vars
  BY <1>3 DEF vars
<1> QED
  BY <1>1, <1>2, <1>3

---------------------------------------------------------------------------
(***************************************************************************)
(* The routine in front of the pipeline.                                   *)
(***************************************************************************)
\* What a group has for members.
Members ==
  {m \in [start : Pixels, size : 1..NumPixels, brightness : {0, 1}] : PixelsOf(m) \subseteq Pixels}

\* The shapes of what the routine and its group keep.
EffectTypeOK ==
  /\ group \subseteq Members
  /\ group # {} => buffer \in [0..(SizeOf(group) - 1) -> Hsi]
  /\ rebind \in BOOLEAN /\ alive \in BOOLEAN /\ resized \in BOOLEAN
  /\ bufferSz \in Nat
  /\ asBuffer \in Arrays
  /\ drawn \in [Pixels -> Hsi]

\* Unless the next frame binds the buffer anew, the routine's bufferSz is the
\* size of the group's buffer, and the array has that size too if the script
\* has left it alone.
SizesFollowGroup ==
  group # {} /\ ~rebind =>
    /\ bufferSz = SizeOf(group)
    /\ ~resized => Size(asBuffer) = bufferSz

\* The framebuffer holds what was drawn, and the channel's buffer what the
\* framebuffer holds, from the conversion to the next frame.
BuffersAgree ==
  /\ fb = drawn
  /\ pc = "send" \/ (pc = "frame" /\ missed # Pixels) =>
       channelBuffer = [p \in Pixels |-> Convert[fb[p]]]

EffectInvariant ==
  /\ PixelInvariant /\ EffectTypeOK
  /\ SizesFollowGroup /\ BuffersAgree /\ CopyStaysInArray

\* The size of a buffer is a number, and no member has more pixels.
LEMMA MembersFit ==
  ASSUME NEW members \in SUBSET Members
  PROVE  /\ SizeOf(members) \in Nat
         /\ \A m \in members : m.size <= SizeOf(members)
<1>1. IsFiniteSet(Pixels)
  BY FS_Interval, PixelParameters DEF Pixels
<1>2. Covered(members) \subseteq Pixels
  BY DEF Covered, Members
<1>3. IsFiniteSet(Covered(members))
  BY <1>1, <1>2, FS_Subset
<1>4. SizeOf(members) \in Nat
  BY <1>3, FS_CardinalityType DEF SizeOf
<1>5. ASSUME NEW m \in members
      PROVE  m.size <= SizeOf(members)
  <2>1. m.start \in Int /\ m.size \in Nat
    BY PixelParameters DEF Members, Pixels
  <2>2. Cardinality(PixelsOf(m)) = m.size
    <3> DEFINE last == m.start + m.size - 1
    <3>1. last \in Int
      BY <2>1
    <3>2. m.start > last => m.size = 0
      BY <2>1
    <3>3. last - m.start + 1 = m.size
      BY <2>1
    <3>4. PixelsOf(m) = m.start..last
      BY DEF PixelsOf
    <3> HIDE DEF last
    <3>5. Cardinality(m.start..last) = IF m.start > last THEN 0 ELSE last - m.start + 1
      BY <2>1, <3>1, FS_Interval
    <3> QED
      BY <3>2, <3>3, <3>4, <3>5
  <2>3. PixelsOf(m) \subseteq Covered(members)
    BY DEF Covered
  <2>4. Cardinality(PixelsOf(m)) <= Cardinality(Covered(members))
    BY <1>3, <2>3, FS_Subset
  <2> QED
    BY <2>2, <2>4 DEF SizeOf
<1> QED
  BY <1>4, <1>5

LEMMA ArraySize ==
  ASSUME NEW n \in Nat, NEW array \in [0..(n - 1) -> Hsi]
  PROVE  Size(array) = n
<1>1. DOMAIN array = 0..(n - 1)
  OBVIOUS
<1>2. Cardinality(0..(n - 1)) = n
  BY FS_Interval
<1> QED
  BY <1>1, <1>2 DEF Size

LEMMA BlackPixelsTyped ==
  ASSUME NEW n \in Nat
  PROVE  BlackPixels(n) \in [0..(n - 1) -> Hsi] /\ Size(BlackPixels(n)) = n
<1>1. BlackPixels(n) \in [0..(n - 1) -> Hsi]
  BY PixelParameters DEF BlackPixels
<1> QED
  BY <1>1, ArraySize

LEMMA NoPixelsIsAnArray == BlackPixels(0) \in Arrays
<1>1. 0 \in 0..NumPixels /\ BlackPixels(0) \in [0..(0 - 1) -> Hsi]
  BY PixelParameters, BlackPixelsTyped
<1> QED
  BY <1>1 DEF Arrays

\* An array of the script has a size, and a colour at each index below it.
LEMMA ArrayTyped ==
  ASSUME NEW array \in Arrays
  PROVE  /\ Size(array) \in Nat
         /\ \A i \in Nat : i < Size(array) => array[i] \in Hsi
<1>1. PICK n \in 0..NumPixels : array \in [0..(n - 1) -> Hsi]
  BY DEF Arrays
<1>2. n \in Nat
  BY PixelParameters
<1>3. Size(array) = n
  BY <1>1, <1>2, ArraySize
<1> QED
  BY <1>1, <1>2, <1>3

\* bindBufferToRoutine: what execute() works with has the size of the group.
LEMMA BoundSizes ==
  ASSUME EffectInvariant, group # {}
  PROVE  /\ BoundSize = SizeOf(group) /\ BoundSize \in Nat
         /\ ~(resized /\ ~rebind) => Size(BoundArray) = BoundSize
<1>1. SizeOf(group) \in Nat
  BY MembersFit DEF EffectInvariant, EffectTypeOK
<1>2. CASE rebind
  BY <1>1, <1>2, BlackPixelsTyped DEF BoundSize, BoundArray
<1>3. CASE ~rebind
  BY <1>1, <1>3 DEF EffectInvariant, SizesFollowGroup, BoundSize, BoundArray
<1> QED
  BY <1>2, <1>3

\* _copyASBufferArrayData and copyIntoFramebuffer: a frame that the array is
\* long enough for puts the script's colours on every pixel of every member.
LEMMA FrameIsDrawn ==
  ASSUME EffectInvariant, group # {}, NEW array \in Arrays,
         BoundSize <= Size(array)
  PROVE  /\ CopyArray(array) \in [0..(SizeOf(group) - 1) -> Hsi]
         /\ CopyIntoFramebuffer(CopyArray(array)) \in [Pixels -> Hsi]
         /\ CopyIntoFramebuffer(CopyArray(array)) =
              [p \in Pixels |-> IF p \in Covered(group) THEN Shown(array, p) ELSE drawn[p]]
<1>1. /\ group \subseteq Members /\ SizeOf(group) \in Nat
      /\ \A m \in group : m.size <= SizeOf(group)
      /\ DOMAIN buffer = 0..(SizeOf(group) - 1)
  BY MembersFit DEF EffectInvariant, EffectTypeOK
<1>2. BoundSize = SizeOf(group)
  BY BoundSizes
<1>3. Size(array) \in Nat /\ \A i \in Nat : i < Size(array) => array[i] \in Hsi
  BY ArrayTyped
<1>4. \A i \in 0..(SizeOf(group) - 1) :
        CopyArray(array)[i] = array[i] /\ array[i] \in Hsi
  BY <1>1, <1>2, <1>3 DEF CopyArray
<1>5. CopyArray(array) \in [0..(SizeOf(group) - 1) -> Hsi]
  BY <1>1, <1>4 DEF CopyArray
<1>6. fb = drawn /\ fb \in [Pixels -> Hsi]
  BY DEF EffectInvariant, BuffersAgree, PixelInvariant, TypeOK
<1>7. ASSUME NEW p \in Pixels, p \in Covered(group)
      PROVE  Shown(array, p) \in Hsi /\ Shown(CopyArray(array), p) = Shown(array, p)
  <2> DEFINE m == CHOOSE m \in group : p \in PixelsOf(m)
  <2>1. m \in group /\ p \in PixelsOf(m)
    BY <1>7 DEF Covered
  <2> HIDE DEF m
  <2>2. /\ m.start \in Int /\ m.size \in Int /\ p \in Int
        /\ p >= m.start /\ p <= m.start + m.size - 1 /\ m.size <= SizeOf(group)
    BY <1>1, <2>1, PixelParameters DEF Members, Pixels, PixelsOf
  <2>3. p - m.start \in 0..(SizeOf(group) - 1)
    BY <1>1, <2>2
  <2>4. CopyArray(array)[p - m.start] = array[p - m.start] /\ array[p - m.start] \in Hsi
    BY <1>4, <2>3
  <2>5. /\ Shown(array, p) = IF m.brightness = 0 THEN Black ELSE array[p - m.start]
        /\ Shown(CopyArray(array), p) =
             IF m.brightness = 0 THEN Black ELSE CopyArray(array)[p - m.start]
    BY DEF Shown, m
  <2> QED
    BY <2>4, <2>5, PixelParameters
<1>8. ASSUME NEW p \in Pixels
      PROVE  /\ CopyIntoFramebuffer(CopyArray(array))[p] \in Hsi
             /\ CopyIntoFramebuffer(CopyArray(array))[p] =
                  IF p \in Covered(group) THEN Shown(array, p) ELSE drawn[p]
  BY <1>6, <1>7 DEF CopyIntoFramebuffer
<1> QED
  BY <1>5, <1>8 DEF CopyIntoFramebuffer

---------------------------------------------------------------------------
LEMMA EffectInitHolds == EffectInit => EffectInvariant
<1> SUFFICES ASSUME EffectInit PROVE EffectInvariant
  OBVIOUS
<1>1. PixelInvariant
  BY PixelInit DEF EffectInit
<1>2. EffectTypeOK
  <2>1. fb \in [Pixels -> Hsi]
    BY <1>1 DEF PixelInvariant, TypeOK
  <2> QED
    BY <2>1, NoPixelsIsAnArray DEF EffectInit, EffectTypeOK
<1>3. SizesFollowGroup /\ CopyStaysInArray
  BY DEF EffectInit, SizesFollowGroup, CopyStaysInArray
<1>4. BuffersAgree
  BY DEF EffectInit, Init, BuffersAgree
<1> QED
  BY <1>1, <1>2, <1>3, <1>4 DEF EffectInvariant

\* What a client's step leaves alone keeps the buffers in agreement.
LEMMA ClientPreserves ==
  ASSUME EffectInvariant, alive, Client
  PROVE  EffectInvariant'
<1>0. UNCHANGED <<vars, drawn, alive>>
  BY DEF Client, MapEffect, UnmapEffect, RemoveMember, SetBrightness
<1>1. PixelInvariant'
  BY <1>0, FramePreserves DEF EffectInvariant
<1>2. /\ BuffersAgree' /\ CopyStaysInArray'
      /\ drawn' \in [Pixels -> Hsi] /\ alive' \in BOOLEAN
  BY <1>0 DEF EffectInvariant, BuffersAgree, CopyStaysInArray, EffectTypeOK, vars
<1>3. ASSUME NEW members \in SUBSET NewMembers, MapEffect(members)
      PROVE  EffectTypeOK' /\ SizesFollowGroup'
  <2>1. members \in SUBSET Members
    BY DEF NewMembers, Members
  <2>2. /\ group' = members /\ buffer' = BlackPixels(SizeOf(members)) /\ rebind' = TRUE
        /\ bufferSz' = 0 /\ asBuffer' = BlackPixels(0) /\ resized' = FALSE
    BY <1>3 DEF MapEffect
  <2>3. buffer' \in [0..(SizeOf(group') - 1) -> Hsi]
    BY <2>1, <2>2, MembersFit, BlackPixelsTyped
  <2> QED
    BY <1>2, <2>1, <2>2, <2>3, NoPixelsIsAnArray DEF EffectTypeOK, SizesFollowGroup
<1>4. ASSUME UnmapEffect
      PROVE  EffectTypeOK' /\ SizesFollowGroup'
  BY <1>2, <1>4, NoPixelsIsAnArray DEF UnmapEffect, EffectTypeOK, SizesFollowGroup
<1>5. ASSUME NEW m \in group, RemoveMember(m)
      PROVE  EffectTypeOK' /\ SizesFollowGroup'
  <2>1. /\ group' = group \ {m} /\ buffer' = BlackPixels(SizeOf(group')) /\ rebind' = TRUE
        /\ UNCHANGED <<bufferSz, asBuffer, resized>>
    BY <1>5 DEF RemoveMember
  <2>2. group' \in SUBSET Members
    BY <2>1 DEF EffectInvariant, EffectTypeOK
  <2>3. buffer' \in [0..(SizeOf(group') - 1) -> Hsi]
    BY <2>1, <2>2, MembersFit, BlackPixelsTyped
  <2> QED
    BY <1>2, <2>1, <2>2, <2>3 DEF EffectInvariant, EffectTypeOK, SizesFollowGroup
<1>6. ASSUME NEW m \in group, NEW level \in {0, 1}, SetBrightness(m, level)
      PROVE  EffectTypeOK' /\ SizesFollowGroup'
  <2> DEFINE n == [m EXCEPT !.brightness = level]
  <2>1. /\ group' = (group \ {m}) \cup {n}
        /\ UNCHANGED <<buffer, rebind, bufferSz, asBuffer, resized>>
    BY <1>6 DEF SetBrightness
  <2>2. group \subseteq Members /\ m \in Members
    BY DEF EffectInvariant, EffectTypeOK
  <2>3. PixelsOf(n) = PixelsOf(m) /\ n \in Members
    BY <2>2 DEF Members, PixelsOf
  <2> HIDE DEF n
  <2>4. Covered(group') = Covered(group)
    BY <2>1, <2>3 DEF Covered
  <2>5. SizeOf(group') = SizeOf(group)
    BY <2>4 DEF SizeOf
  <2>6. group # {}
    OBVIOUS
  <2> QED
    BY <1>2, <2>1, <2>2, <2>3, <2>5, <2>6
       DEF EffectInvariant, EffectTypeOK, SizesFollowGroup, Size
<1>7. EffectTypeOK' /\ SizesFollowGroup'
  BY <1>3, <1>4, <1>5, <1>6 DEF Client
<1> QED
  BY <1>1, <1>2, <1>7 DEF EffectInvariant

\* execute() leaves bufferSz and the array the size of the group, or resized.
LEMMA ExecutePreserves ==
  ASSUME EffectInvariant, NEW array \in Arrays, Execute(array),
         group # {}, group' = group
  PROVE  /\ SizesFollowGroup'
         /\ rebind' \in BOOLEAN /\ resized' \in BOOLEAN
         /\ bufferSz' \in Nat /\ asBuffer' \in Arrays
<1>1. /\ BoundSize = SizeOf(group) /\ BoundSize \in Nat
      /\ ~(resized /\ ~rebind) => Size(BoundArray) = BoundSize
  BY BoundSizes
<1>2. /\ bufferSz' = BoundSize /\ rebind' = FALSE /\ asBuffer' = array
      /\ resized' = (Size(array) # Size(BoundArray) \/ (resized /\ ~rebind))
  BY DEF Execute
<1>3. ~resized' => Size(asBuffer)' = bufferSz'
  BY <1>1, <1>2 DEF Size
<1> QED
  BY <1>1, <1>2, <1>3 DEF SizesFollowGroup

LEMMA RunEffectPreserves ==
  ASSUME EffectInvariant, alive, NEW array \in Arrays, RunEffect(array)
  PROVE  EffectInvariant'
<1>1. /\ group # {} /\ group' = group /\ alive' = alive /\ Execute(array)
      /\ BoundSize <= Size(array) /\ buffer' = CopyArray(array)
      /\ RunEffects(CopyIntoFramebuffer(CopyArray(array)))
      /\ drawn' = [p \in Pixels |-> IF p \in Covered(group) THEN Shown(array, p) ELSE drawn[p]]
  BY DEF RunEffect
<1>2. /\ buffer' \in [0..(SizeOf(group) - 1) -> Hsi]
      /\ drawn' \in [Pixels -> Hsi]
      /\ fb' = drawn'
  BY <1>1, FrameIsDrawn DEF RunEffects
<1>3. /\ SizesFollowGroup'
      /\ rebind' \in BOOLEAN /\ resized' \in BOOLEAN
      /\ bufferSz' \in Nat /\ asBuffer' \in Arrays
  BY <1>1, ExecutePreserves
<1>4. EffectTypeOK'
  BY <1>1, <1>2, <1>3 DEF EffectInvariant, EffectTypeOK
<1>5. BuffersAgree'
  BY <1>1, <1>2 DEF BuffersAgree, RunEffects
<1>6. PixelInvariant'
  BY <1>1, FrameIsDrawn, FramePreserves DEF EffectInvariant
<1>7. CopyStaysInArray'
  BY <1>1 DEF CopyStaysInArray
<1> QED
  BY <1>3, <1>4, <1>5, <1>6, <1>7 DEF EffectInvariant

\* The array is too short only when the script itself has made it so.
LEMMA CopyFailsPreserves ==
  ASSUME EffectInvariant, NEW array \in Arrays, CopyFails(array)
  PROVE  EffectInvariant'
<1>1. /\ group # {} /\ group' = group /\ Execute(array) /\ alive' = FALSE
      /\ BoundSize > Size(array)
      /\ UNCHANGED <<vars, buffer, drawn>>
  BY DEF CopyFails
<1>2. /\ SizesFollowGroup'
      /\ rebind' \in BOOLEAN /\ resized' \in BOOLEAN
      /\ bufferSz' \in Nat /\ asBuffer' \in Arrays
  BY <1>1, ExecutePreserves
<1>3. resized'
  <2>1. ~(resized /\ ~rebind) => Size(BoundArray) = BoundSize
    BY <1>1, BoundSizes
  <2>2. Size(array) \in Nat /\ BoundSize \in Nat
    BY <1>1, ArrayTyped, BoundSizes
  <2>3. Size(array) # BoundSize
    BY <1>1, <2>2
  <2> QED
    BY <1>1, <2>1, <2>3 DEF Execute
<1>4. EffectTypeOK'
  BY <1>1, <1>2 DEF EffectInvariant, EffectTypeOK
<1>5. BuffersAgree'
  BY <1>1 DEF EffectInvariant, BuffersAgree, vars
<1>6. CopyStaysInArray'
  BY <1>3 DEF CopyStaysInArray
<1>7. PixelInvariant'
  BY <1>1, FramePreserves DEF EffectInvariant
<1> QED
  BY <1>2, <1>4, <1>5, <1>6, <1>7 DEF EffectInvariant

LEMMA EffectStep == EffectInvariant /\ [EffectNext]_effectVars => EffectInvariant'
<1> SUFFICES ASSUME EffectInvariant, [EffectNext]_effectVars
             PROVE  EffectInvariant'
  OBVIOUS
<1>1. ASSUME UNCHANGED routineVars, PixelInvariant', BuffersAgree'
      PROVE  EffectInvariant'
  BY <1>1 DEF routineVars, EffectInvariant, EffectTypeOK, SizesFollowGroup,
              Size, CopyStaysInArray
<1>2. CASE alive /\ Client
  BY <1>2, ClientPreserves
<1>3. CASE alive /\ \E array \in Arrays : RunEffect(array) \/ CopyFails(array)
  BY <1>3, RunEffectPreserves, CopyFailsPreserves
<1>4. CASE ConvertPixels /\ UNCHANGED routineVars
  <2>1. PixelInvariant' /\ BuffersAgree'
    BY <1>4, FramePreserves DEF EffectInvariant, BuffersAgree, ConvertPixels, routineVars
  <2> QED
    BY <1>1, <1>4, <2>1
<1>5. CASE OutputPixelData /\ UNCHANGED routineVars
  <2>1. PixelInvariant' /\ BuffersAgree'
    BY <1>5, OutputPreserves DEF EffectInvariant, BuffersAgree, OutputPixelData, routineVars
  <2> QED
    BY <1>1, <1>5, <2>1
<1>6. CASE UNCHANGED effectVars
  <2>1. PixelInvariant' /\ BuffersAgree'
    BY <1>6, FramePreserves DEF EffectInvariant, BuffersAgree, effectVars, vars, routineVars
  <2> QED
    BY <1>1, <1>6, <2>1 DEF effectVars
<1> QED
  BY <1>2, <1>3, <1>4, <1>5, <1>6 DEF EffectNext, Coordinator, Ended

\* For every number of pixels, whatever is drawn and however often sending
\* fails: outputPixelData, which compares two frames and sends the front of the
\* buffer, owes the node no pixel but those that were the last of their frame to
\* change, or changed in a frame whose data was dropped, and were not sent since.
THEOREM OnlyMissedPixelsAreStale == EffectSpec => []OnlyMissedPixelsDiffer
<1>1. EffectInvariant => OnlyMissedPixelsDiffer
  BY DEF EffectInvariant, PixelInvariant
<1> QED
  BY <1>1, EffectInitHolds, EffectStep, PTL DEF EffectSpec

\* For every number of pixels and every script: what a node was sent for a
\* pixel whose last change was not missed is what the script had drawn for it
\* last, however groups and ubergroups are mapped, shrunk or dimmed between the
\* frames (execute, copyIntoFramebuffer).
THEOREM DrawnPixelsAreSent == EffectSpec => []SentIsDrawn
<1>1. EffectInvariant => SentIsDrawn
  <2> SUFFICES ASSUME EffectInvariant, pc = "frame", NEW p \in Pixels \ missed
               PROVE  sent[p] = Convert[drawn[p]]
    BY DEF SentIsDrawn
  <2>1. sent[p] = channelBuffer[p]
    BY DEF EffectInvariant, PixelInvariant, OnlyMissedPixelsDiffer
  <2>2. channelBuffer = [q \in Pixels |-> Convert[fb[q]]] /\ fb = drawn
    BY DEF EffectInvariant, BuffersAgree
  <2> QED
    BY <2>1, <2>2
<1> QED
  BY <1>1, EffectInitHolds, EffectStep, PTL DEF EffectSpec

\* Copying a script's array into the group's buffer never reads past its end,
\* for groups of any size that shrink at any time, unless the script itself
\* has resized the array (attachBuffer, _copyASBufferArrayData).
THEOREM CopiesStayInArray == EffectSpec => []CopyStaysInArray
<1>1. EffectInvariant => CopyStaysInArray
  BY DEF EffectInvariant
<1> QED
  BY <1>1, EffectInitHolds, EffectStep, PTL DEF EffectSpec

---------------------------------------------------------------------------
(***************************************************************************)
(* FramebufferLayout.                                                      *)
(***************************************************************************)
\* The rows of a mapped entry, or of the groups the framebuffer is sized for.
Entries == UNION {[S -> Ranges] : S \in SUBSET Ids}

Chosen(s) == CHOOSE x \in s : TRUE

\* What one more step of the sum over the groups s of f makes of the sums of
\* smaller sets.
OneMore(f, sums, s) ==
  IF s = {} THEN 0 ELSE numPixels(f[Chosen(s)]) + sums[s \ {Chosen(s)}]

\* The function the fold in SumOfPixels is defined by.
PixelSums(f) == CHOOSE sums : sums = [s \in SUBSET DOMAIN f |-> OneMore(f, sums, s)]

LEMMA SumIsFold ==
  ASSUME NEW f
  PROVE  SumOfPixels(f) = PixelSums(f)[DOMAIN f]
BY DEF SumOfPixels, MapThenSumSet, MapThenFoldSet, PixelSums, OneMore, Chosen

LEMMA EntryProperties ==
  ASSUME NEW f \in Entries
  PROVE  /\ IsFiniteSet(DOMAIN f) /\ DOMAIN f \subseteq Ids
         /\ \A g \in DOMAIN f : f[g] \in Ranges /\ f[g].start \in Int /\ f[g].end \in Int
                                /\ numPixels(f[g]) \in Int
<1>1. PICK S \in SUBSET Ids : f \in [S -> Ranges]
  BY DEF Entries
<1>2. IsFiniteSet(S)
  BY <1>1, IdsAreFinite, FS_Subset
<1>3. \A r \in Ranges : r.start \in Int /\ r.end \in Int
  BY RangesAreIntegers
<1> QED
  BY <1>1, <1>2, <1>3 DEF numPixels

\* The sums of the sets of at most n groups exist.
SumsUpTo(f, n) ==
  \E sums : \A s \in SUBSET DOMAIN f : Cardinality(s) <= n => sums[s] = OneMore(f, sums, s)

LEMMA SumsExist ==
  ASSUME NEW f \in Entries, NEW n \in Nat
  PROVE  SumsUpTo(f, n)
<1> DEFINE Missing == {k \in Nat : ~SumsUpTo(f, k)}
           D == DOMAIN f
<1>0. IsFiniteSet(D)
  BY EntryProperties
<1>1. \A s \in SUBSET D : IsFiniteSet(s) /\ Cardinality(s) \in Nat
  BY <1>0, FS_Subset, FS_CardinalityType
<1>2. \A s \in SUBSET D : s # {} => /\ Chosen(s) \in s
                                    /\ s \ {Chosen(s)} \in SUBSET D
                                    /\ Cardinality(s \ {Chosen(s)}) = Cardinality(s) - 1
  <2> SUFFICES ASSUME NEW s \in SUBSET D, s # {}
               PROVE  /\ Chosen(s) \in s
                      /\ Cardinality(s \ {Chosen(s)}) = Cardinality(s) - 1
    OBVIOUS
  <2>1. Chosen(s) \in s
    BY DEF Chosen
  <2> QED
    BY <1>1, <2>1, FS_RemoveElement
<1>3. SumsUpTo(f, 0)
  <2> DEFINE zero == [s \in SUBSET D |-> 0]
  <2>1. \A s \in SUBSET D : Cardinality(s) <= 0 => s = {}
    BY <1>1, FS_EmptySet
  <2>2. \A s \in SUBSET D : Cardinality(s) <= 0 => zero[s] = OneMore(f, zero, s)
    BY <2>1 DEF OneMore
  <2> QED
    BY <2>2 DEF SumsUpTo
<1>4. ASSUME NEW k \in Nat, SumsUpTo(f, k)
      PROVE  SumsUpTo(f, k + 1)
  <2>1. PICK sums : \A s \in SUBSET D : Cardinality(s) <= k => sums[s] = OneMore(f, sums, s)
    BY <1>4 DEF SumsUpTo
  <2> DEFINE more == [s \in SUBSET D |-> OneMore(f, sums, s)]
  <2>2. \A s \in SUBSET D : Cardinality(s) <= k => more[s] = sums[s]
    BY <2>1
  <2>3. ASSUME NEW s \in SUBSET D, Cardinality(s) <= k + 1
        PROVE  more[s] = OneMore(f, more, s)
    <3>1. ASSUME s # {}
          PROVE  more[s \ {Chosen(s)}] = sums[s \ {Chosen(s)}]
      <4>1. s \ {Chosen(s)} \in SUBSET D /\ Cardinality(s \ {Chosen(s)}) = Cardinality(s) - 1
        BY <1>2, <3>1
      <4>2. Cardinality(s \ {Chosen(s)}) <= k
        BY <1>1, <2>3, <4>1
      <4> HIDE DEF more
      <4> QED
        BY <2>2, <4>1, <4>2
    <3>2. more[s] = OneMore(f, sums, s)
      OBVIOUS
    <3> HIDE DEF more
    <3> QED
      BY <3>1, <3>2 DEF OneMore
  <2> HIDE DEF more
  <2> QED
    BY <2>3 DEF SumsUpTo
<1>5. ASSUME Missing # {}
      PROVE  FALSE
  <2>1. PICK d \in Missing : \A e \in Missing : e >= d
    <3> HIDE DEF Missing
    <3>1. Missing \in SUBSET Nat
      BY DEF Missing
    <3> QED
      BY <1>5, <3>1, LeastNatural
  <2>2. d \in Nat /\ d # 0 /\ ~SumsUpTo(f, d)
    BY <1>3
  <2>3. d - 1 \in Nat /\ d - 1 \notin Missing
    BY <2>1, <2>2
  <2>4. SumsUpTo(f, d - 1)
    BY <2>3
  <2>5. SumsUpTo(f, (d - 1) + 1)
    BY <1>4, <2>3, <2>4
  <2> QED
    BY <2>2, <2>5
<1> QED
  BY <1>5

\* SumOfPixels is the sum: the fold takes one group after the other out of the
\* set, whatever the order.
LEMMA PixelSumsEquation ==
  ASSUME NEW f \in Entries, NEW s \in SUBSET DOMAIN f
  PROVE  PixelSums(f)[s] = OneMore(f, PixelSums(f), s)
<1> DEFINE D == DOMAIN f
           Fits(sums) == sums = [t \in SUBSET D |-> OneMore(f, sums, t)]
<1>1. IsFiniteSet(D) /\ Cardinality(D) \in Nat
  BY EntryProperties, FS_CardinalityType
<1>2. \A t \in SUBSET D : Cardinality(t) <= Cardinality(D)
  BY <1>1, FS_Subset
<1>3. PICK sums : \A t \in SUBSET D : sums[t] = OneMore(f, sums, t)
  BY <1>1, <1>2, SumsExist DEF SumsUpTo
<1> DEFINE whole == [t \in SUBSET D |-> OneMore(f, sums, t)]
<1>4. Fits(whole)
  <2>1. \A t \in SUBSET D : whole[t] = sums[t]
    BY <1>3
  <2>2. \A t \in SUBSET D : OneMore(f, whole, t) = OneMore(f, sums, t)
    <3> SUFFICES ASSUME NEW t \in SUBSET D
                 PROVE  OneMore(f, whole, t) = OneMore(f, sums, t)
      OBVIOUS
    <3>1. whole[t \ {Chosen(t)}] = sums[t \ {Chosen(t)}]
      BY <2>1
    <3> HIDE DEF whole
    <3> QED
      BY <3>1 DEF OneMore
  <2> QED
    BY <2>2
<1>5. Fits(PixelSums(f))
  <2>1. PixelSums(f) = CHOOSE x : Fits(x)
    BY DEF PixelSums
  <2> HIDE DEF Fits
  <2> QED
    BY <1>4, <2>1
<1> QED
  BY <1>5

\* A sum of pixels is an integer.
LEMMA SumsAreIntegers ==
  ASSUME NEW f \in Entries
  PROVE  \A s \in SUBSET DOMAIN f : PixelSums(f)[s] \in Int
<1> DEFINE Wrong == {s \in SUBSET DOMAIN f : PixelSums(f)[s] \notin Int}
<1>1. ASSUME Wrong # {}
      PROVE  FALSE
  <2>1. IsFiniteSet(DOMAIN f) /\ \A g \in DOMAIN f : numPixels(f[g]) \in Int
    BY EntryProperties
  <2>2. PICK s \in Wrong : \A x \in s : s \ {x} \notin Wrong
    <3>1. Wrong \in SUBSET (SUBSET DOMAIN f)
      OBVIOUS
    <3> HIDE DEF Wrong
    <3> QED
      BY <1>1, <2>1, <3>1, LeastSubset
  <2>3. s \in SUBSET DOMAIN f /\ PixelSums(f)[s] \notin Int
    OBVIOUS
  <2>4. PixelSums(f)[s] = OneMore(f, PixelSums(f), s)
    BY <2>3, PixelSumsEquation
  <2>5. s # {} => Chosen(s) \in s /\ PixelSums(f)[s \ {Chosen(s)}] \in Int
    BY <2>2, <2>3 DEF Chosen
  <2> QED
    BY <2>1, <2>3, <2>4, <2>5 DEF OneMore
<1> QED
  BY <1>1

\* The pixels the groups s of f write.
Painted(f, s) == UNION {WrittenByCopy(f[g]) : g \in s}

\* Where no group counts negatively, the sum of the groups s has room for each
\* of them, and for all the pixels they write.
HasRoom(f, s) ==
  /\ PixelSums(f)[s] >= 0
  /\ \A g \in s : numPixels(f[g]) <= PixelSums(f)[s]
  /\ IsFiniteSet(Painted(f, s))
  /\ Cardinality(Painted(f, s)) <= PixelSums(f)[s]

LEMMA OneMoreHasRoom ==
  ASSUME NEW f \in Entries, NEW s \in SUBSET DOMAIN f, NEW x \in s,
         PixelSums(f)[s] = numPixels(f[x]) + PixelSums(f)[s \ {x}],
         numPixels(f[x]) >= 0, HasRoom(f, s \ {x})
  PROVE  HasRoom(f, s)
<1> DEFINE before == PixelSums(f)[s \ {x}]
           others == Painted(f, s \ {x})
           own == WrittenByCopy(f[x])
<1>1. /\ \A g \in s : numPixels(f[g]) \in Int
      /\ f[x].start \in Int /\ f[x].end \in Int
  BY EntryProperties
<1>2. before \in Int /\ PixelSums(f)[s] \in Int
  BY SumsAreIntegers
<1>3. before >= 0 /\ PixelSums(f)[s] = numPixels(f[x]) + before
  BY DEF HasRoom
<1>4. PixelSums(f)[s] >= 0
  BY <1>1, <1>2, <1>3
<1>5. ASSUME NEW g \in s
      PROVE  numPixels(f[g]) <= PixelSums(f)[s]
  <2>1. g # x => numPixels(f[g]) <= before
    BY DEF HasRoom
  <2> QED
    BY <1>1, <1>2, <1>3, <2>1
<1>6. Painted(f, s) = others \cup own
  BY DEF Painted
<1>7. IsFiniteSet(own) /\ Cardinality(own) = numPixels(f[x])
  <2>1. IsFiniteSet(own) /\ Cardinality(own) = IF f[x].start > f[x].end THEN 0
                                               ELSE f[x].end - f[x].start + 1
    BY <1>1, FS_Interval DEF WrittenByCopy
  <2> QED
    BY <1>1, <2>1 DEF numPixels
<1>8. IsFiniteSet(others) /\ Cardinality(others) <= before
  BY DEF HasRoom
<1>9. /\ IsFiniteSet(others \cup own)
      /\ Cardinality(others \cup own)
           = Cardinality(others) + Cardinality(own) - Cardinality(others \cap own)
  BY <1>7, <1>8, FS_Union
<1>10. Cardinality(others) \in Nat /\ Cardinality(others \cap own) \in Nat
  BY <1>8, FS_CardinalityType, FS_Intersection
<1>11. Cardinality(others \cup own) <= PixelSums(f)[s]
  <2> HIDE DEF others, own, before
  <2> QED
    BY <1>1, <1>2, <1>3, <1>7, <1>8, <1>9, <1>10
<1> QED
  BY <1>4, <1>5, <1>6, <1>9, <1>11 DEF HasRoom

LEMMA SumsHaveRoom ==
  ASSUME NEW f \in Entries, \A g \in DOMAIN f : numPixels(f[g]) >= 0
  PROVE  HasRoom(f, DOMAIN f)
<1> DEFINE Without == {s \in SUBSET DOMAIN f : ~HasRoom(f, s)}
<1>1. ASSUME Without # {}
      PROVE  FALSE
  <2>1. IsFiniteSet(DOMAIN f)
    BY EntryProperties
  <2>2. PICK s \in Without : \A x \in s : s \ {x} \notin Without
    <3>1. Without \in SUBSET (SUBSET DOMAIN f)
      OBVIOUS
    <3> HIDE DEF Without
    <3> QED
      BY <1>1, <2>1, <3>1, LeastSubset
  <2>3. s \in SUBSET DOMAIN f /\ ~HasRoom(f, s)
    OBVIOUS
  <2>4. PixelSums(f)[s] = OneMore(f, PixelSums(f), s)
    BY <2>3, PixelSumsEquation
  <2>5. CASE s = {}
    <3>1. PixelSums(f)[s] = 0
      BY <2>4, <2>5 DEF OneMore
    <3>2. Painted(f, s) = {}
      BY <2>5 DEF Painted
    <3> QED
      BY <2>3, <2>5, <3>1, <3>2, FS_EmptySet DEF HasRoom
  <2>6. CASE s # {}
    <3>1. Chosen(s) \in s
      BY <2>6 DEF Chosen
    <3>2. HasRoom(f, s \ {Chosen(s)})
      BY <2>2, <2>3, <3>1
    <3>3. PixelSums(f)[s] = numPixels(f[Chosen(s)]) + PixelSums(f)[s \ {Chosen(s)}]
      BY <2>4, <2>6 DEF OneMore
    <3> QED
      BY <2>3, <3>1, <3>2, <3>3, OneMoreHasRoom
  <2> QED
    BY <2>5, <2>6
<1> QED
  BY <1>1

---------------------------------------------------------------------------
\* The shape of the tables, and that the framebuffer has the size that was
\* added up when the server started.
LayoutInvariant ==
  /\ rows \in [Ids -> Ranges \cup {NoRow}]
  /\ sizedFor \in Entries
  /\ outputMap \subseteq Entries
  /\ serving => fbSize = SumOfPixels(sizedFor)

LEMMA StoredGroupsAreEntry ==
  ASSUME rows \in [Ids -> Ranges \cup {NoRow}]
  PROVE  StoredGroups \in Entries
<1> DEFINE S == {g \in Ids : rows[g] # NoRow}
<1>1. StoredGroups \in [S -> Ranges]
  BY DEF StoredGroups
<1> QED
  BY <1>1 DEF Entries

LEMMA MapWithoutAreEntries ==
  ASSUME outputMap \subseteq Entries, NEW ids
  PROVE  MapWithout(ids) \subseteq Entries
<1> SUFFICES ASSUME NEW f \in outputMap
             PROVE  Restrict(f, DOMAIN f \ ids) \in Entries
  BY DEF MapWithout
<1>1. PICK S \in SUBSET Ids : f \in [S -> Ranges]
  BY DEF Entries
<1>2. Restrict(f, DOMAIN f \ ids) \in [S \ ids -> Ranges]
  BY <1>1 DEF Restrict
<1> QED
  BY <1>1, <1>2 DEF Entries

LEMMA LayoutInitially == LayoutInit => LayoutInvariant
<1> SUFFICES ASSUME LayoutInit PROVE LayoutInvariant
  OBVIOUS
<1>1. <<>> \in [{} -> Ranges]
  OBVIOUS
<1>2. sizedFor \in Entries
  BY <1>1 DEF LayoutInit, Entries
<1> QED
  BY <1>2 DEF LayoutInit, LayoutInvariant

LEMMA LayoutStep == LayoutInvariant /\ [LayoutNext]_layoutVars => LayoutInvariant'
<1> SUFFICES ASSUME LayoutInvariant, [LayoutNext]_layoutVars
             PROVE  LayoutInvariant'
  OBVIOUS
<1> USE DEF LayoutInvariant
<1>1. CASE Start
  <2>1. StoredGroups \in Entries
    BY StoredGroupsAreEntry
  <2> QED
    BY <1>1, <2>1 DEF Start
<1>2. CASE Stop
  BY <1>2 DEF Stop
<1>3. ASSUME NEW g \in Ids, NEW r \in Ranges, NewGroup(g, r)
      PROVE  LayoutInvariant'
  BY <1>3 DEF NewGroup
<1>4. ASSUME NEW g \in Ids, NEW r \in Ranges, UpdateGroup(g, r)
      PROVE  LayoutInvariant'
  BY <1>4 DEF UpdateGroup
<1>5. ASSUME NEW ids \in SUBSET Ids, AddMapping(ids)
      PROVE  LayoutInvariant'
  <2>1. [g \in ids |-> rows[g]] \in [ids -> Ranges]
    BY <1>5 DEF AddMapping
  <2>2. [g \in ids |-> rows[g]] \in Entries
    BY <2>1 DEF Entries
  <2>3. MapWithout(ids) \subseteq Entries
    BY MapWithoutAreEntries
  <2> QED
    BY <1>5, <2>2, <2>3 DEF AddMapping
<1>6. ASSUME NEW g \in Ids, RemoveMapping(g)
      PROVE  LayoutInvariant'
  <2>1. MapWithout({g}) \subseteq Entries
    BY MapWithoutAreEntries
  <2> QED
    BY <1>6, <2>1 DEF RemoveMapping
<1>7. CASE UNCHANGED layoutVars
  BY <1>7 DEF layoutVars
<1> QED
  BY <1>1, <1>2, <1>3, <1>4, <1>5, <1>6, <1>7 DEF LayoutNext

LEMMA LayoutIsInvariant == LayoutSpec => []LayoutInvariant
BY LayoutInitially, LayoutStep, PTL DEF LayoutSpec

\* OutputGroup::_resizeBuffer gives the buffer of an entry enough room for
\* each of its groups: copyIntoFramebuffer reads inside it, for any groups
\* and ranges, as long as none of the entry's groups counts negatively.
THEOREM CopiesStayInBuffers == LayoutSpec => []CopyStaysInBuffer
<1>1. LayoutInvariant => CopyStaysInBuffer
  <2> SUFFICES ASSUME LayoutInvariant, NEW f \in outputMap,
                      \A g \in DOMAIN f : numPixels(f[g]) >= 0,
                      NEW g \in DOMAIN f
               PROVE  ReadByCopy(f[g]) \subseteq 0..(BufferSize(f) - 1)
    BY DEF CopyStaysInBuffer
  <2>1. f \in Entries
    BY DEF LayoutInvariant
  <2>2. numPixels(f[g]) \in Int /\ SumOfPixels(f) \in Int
    BY <2>1, EntryProperties, SumsAreIntegers, SumIsFold
  <2>3. SumOfPixels(f) >= 0 /\ numPixels(f[g]) <= SumOfPixels(f)
    BY <2>1, SumsHaveRoom, SumIsFold DEF HasRoom
  <2>4. BufferSize(f) = SumOfPixels(f)
    BY <2>2, <2>3 DEF BufferSize
  <2> QED
    BY <2>2, <2>3, <2>4 DEF ReadByCopy
<1> QED
  BY <1>1, LayoutIsInvariant, PTL

\* The pixels from zero to the end of a group are all painted by some group,
\* so there are no more of them than were added up.
LEMMA GaplessEndsInside ==
  ASSUME NEW f \in Entries, WithoutGap(f), NEW g \in DOMAIN f
  PROVE  WrittenByCopy(f[g]) \subseteq 0..(SumOfPixels(f) - 1)
<1> DEFINE all == Painted(f, DOMAIN f)
<1>1. f[g].start \in Int /\ f[g].end \in Int /\ SumOfPixels(f) \in Int
  BY EntryProperties, SumsAreIntegers, SumIsFold
<1>2. f[g].start >= 0 /\ 0..f[g].end \subseteq all
  BY DEF WithoutGap, Painted
<1>3. IsFiniteSet(all) /\ Cardinality(all) \in Nat /\ Cardinality(all) <= SumOfPixels(f)
  BY SumsHaveRoom, SumIsFold, FS_CardinalityType DEF HasRoom, WithoutGap
<1>4. CASE f[g].end < 0
  BY <1>1, <1>2, <1>4 DEF WrittenByCopy
<1>5. CASE f[g].end >= 0
  <2>1. Cardinality(0..f[g].end) = f[g].end + 1
    BY <1>1, <1>5, FS_Interval
  <2>2. Cardinality(0..f[g].end) <= Cardinality(all)
    BY <1>2, <1>3, FS_Subset
  <2>3. f[g].end + 1 <= SumOfPixels(f)
    <3> HIDE DEF all
    <3> QED
      BY <1>1, <1>3, <2>1, <2>2
  <2> QED
    BY <1>1, <1>2, <2>3 DEF WrittenByCopy
<1> QED
  BY <1>1, <1>4, <1>5

\* Framebuffer::recalculateMinSize only adds up, and that is enough for any
\* number of groups that leave no gap: copyIntoFramebuffer writes inside the
\* framebuffer for every mapped group that is still as it was sized for.
THEOREM GaplessLayoutsFit == LayoutSpec => []GaplessGroupsFit
<1>1. LayoutInvariant => GaplessGroupsFit
  <2> SUFFICES ASSUME LayoutInvariant, serving, WithoutGap(sizedFor),
                      NEW f \in outputMap, NEW g \in DOMAIN f \cap DOMAIN sizedFor,
                      f[g] = sizedFor[g]
               PROVE  WrittenByCopy(f[g]) \subseteq 0..(fbSize - 1)
    BY DEF GaplessGroupsFit
  <2>1. sizedFor \in Entries /\ fbSize = SumOfPixels(sizedFor)
    BY DEF LayoutInvariant
  <2>2. WrittenByCopy(sizedFor[g]) \subseteq 0..(SumOfPixels(sizedFor) - 1)
    BY <2>1, GaplessEndsInside
  <2> QED
    BY <2>1, <2>2
<1> QED
  BY <1>1, LayoutIsInvariant, PTL
===========================================================================
