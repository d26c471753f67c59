------------------------- MODULE FramebufferLayout -------------------------
(***************************************************************************)
(* Where the pixels of the groups go (Framebuffer.cpp, OutputMapper.cpp).  *)
(* The framebuffer is sized once, from the groups in the datastore when    *)
(* the server starts.  A mapped OutputGroup keeps the copy of the group's  *)
(* row it was built from; clients change the rows behind it.               *)
(*                                                                         *)
(* An entry of outputMap is written here as the rows its groups were built *)
(* from, by id: a plain group has one, an ubergroup has several.           *)
(***************************************************************************)
EXTENDS Integers, FiniteSetsExt, Functions

CONSTANTS
  Ids,      \* ids of the groups
  Ranges,   \* what clients store as start and end of a group
  NoRow     \* there is no such row

ASSUME RangesAreIntegers == Ranges \subseteq [start : Int, end : Int]
ASSUME IdsAreFinite == IsFiniteSet(Ids)

VARIABLES
  rows,        \* the groups table
  serving,     \* the server is up
  fbSize,      \* elements of Framebuffer::data
  sizedFor,    \* history: the rows the framebuffer was sized for
  outputMap    \* the mapped groups

layoutVars == <<rows, serving, fbSize, sizedFor, outputMap>>

\* DbGroup::numPixels
numPixels(r) == r.end - r.start + 1

SumOfPixels(f) == MapThenSumSet(LAMBDA g : numPixels(f[g]), DOMAIN f)

\* Mutant of BufferSize: room for the largest group of the entry only,
\* counted from its end.
BufferSizeOfLargest(entry) == Max({entry[g].end - entry[g].start : g \in DOMAIN entry})

\* OutputGroup::_resizeBuffer: what is allocated for an entry; a size that is
\* negative as an int is more than calloc can give.
BufferSize(entry) ==
  IF SumOfPixels(entry) > 0 THEN SumOfPixels(entry) ELSE 0

\* copyIntoFramebuffer: each group reads its entry's buffer from the start,
\* and writes the framebuffer from r.start to r.end.
ReadByCopy(r) == 0..(numPixels(r) - 1)
WrittenByCopy(r) == r.start..r.end

StoredGroups == [g \in {g \in Ids : rows[g] # NoRow} |-> rows[g]]

LayoutInit ==
  /\ rows = [g \in Ids |-> NoRow]
  /\ serving = FALSE
  /\ fbSize = 0
  /\ sizedFor = <<>>
  /\ outputMap = {}

\* Mutant of Start: the size is not taken anew.
StartOnOldSize ==
  /\ ~serving
  /\ serving' = TRUE
  /\ sizedFor' = StoredGroups
  /\ outputMap' = {}
  /\ UNCHANGED <<rows, fbSize>>

\* The server starts: recalculateMinSize adds up the groups' pixels.  A
\* negative sum makes vector::resize throw, and the server does not start.
Start ==
  /\ ~serving
  /\ SumOfPixels(StoredGroups) >= 0
  /\ serving' = TRUE
  /\ fbSize' = SumOfPixels(StoredGroups)
  /\ sizedFor' = StoredGroups
  /\ outputMap' = {}
  /\ UNCHANGED rows

Stop == serving /\ serving' = FALSE /\ UNCHANGED <<rows, fbSize, sizedFor, outputMap>>

\* clientRequestNewGroup
NewGroup(g, r) ==
  /\ serving
  /\ rows[g] = NoRow
  /\ rows' = [rows EXCEPT ![g] = r]
  /\ UNCHANGED <<serving, fbSize, sizedFor, outputMap>>

\* clientRequestUpdateGroup
UpdateGroup(g, r) ==
  /\ serving
  /\ rows[g] # NoRow
  /\ rows' = [rows EXCEPT ![g] = r]
  /\ UNCHANGED <<serving, fbSize, sizedFor, outputMap>>

\* What is left to draw once the groups ids are taken out of the map (an
\* ubergroup that stays in it without members draws nothing).
MapWithout(ids) ==
  {Restrict(entry, DOMAIN entry \ ids) : entry \in outputMap} \ {<<>>}

\* clientRequestAddMapping: the new output groups hold copies of the rows.
AddMapping(ids) ==
  /\ serving
  /\ ids # {}
  /\ \A g \in ids : rows[g] # NoRow
  /\ outputMap' = MapWithout(ids) \cup {[g \in ids |-> rows[g]]}
  /\ UNCHANGED <<rows, serving, fbSize, sizedFor>>

\* clientRequestRemoveMapping for one group.
RemoveMapping(g) ==
  /\ serving
  /\ rows[g] # NoRow
  /\ outputMap' = MapWithout({g})
  /\ UNCHANGED <<rows, serving, fbSize, sizedFor>>

LayoutNext ==
  \/ Start \/ Stop
  \/ \E g \in Ids, r \in Ranges : NewGroup(g, r) \/ UpdateGroup(g, r)
  \/ \E ids \in SUBSET Ids : AddMapping(ids)
  \/ \E g \in Ids : RemoveMapping(g)

LayoutSpec == LayoutInit /\ [][LayoutNext]_layoutVars

---------------------------------------------------------------------------
\* A group never reads past the buffer of its entry, whatever rows its
\* entry's groups were built from and whichever of them have left it
\* (_resizeBuffer, copyIntoFramebuffer).  "Allocates the correct amount of
\* memory" (OutputMapper.cpp:315).  The promise is kept up to groups that
\* count negatively: a member whose end is in front of its start takes room
\* from the others.
CopyStaysInBuffer ==
  \A entry \in outputMap :
    (\A g \in DOMAIN entry : numPixels(entry[g]) >= 0) =>
      \A g \in DOMAIN entry : ReadByCopy(entry[g]) \subseteq 0..(BufferSize(entry) - 1)

\* The groups f leave no gap: every pixel from zero to the end of one of them
\* belongs to one.
WithoutGap(f) ==
  \A g \in DOMAIN f :
    /\ f[g].start >= 0 /\ numPixels(f[g]) >= 0
    /\ 0..f[g].end \subseteq UNION {WrittenByCopy(f[h]) : h \in DOMAIN f}

\* Adding up the pixels, without a look at where they are, is enough for groups
\* that leave no gap, even if they overlap: as long as such a layout is left
\* alone, a mapped group is drawn inside the framebuffer (recalculateMinSize).
GaplessGroupsFit ==
  serving /\ WithoutGap(sizedFor) =>
    \A entry \in outputMap : \A g \in DOMAIN entry \cap DOMAIN sizedFor :
      entry[g] = sizedFor[g] => WrittenByCopy(entry[g]) \subseteq 0..(fbSize - 1)
===========================================================================
