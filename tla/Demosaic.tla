------------------------------ MODULE Demosaic ------------------------------
(***************************************************************************)
(* The two demosaicing loops of the native code, which make three channels *)
(* of the one that a Bayer sensor has measured at each pixel:              *)
(*   "dcraw"   interpolateGreen and interpolateRedBlue, for one tile;      *)
(*   "libraw"  LZLibRaw::lz_interpolate, for an image.                     *)
(*                                                                         *)
(* Each is a sequence of passes over the rows, which a team of OpenMP      *)
(* threads shares out; at the end of a pass the team waits for all of its  *)
(* threads, unless the loop says nowait.  A sample is <<x, y, channel>>;   *)
(* of its value only matters whether it has been set.                      *)
(***************************************************************************)
EXTENDS Integers, FiniteSets, Sequences

CONSTANTS
  Threads,
  Images      (* records [program, width, height, gx, gy, rx, ry, bx, by]  *)

NoRow == -1

(* The colour filters of RGBDemosaicOpImage: where in a 2 by 2 cell the    *)
(* green pixel of row gy, the red one and the blue one are.                *)
BayerFilters ==
  {[gx |-> 1, gy |-> 0, rx |-> 1, ry |-> 1, bx |-> 0, by |-> 0],
   [gx |-> 0, gy |-> 0, rx |-> 1, ry |-> 0, bx |-> 0, by |-> 1],
   [gx |-> 0, gy |-> 0, rx |-> 0, ry |-> 1, bx |-> 1, by |-> 0],
   [gx |-> 1, gy |-> 0, rx |-> 0, ry |-> 0, bx |-> 1, by |-> 1]}

ASSUME DemosaicAssumption ==
  /\ Threads # {}
  /\ Images \subseteq [program : {"dcraw", "libraw"}, width : Nat, height : Nat,
                       filter : BayerFilters]

VARIABLES
  image,      (* the image at hand                                         *)
  team,       (* thread -> its pass, and the row it is at                  *)
  handed,     (* pass -> the rows that have been handed out                *)
  set         (* samples that have been set                                *)

vars == <<image, team, handed, set>>

-----------------------------------------------------------------------------
f == image.filter
Columns == 0..image.width - 1
AllRows == 0..image.height - 1

GreenAt(x, y) == x % 2 = IF y % 2 = f.gy THEN f.gx ELSE 1 - f.gx

(* The other channel that is measured in a row.                            *)
RowColor(y) == IF y % 2 = f.ry THEN "r" ELSE "b"
OtherColor(y) == IF y % 2 = f.ry THEN "b" ELSE "r"

Measured == {<<x, y, IF GreenAt(x, y) THEN "g" ELSE RowColor(y)>> : x \in Columns, y \in AllRows}

(* border_interpolate(2) of LibRaw (external) sets all channels there.     *)
Border ==
  {s \in Columns \X AllRows \X {"r", "g", "b"} :
     s[1] \notin 2..image.width - 3 \/ s[2] \notin 2..image.height - 3}

(* Mutant of Passes: the red samples are made before the green ones.       *)
PassesSwapped ==
  IF image.program = "dcraw" THEN <<"copy", "refine", "red", "green", "blue">>
                             ELSE <<"lzGreen", "lzRefine", "lzAtGreen", "lzAtOther">>

Passes ==
  IF image.program = "dcraw" THEN <<"copy", "green", "refine", "red", "blue">>
                             ELSE <<"lzGreen", "lzRefine", "lzAtGreen", "lzAtOther">>

(* The rows that a pass loops over.                                        *)
Rows(p) ==
  CASE p = "copy" -> AllRows
    [] p \in {"green", "refine", "lzGreen", "lzRefine"} -> 2..image.height - 3
    [] p = "red"  -> {y \in f.ry + 1..image.height - 2 : y % 2 # f.ry}
    [] p = "blue" -> {y \in f.by + 1..image.height - 2 : y % 2 # f.by}
    [] p \in {"lzAtGreen", "lzAtOther"} -> 1..image.height - 2

(* The columns of row y that it stops at.                                  *)
Sites(p, y) ==
  CASE p = "copy" -> Columns
    [] p \in {"green", "lzGreen", "lzRefine"} -> {x \in 2..image.width - 3 : ~GreenAt(x, y)}
    [] p = "refine" -> {x \in 2..image.width - 3 : GreenAt(x, y)}
    [] p = "red"  -> {x \in f.rx + 1..image.width - 2 : x % 2 # f.rx}
    [] p = "blue" -> {x \in f.bx + 1..image.width - 2 : x % 2 # f.bx}
    [] p = "lzAtGreen" -> {x \in 1..image.width - 2 : GreenAt(x, y)}
    [] p = "lzAtOther" -> {x \in 1..image.width - 2 : ~GreenAt(x, y)}

(* Offsets of neighbours.                                                  *)
Sides(n)    == {<<-n, 0>>, <<n, 0>>}
Ends(n)     == {<<0, -n>>, <<0, n>>}
Corners(n)  == {<<-n, -n>>, <<n, -n>>, <<-n, n>>, <<n, n>>}
Here        == {<<0, 0>>}

At(x, y, offsets, c) == {<<x + o[1], y + o[2], c>> : o \in offsets}

(* Mutants of RedBlueTargets: the sample on the right goes one too far;    *)
(* the one above is left out.                                              *)
TargetsFar == {<<0, 0>>, <<2, 0>>, <<0, -1>>}
TargetsFew == {<<0, 0>>, <<1, 0>>}

(* interpolateRedOrBlue() makes a sample of the pixel of the opposite      *)
(* colour, of the green one on its right and of the green one above it.    *)
RedBlueTargets == {<<0, 0>>, <<1, 0>>, <<0, -1>>}

(* What a pass reads for the site x of row y.                              *)
ReadsAt(p, x, y) ==
  CASE p = "copy" -> {}
    [] p \in {"green", "lzGreen"} ->
         At(x, y, Sides(1) \cup Ends(1), "g") \cup
         At(x, y, Here \cup Sides(2) \cup Ends(2), RowColor(y))
    [] p = "refine" ->
         At(x, y, Here \cup Sides(2) \cup Ends(2) \cup Corners(2), "g") \cup
         At(x, y, Here \cup Sides(2) \cup Ends(2) \cup Corners(2), RowColor(y))
    [] p = "lzRefine" ->
         At(x, y, Here \cup Sides(1) \cup Ends(1) \cup Corners(1), "g") \cup
         At(x, y, Here \cup Sides(2) \cup Ends(2) \cup Corners(2), RowColor(y))
    [] p \in {"red", "blue"} ->
         At(x, y, Corners(1) \cup RedBlueTargets, "g") \cup
         At(x, y, Corners(1), IF p = "red" THEN "r" ELSE "b")
    [] p = "lzAtGreen" ->
         At(x, y, Here \cup Sides(1) \cup Ends(1), "g") \cup
         At(x, y, Sides(1), RowColor(y)) \cup At(x, y, Ends(1), OtherColor(y))
    [] p = "lzAtOther" ->
         At(x, y, Here \cup Corners(1), "g") \cup At(x, y, Corners(1), OtherColor(y))

(* What it writes there.  refineGreenChannel() writes only where the other *)
(* colour is more than a quarter of the green: a sample not set is 0.      *)
WritesAt(p, x, y) ==
  CASE p = "copy" -> {<<x, y, IF GreenAt(x, y) THEN "g" ELSE RowColor(y)>>}
    [] p \in {"green", "lzGreen", "lzRefine"} -> {<<x, y, "g">>}
    [] p = "refine" -> {s \in {<<x, y, "g">>} : <<x, y, RowColor(y)>> \in set}
    [] p \in {"red", "blue"} ->
         At(x, y, RedBlueTargets, IF p = "red" THEN "r" ELSE "b")
    [] p = "lzAtGreen" -> {<<x, y, "r">>, <<x, y, "b">>}
    [] p = "lzAtOther" -> {<<x, y, OtherColor(y)>>}

Reads(p, y)  == UNION {ReadsAt(p, x, y) : x \in Sites(p, y)}
Writes(p, y) == UNION {WritesAt(p, x, y) : x \in Sites(p, y)}

-----------------------------------------------------------------------------
Init ==
  /\ image \in Images
  /\ team = [t \in Threads |-> [pass |-> 1, row |-> NoRow]]
  /\ handed = [i \in 1..5 |-> {}]
  /\ set = IF image.program = "dcraw" THEN {} ELSE Measured \cup Border

PassOf(t) == Passes[team[t].pass]
Busy(t) == team[t].row # NoRow
RowsLeft(i) == Rows(Passes[i]) \ handed[i]

(* A thread gets one of the rows that are left of its pass: the next one   *)
(* by the dynamic schedule, one of a chunk by the guided schedule.         *)
StartRow(t) ==
  /\ ~Busy(t) /\ team[t].pass <= Len(Passes)
  /\ \E y \in RowsLeft(team[t].pass) :
       /\ PassOf(t) \in {"red", "blue"} \/ \A z \in RowsLeft(team[t].pass) : y <= z
       /\ team' = [team EXCEPT ![t].row = y]
       /\ handed' = [handed EXCEPT ![team[t].pass] = @ \cup {y}]
  /\ UNCHANGED <<image, set>>

(* Mutant of EndRow: the thread goes on with the next row unasked.         *)
EndRowBeyond(t) ==
  /\ Busy(t)
  /\ set' = set \cup Writes(PassOf(t), team[t].row)
  /\ team' = [team EXCEPT ![t].row = @ + 1]
  /\ UNCHANGED <<image, handed>>

EndRow(t) ==
  /\ Busy(t)
  /\ set' = set \cup Writes(PassOf(t), team[t].row)
  /\ team' = [team EXCEPT ![t].row = NoRow]
  /\ UNCHANGED <<image, handed>>

(* Mutant of GoOn: a thread that comes too late for blue stays in red.     *)
GoOnToRows(t) ==
  /\ ~Busy(t) /\ team[t].pass <= Len(Passes) /\ PassOf(t) = "red"
  /\ RowsLeft(team[t].pass) = {} /\ RowsLeft(team[t].pass + 1) # {}
  /\ team' = [team EXCEPT ![t].pass = @ + 1]
  /\ UNCHANGED <<image, handed, set>>

(* The loop for red says nowait: a thread that finds no row left in it     *)
(* goes on to blue.                                                        *)
GoOn(t) ==
  /\ ~Busy(t) /\ team[t].pass <= Len(Passes) /\ PassOf(t) = "red"
  /\ RowsLeft(team[t].pass) = {}
  /\ team' = [team EXCEPT ![t].pass = @ + 1]
  /\ UNCHANGED <<image, handed, set>>

(* Mutant of EndPass: no pass ends with a barrier.                         *)
EndPassAlone ==
  \E u \in Threads :
  /\ ~Busy(u) /\ team[u].pass <= Len(Passes)
  /\ PassOf(u) # "red" /\ RowsLeft(team[u].pass) = {}
  /\ team' = [team EXCEPT ![u] = [pass |-> team[u].pass + 1, row |-> NoRow]]
  /\ UNCHANGED <<image, handed, set>>

(* The barrier at the end of every other loop, and of the native call.     *)
EndPass ==
  \E i \in 1..Len(Passes) :
    /\ Passes[i] # "red" /\ RowsLeft(i) = {}
    /\ \A t \in Threads : ~Busy(t) /\ team[t].pass = i
    /\ team' = [t \in Threads |-> [pass |-> i + 1, row |-> NoRow]]
    /\ UNCHANGED <<image, handed, set>>

Next == EndPass \/ \E t \in Threads : StartRow(t) \/ EndRow(t) \/ GoOn(t)

(* A thread of the team runs while there is something for it to do.        *)
Spec ==
  /\ Init /\ [][Next]_vars
  /\ WF_vars(EndPass)
  /\ \A t \in Threads : WF_vars(StartRow(t) \/ EndRow(t) \/ GoOn(t))

-----------------------------------------------------------------------------
TypeOK ==
  /\ image \in Images
  /\ \A t \in Threads : team[t].pass \in 1..Len(Passes) + 1
  /\ \A t \in Threads : Busy(t) => team[t].row \in Rows(PassOf(t)) \cap handed[team[t].pass]

(* No pass reads or writes beyond the edges of the image.                  *)
InBounds ==
  \A t \in Threads :
    Busy(t) => Reads(PassOf(t), team[t].row) \cup Writes(PassOf(t), team[t].row)
                 \subseteq Columns \X AllRows \X {"r", "g", "b"}

(* Two rows at work at the same time do not touch a sample that one of     *)
(* them writes, so that the image is the same in whatever order the team   *)
(* works.  The exception is the second loop of lz_interpolate(), which     *)
(* reads the green of the pixels that the next row and the row before are  *)
(* about to refine.                                                        *)
Racing(t, u) ==
  Writes(PassOf(t), team[t].row) \cap
    (Reads(PassOf(u), team[u].row) \cup Writes(PassOf(u), team[u].row)) # {}

NoDataRace ==
  \A t, u \in Threads :
    t # u /\ Busy(t) /\ Busy(u) /\ PassOf(t) # "lzRefine" => ~Racing(t, u)

(* For the pixels three away from the edges no pass reads what has not     *)
(* been set.  (Of the tile that dcraw gets, RGBDemosaicOpImage uses those  *)
(* four away, and a site also writes to the pixel on its right.)  The      *)
(* exception is refineGreenChannel(), see RefinementSeesColor.             *)
InputsReady ==
  \A t \in Threads :
    Busy(t) /\ PassOf(t) # "refine" /\ team[t].row \in 3..image.height - 4 =>
      \A x \in Sites(PassOf(t), team[t].row) \cap (3..image.width - 4) :
        ReadsAt(PassOf(t), x, team[t].row) \subseteq set

(* Once copied, what the sensor has measured is not written again.         *)
MeasuredKept ==
  \A t \in Threads :
    Busy(t) /\ PassOf(t) # "copy" => Writes(PassOf(t), team[t].row) \cap Measured = {}

(* At the end the pixels two away from the edges have all their channels.  *)
InteriorComplete ==
  (\A t \in Threads : team[t].pass > Len(Passes)) =>
    (2..image.width - 3) \X (2..image.height - 3) \X {"r", "g", "b"} \subseteq set

(* The team gets through all of its passes: none waits at a barrier for a  *)
(* thread that does not come.                                              *)
TeamFinishes == <>(\A t \in Threads : team[t].pass > Len(Passes))

(* "get the constant component out of the reconstructed green pixels and   *)
(* add to it the 'high frequency' part of the corresponding observed color *)
(* channel" (dcrawUtils.cpp:144): the colour that the refinement looks at  *)
(* has been observed.                                                      *)
RefinementSeesColor ==
  \A t \in Threads :
    Busy(t) /\ PassOf(t) = "refine" => Reads(PassOf(t), team[t].row) \subseteq set
=============================================================================
