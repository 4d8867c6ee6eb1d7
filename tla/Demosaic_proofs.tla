--------------------------- MODULE Demosaic_proofs ---------------------------
(***************************************************************************)
(* Proofs about Demosaic, for images of every size, each of the four Bayer *)
(* filters, both programs and any number of threads.                       *)
(*                                                                         *)
(* What the loops do to a site is first put in terms of single samples,    *)
(* with the parity of rows and columns.  Inv says how the team shares the  *)
(* rows out, which gives that rows do not race and stay within the image.  *)
(* Progress says what has been made so far, which gives that what is read  *)
(* is there and that the interior is complete at the end.                  *)
(***************************************************************************)
EXTENDS Demosaic, TLAPS

-----------------------------------------------------------------------------
(* The parity of rows and columns decides which colour a pixel measures.   *)
LEMMA Parity ==
  ASSUME NEW x \in Int
  PROVE  /\ x % 2 \in {0, 1}
         /\ (x + 1) % 2 = 1 - (x % 2)
         /\ (x - 1) % 2 = 1 - (x % 2)
         /\ (x + 2) % 2 = x % 2
         /\ (x - 2) % 2 = x % 2
OBVIOUS

(* What an image with one of the four Bayer filters is: blue lies in the   *)
(* other row and the other column than red, and green in the rest of the   *)
(* cell.                                                                   *)
LEMMA ImageFacts ==
  ASSUME image \in Images
  PROVE  /\ image.width \in Nat /\ image.height \in Nat
         /\ f.gx \in {0, 1} /\ f.gy \in {0, 1} /\ f.rx \in {0, 1} /\ f.ry \in {0, 1}
         /\ f.bx = 1 - f.rx /\ f.by = 1 - f.ry
         /\ (f.gy = f.ry /\ f.gx = 1 - f.rx) \/ (f.gy = 1 - f.ry /\ f.gx = f.rx)
<1>1. image.width \in Nat /\ image.height \in Nat /\ f \in BayerFilters
  BY DemosaicAssumption DEF f
<1> QED BY <1>1 DEF BayerFilters

(* A green pixel has neighbours of another colour at its sides and ends,   *)
(* and green ones at its corners and two away.                             *)
LEMMA Neighbours ==
  ASSUME image \in Images, NEW x \in Int, NEW y \in Int
  PROVE  /\ GreenAt(x - 1, y) <=> ~GreenAt(x, y)
         /\ GreenAt(x + 1, y) <=> ~GreenAt(x, y)
         /\ GreenAt(x, y - 1) <=> ~GreenAt(x, y)
         /\ GreenAt(x, y + 1) <=> ~GreenAt(x, y)
         /\ GreenAt(x, y) <=> (x % 2 = f.rx /\ y % 2 # f.ry) \/ (x % 2 # f.rx /\ y % 2 = f.ry)
<1>1. /\ x % 2 \in {0, 1} /\ (x - 1) % 2 = 1 - (x % 2) /\ (x + 1) % 2 = 1 - (x % 2)
      /\ y % 2 \in {0, 1} /\ (y - 1) % 2 = 1 - (y % 2) /\ (y + 1) % 2 = 1 - (y % 2)
  BY Parity
<1>2. GreenAt(x, y) <=> (x % 2 = f.rx /\ y % 2 # f.ry) \/ (x % 2 # f.rx /\ y % 2 = f.ry)
  <2>1. GreenAt(x, y) <=> x % 2 = IF y % 2 = f.gy THEN f.gx ELSE 1 - f.gx
    BY Zenon DEF GreenAt
  <2>2. CASE f.gy = f.ry /\ f.gx = 1 - f.rx
    <3>1. CASE y % 2 = f.ry
      BY <1>1, <2>1, <2>2, <3>1, ImageFacts
    <3>2. CASE y % 2 # f.ry
      BY <1>1, <2>1, <2>2, <3>2, ImageFacts
    <3> QED BY <3>1, <3>2
  <2>3. CASE f.gy = 1 - f.ry /\ f.gx = f.rx
    <3>1. CASE y % 2 = f.ry
      BY <1>1, <2>1, <2>3, <3>1, ImageFacts
    <3>2. CASE y % 2 # f.ry
      BY <1>1, <2>1, <2>3, <3>2, ImageFacts
    <3> QED BY <3>1, <3>2
  <2> QED BY <2>2, <2>3, ImageFacts
<1> QED BY <1>1, <1>2, ImageFacts DEF GreenAt

(* A row has one colour besides green, and the rows next to it have the    *)
(* other one.                                                              *)
LEMMA Colors ==
  ASSUME image \in Images, NEW y \in Int
  PROVE  /\ RowColor(y) \in {"r", "b"} /\ OtherColor(y) \in {"r", "b"}
         /\ RowColor(y) # OtherColor(y)
         /\ RowColor(y - 1) = OtherColor(y) /\ RowColor(y + 1) = OtherColor(y)
         /\ RowColor(y - 2) = RowColor(y) /\ RowColor(y + 2) = RowColor(y)
         /\ RowColor(y) = "r" <=> y % 2 = f.ry
BY ImageFacts, Parity DEF RowColor, OtherColor

-----------------------------------------------------------------------------
(* What a pass reads and writes, sample by sample.                         *)
LEMMA CopyAt ==
  ASSUME NEW x, NEW y
  PROVE  /\ ReadsAt("copy", x, y) = {}
         /\ WritesAt("copy", x, y) = {<<x, y, IF GreenAt(x, y) THEN "g" ELSE RowColor(y)>>}
BY Zenon DEF ReadsAt, WritesAt

(* interpolateGreen() and the first loop of lz_interpolate(): the greens   *)
(* next to the pixel and the colour two away.                              *)
LEMMA GreenPassAt ==
  ASSUME NEW p \in {"green", "lzGreen"}, NEW x \in Int, NEW y \in Int
  PROVE  /\ ReadsAt(p, x, y) =
              {<<x - 1, y, "g">>, <<x + 1, y, "g">>, <<x, y - 1, "g">>, <<x, y + 1, "g">>}
              \cup {<<x, y, RowColor(y)>>, <<x - 2, y, RowColor(y)>>, <<x + 2, y, RowColor(y)>>,
                    <<x, y - 2, RowColor(y)>>, <<x, y + 2, RowColor(y)>>}
         /\ WritesAt(p, x, y) = {<<x, y, "g">>}
<1>1. ReadsAt(p, x, y) = At(x, y, Sides(1) \cup Ends(1), "g") \cup
                         At(x, y, Here \cup Sides(2) \cup Ends(2), RowColor(y))
  BY Zenon DEF ReadsAt
<1>2. At(x, y, Sides(1) \cup Ends(1), "g") =
        {<<x - 1, y, "g">>, <<x + 1, y, "g">>, <<x, y - 1, "g">>, <<x, y + 1, "g">>}
  BY DEF At, Sides, Ends
<1>3. \A c : At(x, y, Here \cup Sides(2) \cup Ends(2), c) =
        {<<x, y, c>>, <<x - 2, y, c>>, <<x + 2, y, c>>, <<x, y - 2, c>>, <<x, y + 2, c>>}
  BY DEF At, Sides, Ends, Here
<1>4. WritesAt(p, x, y) = {<<x, y, "g">>}
  BY Zenon DEF WritesAt
<1> QED BY <1>1, <1>2, <1>3, <1>4

(* refineGreenChannel() writes only where the other colour has been set.   *)
LEMMA RefineAt ==
  ASSUME NEW x, NEW y
  PROVE  WritesAt("refine", x, y) = {s \in {<<x, y, "g">>} : <<x, y, RowColor(y)>> \in set}
BY Zenon DEF WritesAt

(* The refinement of lz_interpolate() writes the green that was            *)
(* interpolated.                                                           *)
LEMMA LzRefineAt ==
  ASSUME NEW x, NEW y
  PROVE  WritesAt("lzRefine", x, y) = {<<x, y, "g">>}
BY Zenon DEF WritesAt

(* interpolateRedOrBlue(): the corners and the three pixels it makes a     *)
(* colour for.                                                             *)
LEMMA RedBlueAt ==
  ASSUME NEW p \in {"red", "blue"}, NEW x \in Int, NEW y \in Int,
         NEW c, c = IF p = "red" THEN "r" ELSE "b"
  PROVE  /\ ReadsAt(p, x, y) =
              {<<x - 1, y - 1, "g">>, <<x + 1, y - 1, "g">>, <<x - 1, y + 1, "g">>,
               <<x + 1, y + 1, "g">>, <<x, y, "g">>, <<x + 1, y, "g">>, <<x, y - 1, "g">>}
              \cup {<<x - 1, y - 1, c>>, <<x + 1, y - 1, c>>, <<x - 1, y + 1, c>>,
                    <<x + 1, y + 1, c>>}
         /\ WritesAt(p, x, y) = {<<x, y, c>>, <<x + 1, y, c>>, <<x, y - 1, c>>}
<1>1. ReadsAt(p, x, y) = At(x, y, Corners(1) \cup RedBlueTargets, "g") \cup
                         At(x, y, Corners(1), c)
  BY Zenon DEF ReadsAt
<1>2. At(x, y, Corners(1) \cup RedBlueTargets, "g") =
        {<<x - 1, y - 1, "g">>, <<x + 1, y - 1, "g">>, <<x - 1, y + 1, "g">>,
         <<x + 1, y + 1, "g">>, <<x, y, "g">>, <<x + 1, y, "g">>, <<x, y - 1, "g">>}
  BY DEF At, Corners, RedBlueTargets
<1>3. At(x, y, Corners(1), c) =
        {<<x - 1, y - 1, c>>, <<x + 1, y - 1, c>>, <<x - 1, y + 1, c>>, <<x + 1, y + 1, c>>}
  BY DEF At, Corners
<1>4. WritesAt(p, x, y) = At(x, y, RedBlueTargets, c)
  BY Zenon DEF WritesAt
<1>5. At(x, y, RedBlueTargets, c) = {<<x, y, c>>, <<x + 1, y, c>>, <<x, y - 1, c>>}
  BY DEF At, RedBlueTargets
<1> QED BY <1>1, <1>2, <1>3, <1>4, <1>5

(* The loop of lz_interpolate() that makes red and blue of the green       *)
(* pixels.                                                                 *)
LEMMA LzAtGreenAt ==
  ASSUME NEW x \in Int, NEW y \in Int
  PROVE  /\ ReadsAt("lzAtGreen", x, y) =
              {<<x, y, "g">>, <<x - 1, y, "g">>, <<x + 1, y, "g">>, <<x, y - 1, "g">>,
               <<x, y + 1, "g">>}
              \cup {<<x - 1, y, RowColor(y)>>, <<x + 1, y, RowColor(y)>>}
              \cup {<<x, y - 1, OtherColor(y)>>, <<x, y + 1, OtherColor(y)>>}
         /\ WritesAt("lzAtGreen", x, y) = {<<x, y, "r">>, <<x, y, "b">>}
<1>1. ReadsAt("lzAtGreen", x, y) =
        (At(x, y, Here \cup Sides(1) \cup Ends(1), "g") \cup
         At(x, y, Sides(1), RowColor(y))) \cup At(x, y, Ends(1), OtherColor(y))
  BY Zenon DEF ReadsAt
<1>2. At(x, y, Here \cup Sides(1) \cup Ends(1), "g") =
        {<<x, y, "g">>, <<x - 1, y, "g">>, <<x + 1, y, "g">>, <<x, y - 1, "g">>,
         <<x, y + 1, "g">>}
  BY DEF At, Sides, Ends, Here
<1>3. \A c : /\ At(x, y, Sides(1), c) = {<<x - 1, y, c>>, <<x + 1, y, c>>}
             /\ At(x, y, Ends(1), c) = {<<x, y - 1, c>>, <<x, y + 1, c>>}
  BY DEF At, Sides, Ends
<1>4. WritesAt("lzAtGreen", x, y) = {<<x, y, "r">>, <<x, y, "b">>}
  BY Zenon DEF WritesAt
<1> QED BY <1>1, <1>2, <1>3, <1>4

(* The loop of lz_interpolate() for the pixels of the opposite colour.     *)
LEMMA LzAtOtherAt ==
  ASSUME NEW x \in Int, NEW y \in Int
  PROVE  /\ ReadsAt("lzAtOther", x, y) =
              {<<x, y, "g">>, <<x - 1, y - 1, "g">>, <<x + 1, y - 1, "g">>,
               <<x - 1, y + 1, "g">>, <<x + 1, y + 1, "g">>}
              \cup {<<x - 1, y - 1, OtherColor(y)>>, <<x + 1, y - 1, OtherColor(y)>>,
                    <<x - 1, y + 1, OtherColor(y)>>, <<x + 1, y + 1, OtherColor(y)>>}
         /\ WritesAt("lzAtOther", x, y) = {<<x, y, OtherColor(y)>>}
<1>1. ReadsAt("lzAtOther", x, y) =
        At(x, y, Here \cup Corners(1), "g") \cup At(x, y, Corners(1), OtherColor(y))
  BY Zenon DEF ReadsAt
<1>2. At(x, y, Here \cup Corners(1), "g") =
        {<<x, y, "g">>, <<x - 1, y - 1, "g">>, <<x + 1, y - 1, "g">>,
         <<x - 1, y + 1, "g">>, <<x + 1, y + 1, "g">>}
  BY DEF At, Corners, Here
<1>3. \A c : At(x, y, Corners(1), c) =
        {<<x - 1, y - 1, c>>, <<x + 1, y - 1, c>>, <<x - 1, y + 1, c>>, <<x + 1, y + 1, c>>}
  BY DEF At, Corners
<1>4. WritesAt("lzAtOther", x, y) = {<<x, y, OtherColor(y)>>}
  BY Zenon DEF WritesAt
<1> QED BY <1>1, <1>2, <1>3, <1>4

-----------------------------------------------------------------------------
(* Which rows and columns a pass visits.                                   *)
LEMMA PassFacts ==
  ASSUME image \in Images
  PROVE  /\ image.program \in {"dcraw", "libraw"}
         /\ image.program = "dcraw" =>
              /\ Len(Passes) = 5
              /\ Passes[1] = "copy" /\ Passes[2] = "green" /\ Passes[3] = "refine"
              /\ Passes[4] = "red" /\ Passes[5] = "blue"
         /\ image.program = "libraw" =>
              /\ Len(Passes) = 4
              /\ Passes[1] = "lzGreen" /\ Passes[2] = "lzRefine"
              /\ Passes[3] = "lzAtGreen" /\ Passes[4] = "lzAtOther"
BY DemosaicAssumption DEF Passes

(* The rows of every pass, one by one.                                     *)
LEMMA RowsOf ==
  ASSUME image \in Images
  PROVE  /\ Rows("copy") = AllRows
         /\ \A p \in {"green", "refine", "lzGreen", "lzRefine"} : Rows(p) = 2..image.height - 3
         /\ Rows("red") = {y \in f.ry + 1..image.height - 2 : y % 2 # f.ry}
         /\ Rows("blue") = {y \in f.by + 1..image.height - 2 : y % 2 # f.by}
         /\ \A p \in {"lzAtGreen", "lzAtOther"} : Rows(p) = 1..image.height - 2
<1>1. Rows("copy") = AllRows
  BY Zenon DEF Rows
<1>2. \A p \in {"green", "refine", "lzGreen", "lzRefine"} : Rows(p) = 2..image.height - 3
  BY Zenon DEF Rows
<1>3. Rows("red") = {y \in f.ry + 1..image.height - 2 : y % 2 # f.ry}
  BY Zenon DEF Rows
<1>4. Rows("blue") = {y \in f.by + 1..image.height - 2 : y % 2 # f.by}
  BY Zenon DEF Rows
<1>5. \A p \in {"lzAtGreen", "lzAtOther"} : Rows(p) = 1..image.height - 2
  BY Zenon DEF Rows
<1> QED BY <1>1, <1>2, <1>3, <1>4, <1>5

(* The columns of every pass, one by one.                                  *)
LEMMA SitesOf ==
  ASSUME image \in Images, NEW y
  PROVE  /\ Sites("copy", y) = Columns
         /\ \A p \in {"green", "lzGreen", "lzRefine"} :
              Sites(p, y) = {x \in 2..image.width - 3 : ~GreenAt(x, y)}
         /\ Sites("refine", y) = {x \in 2..image.width - 3 : GreenAt(x, y)}
         /\ Sites("red", y) = {x \in f.rx + 1..image.width - 2 : x % 2 # f.rx}
         /\ Sites("blue", y) = {x \in f.bx + 1..image.width - 2 : x % 2 # f.bx}
         /\ Sites("lzAtGreen", y) = {x \in 1..image.width - 2 : GreenAt(x, y)}
         /\ Sites("lzAtOther", y) = {x \in 1..image.width - 2 : ~GreenAt(x, y)}
<1>1. Sites("copy", y) = Columns
  BY Zenon DEF Sites
<1>2. \A p \in {"green", "lzGreen", "lzRefine"} :
        Sites(p, y) = {x \in 2..image.width - 3 : ~GreenAt(x, y)}
  BY Zenon DEF Sites
<1>3. Sites("refine", y) = {x \in 2..image.width - 3 : GreenAt(x, y)}
  BY Zenon DEF Sites
<1>4. Sites("red", y) = {x \in f.rx + 1..image.width - 2 : x % 2 # f.rx}
  BY Zenon DEF Sites
<1>5. Sites("blue", y) = {x \in f.bx + 1..image.width - 2 : x % 2 # f.bx}
  BY Zenon DEF Sites
<1>6. Sites("lzAtGreen", y) = {x \in 1..image.width - 2 : GreenAt(x, y)}
  BY Zenon DEF Sites
<1>7. Sites("lzAtOther", y) = {x \in 1..image.width - 2 : ~GreenAt(x, y)}
  BY Zenon DEF Sites
<1> QED BY <1>1, <1>2, <1>3, <1>4, <1>5, <1>6, <1>7

PassNames ==
  {"copy", "green", "refine", "red", "blue", "lzGreen", "lzRefine", "lzAtGreen", "lzAtOther"}

(* A program has four or five passes, all of them named above.             *)
LEMMA PassNamed ==
  ASSUME image \in Images
  PROVE  /\ Len(Passes) \in {4, 5}
         /\ \A i \in 1..Len(Passes) : Passes[i] \in PassNames
<1>1. CASE image.program = "dcraw"
  <2>1. Len(Passes) = 5
    BY <1>1, PassFacts
  <2>2. \A i \in 1..Len(Passes) : i \in {1, 2, 3, 4, 5}
    BY <2>1
  <2> QED BY <1>1, <2>1, <2>2, PassFacts DEF PassNames
<1>2. CASE image.program = "libraw"
  <2>1. Len(Passes) = 4
    BY <1>2, PassFacts
  <2>2. \A i \in 1..Len(Passes) : i \in {1, 2, 3, 4}
    BY <2>1
  <2> QED BY <1>2, <2>1, <2>2, PassFacts DEF PassNames
<1> QED BY <1>1, <1>2, PassFacts

(* The numbers that a pass can have.                                       *)
LEMMA PassNumber ==
  ASSUME image \in Images, NEW i \in 1..Len(Passes)
  PROVE  /\ i \in 1..5 /\ i + 1 \in 1..6
         /\ image.program = "dcraw" => i \in {1, 2, 3, 4, 5}
         /\ image.program = "libraw" => i \in {1, 2, 3, 4}
<1>1. CASE image.program = "dcraw"
  <2>1. Len(Passes) = 5
    BY <1>1, PassFacts
  <2>2. i \in 1..5
    BY <2>1
  <2> QED BY <1>1, <2>2
<1>2. CASE image.program = "libraw"
  <2>1. Len(Passes) = 4
    BY <1>2, PassFacts
  <2>2. i \in 1..4
    BY <2>1
  <2> QED BY <1>2, <2>2
<1> QED BY <1>1, <1>2, PassFacts

(* Every row that a loop runs over is a row of the image.                  *)
LEMMA RowsInImage ==
  ASSUME image \in Images, NEW p \in PassNames, NEW y \in Rows(p)
  PROVE  y \in AllRows /\ y \in Nat
<1>1. CASE p = "copy"
  BY <1>1, RowsOf, ImageFacts DEF AllRows
<1>2. CASE p \in {"green", "refine", "lzGreen", "lzRefine"}
  BY <1>2, RowsOf, ImageFacts DEF AllRows
<1>3. CASE p = "red"
  BY <1>3, RowsOf, ImageFacts DEF AllRows
<1>4. CASE p = "blue"
  BY <1>4, RowsOf, ImageFacts DEF AllRows
<1>5. CASE p \in {"lzAtGreen", "lzAtOther"}
  BY <1>5, RowsOf, ImageFacts DEF AllRows
<1> QED BY <1>1, <1>2, <1>3, <1>4, <1>5 DEF PassNames


(* The samples of a row are those of its sites.                            *)
LEMMA InMembers ==
  ASSUME NEW p, NEW y, NEW s
  PROVE  /\ s \in Reads(p, y) <=> \E x \in Sites(p, y) : s \in ReadsAt(p, x, y)
         /\ s \in Writes(p, y) <=> \E x \in Sites(p, y) : s \in WritesAt(p, x, y)
BY DEF Reads, Writes

(* The samples that a row of a pass writes.                                *)
LEMMA CopyShape ==
  ASSUME image \in Images, NEW y \in AllRows, NEW s \in Writes("copy", y)
  PROVE  \E x \in Columns :
           s = <<x, y, IF GreenAt(x, y) THEN "g" ELSE RowColor(y)>>
BY InMembers, SitesOf, CopyAt

(* The loops for green write greens of pixels that have not measured it.   *)
LEMMA GreenShape ==
  ASSUME image \in Images, NEW p \in {"green", "lzGreen", "lzRefine"},
         NEW y \in 2..image.height - 3, NEW s \in Writes(p, y)
  PROVE  \E x \in 2..image.width - 3 : ~GreenAt(x, y) /\ s = <<x, y, "g">>
<1>1. PICK x \in Sites(p, y) : s \in WritesAt(p, x, y)
  BY InMembers
<1>2. x \in 2..image.width - 3 /\ ~GreenAt(x, y)
  BY <1>1, SitesOf
<1>3. WritesAt(p, x, y) = {<<x, y, "g">>}
  BY <1>2, ImageFacts, GreenPassAt, LzRefineAt
<1> QED BY <1>1, <1>2, <1>3

(* The passes for red and blue stop at the pixels of the other one.        *)
LEMMA RedBlueSite ==
  ASSUME image \in Images, NEW p \in {"red", "blue"}, NEW y \in Rows(p), NEW x \in Sites(p, y),
         NEW c, c = IF p = "red" THEN "r" ELSE "b"
  PROVE  /\ y \in 1..image.height - 2 /\ x \in 1..image.width - 2
         /\ RowColor(y) # c /\ ~GreenAt(x, y)
<1>1. CASE p = "red"
  <2>1. y \in 1..image.height - 2 /\ y % 2 # f.ry /\ x \in 1..image.width - 2 /\ x % 2 # f.rx
    BY <1>1, RowsOf, SitesOf, ImageFacts
  <2>2. RowColor(y) # "r" /\ ~GreenAt(x, y)
    BY <2>1, Colors, Neighbours
  <2> QED BY <1>1, <2>1, <2>2
<1>2. CASE p = "blue"
  <2>1. y \in 1..image.height - 2 /\ y % 2 # f.by /\ x \in 1..image.width - 2 /\ x % 2 # f.bx
    BY <1>2, RowsOf, SitesOf, ImageFacts
  <2>2. y % 2 = f.ry /\ x % 2 = f.rx
    BY <2>1, ImageFacts, Parity
  <2>3. RowColor(y) # "b" /\ ~GreenAt(x, y)
    BY <2>1, <2>2, Colors, Neighbours
  <2> QED BY <1>2, <2>1, <2>3
<1> QED BY <1>1, <1>2

(* interpolateRedOrBlue() writes the colour of the pass to the pixel, to   *)
(* the one on its right and to the one above.                              *)
LEMMA RedBlueShape ==
  ASSUME image \in Images, NEW p \in {"red", "blue"}, NEW y \in Rows(p),
         NEW s \in Writes(p, y), NEW c, c = IF p = "red" THEN "r" ELSE "b"
  PROVE  /\ y \in 1..image.height - 2
         /\ \E x \in 1..image.width - 2 :
              /\ s \in {<<x, y, c>>, <<x + 1, y, c>>, <<x, y - 1, c>>}
              /\ RowColor(y) # c /\ ~GreenAt(x, y)
<1>1. PICK x \in Sites(p, y) : s \in WritesAt(p, x, y)
  BY InMembers
<1>2. /\ y \in 1..image.height - 2 /\ x \in 1..image.width - 2
      /\ RowColor(y) # c /\ ~GreenAt(x, y)
  BY RedBlueSite
<1>3. WritesAt(p, x, y) = {<<x, y, c>>, <<x + 1, y, c>>, <<x, y - 1, c>>}
  BY <1>2, ImageFacts, RedBlueAt
<1> QED BY <1>1, <1>2, <1>3

(* The last two loops of lz_interpolate() write within their own row.      *)
LEMMA LzShape ==
  ASSUME image \in Images, NEW p \in {"lzAtGreen", "lzAtOther"},
         NEW y \in 1..image.height - 2, NEW s \in Writes(p, y)
  PROVE  \E x \in 1..image.width - 2 :
           IF p = "lzAtGreen" THEN GreenAt(x, y) /\ s \in {<<x, y, "r">>, <<x, y, "b">>}
                              ELSE ~GreenAt(x, y) /\ s = <<x, y, OtherColor(y)>>
<1>1. PICK x \in Sites(p, y) : s \in WritesAt(p, x, y)
  BY InMembers
<1>2. x \in 1..image.width - 2 /\ (GreenAt(x, y) <=> p = "lzAtGreen")
  BY <1>1, SitesOf
<1>3. WritesAt(p, x, y) = IF p = "lzAtGreen" THEN {<<x, y, "r">>, <<x, y, "b">>}
                                             ELSE {<<x, y, OtherColor(y)>>}
  BY <1>2, ImageFacts, LzAtGreenAt, LzAtOtherAt
<1> QED BY <1>1, <1>2, <1>3

-----------------------------------------------------------------------------
(* Rows of one pass do not meet.                                           *)
LEMMA GreenRowsDisjoint ==
  ASSUME image \in Images, NEW p \in {"green", "lzGreen"},
         NEW y \in 2..image.height - 3, NEW z \in 2..image.height - 3, y # z
  PROVE  Writes(p, y) \cap (Reads(p, z) \cup Writes(p, z)) = {}
<1> SUFFICES ASSUME NEW s \in Writes(p, y), s \in Reads(p, z) \cup Writes(p, z)
             PROVE  FALSE
  OBVIOUS
<1>1. PICK x \in 2..image.width - 3 : ~GreenAt(x, y) /\ s = <<x, y, "g">>
  BY GreenShape
<1>2. CASE s \in Writes(p, z)
  <2>1. PICK v \in 2..image.width - 3 : s = <<v, z, "g">>
    BY <1>2, GreenShape
  <2> QED BY <1>1, <2>1
<1>3. CASE s \in Reads(p, z)
  <2>1. PICK v \in Sites(p, z) : s \in ReadsAt(p, v, z)
    BY <1>3, InMembers
  <2>2. v \in Int /\ ~GreenAt(v, z)
    BY <2>1, SitesOf, ImageFacts
  <2>3. s \in {<<v - 1, z, "g">>, <<v + 1, z, "g">>, <<v, z - 1, "g">>, <<v, z + 1, "g">>}
             \cup {<<v, z, RowColor(z)>>, <<v - 2, z, RowColor(z)>>, <<v + 2, z, RowColor(z)>>,
                   <<v, z - 2, RowColor(z)>>, <<v, z + 2, RowColor(z)>>}
    BY <2>1, <2>2, GreenPassAt
  <2>4. RowColor(z) # "g"
    BY Colors
  <2>5. <<x, y>> \in {<<v - 1, z>>, <<v + 1, z>>, <<v, z - 1>>, <<v, z + 1>>}
    BY <1>1, <2>3, <2>4
  <2>6. GreenAt(v - 1, z) /\ GreenAt(v + 1, z) /\ GreenAt(v, z - 1) /\ GreenAt(v, z + 1)
    BY <2>2, Neighbours
  <2> QED BY <1>1, <2>5, <2>6
<1> QED BY <1>2, <1>3

(* A row of red or blue writes its own colour, never where that has been   *)
(* measured, and shares no row of pixels with another one.                 *)
LEMMA RedBlueReadShape ==
  ASSUME image \in Images, NEW p \in {"red", "blue"}, NEW z \in Rows(p),
         NEW s \in Reads(p, z), NEW c, c = IF p = "red" THEN "r" ELSE "b"
  PROVE  \E x \in Int, w \in Int :
           \/ s = <<x, w, "g">>
           \/ s = <<x, w, c>> /\ ~GreenAt(x, w) /\ RowColor(w) = c
<1>1. PICK v \in Sites(p, z) : s \in ReadsAt(p, v, z)
  BY InMembers
<1>2. z \in Int /\ v \in Int
  BY RedBlueSite, ImageFacts
<1>3. ~GreenAt(v, z) /\ RowColor(z) # c
  BY RedBlueSite
<1>4. RowColor(z - 1) = c /\ RowColor(z + 1) = c
  <2>1. c \in {"r", "b"}
    OBVIOUS
  <2> QED BY <1>2, <1>3, <2>1, Colors
<1>5. /\ ~GreenAt(v - 1, z - 1) /\ ~GreenAt(v + 1, z - 1)
      /\ ~GreenAt(v - 1, z + 1) /\ ~GreenAt(v + 1, z + 1)
  BY <1>2, <1>3, Neighbours
<1>6. s \in {<<v - 1, z - 1, "g">>, <<v + 1, z - 1, "g">>, <<v - 1, z + 1, "g">>,
             <<v + 1, z + 1, "g">>, <<v, z, "g">>, <<v + 1, z, "g">>, <<v, z - 1, "g">>}
           \cup {<<v - 1, z - 1, c>>, <<v + 1, z - 1, c>>, <<v - 1, z + 1, c>>,
                 <<v + 1, z + 1, c>>}
  BY <1>1, <1>2, RedBlueAt
<1>7. /\ v - 1 \in Int /\ v + 1 \in Int /\ z - 1 \in Int /\ z + 1 \in Int
  BY <1>2
<1> QED BY <1>2, <1>4, <1>5, <1>6, <1>7

(* They write the colour where it has not been measured.                   *)
LEMMA RedBlueWriteShape ==
  ASSUME image \in Images, NEW p \in {"red", "blue"}, NEW y \in Rows(p),
         NEW s \in Writes(p, y), NEW c, c = IF p = "red" THEN "r" ELSE "b"
  PROVE  \E x \in Int, w \in {y - 1, y} :
           s = <<x, w, c>> /\ (GreenAt(x, w) \/ RowColor(w) # c)
<1>1. /\ y \in 1..image.height - 2
      /\ \E x \in 1..image.width - 2 :
           /\ s \in {<<x, y, c>>, <<x + 1, y, c>>, <<x, y - 1, c>>}
           /\ RowColor(y) # c /\ ~GreenAt(x, y)
  BY RedBlueShape
<1>2. PICK x \in 1..image.width - 2 :
        /\ s \in {<<x, y, c>>, <<x + 1, y, c>>, <<x, y - 1, c>>}
        /\ RowColor(y) # c /\ ~GreenAt(x, y)
  BY <1>1
<1>3. x \in Int /\ x + 1 \in Int /\ y \in Int
  BY <1>1, ImageFacts
<1>4. GreenAt(x, y - 1)
  BY <1>2, <1>3, Neighbours
<1> QED BY <1>2, <1>3, <1>4

(* So no row of red, or of blue, is touched by another one, although a row *)
(* writes to the row above it.                                             *)
LEMMA RedBlueRowsDisjoint ==
  ASSUME image \in Images, NEW p \in {"red", "blue"}, NEW y \in Rows(p), NEW z \in Rows(p), y # z
  PROVE  Writes(p, y) \cap (Reads(p, z) \cup Writes(p, z)) = {}
<1> DEFINE c == IF p = "red" THEN "r" ELSE "b"
<1> SUFFICES ASSUME NEW s \in Writes(p, y), s \in Reads(p, z) \cup Writes(p, z)
             PROVE  FALSE
  OBVIOUS
<1>1. c # "g"
  OBVIOUS
<1> HIDE DEF c
<1>2. PICK x \in Int, w \in {y - 1, y} : s = <<x, w, c>> /\ (GreenAt(x, w) \/ RowColor(w) # c)
  BY RedBlueWriteShape DEF c
<1>3. CASE s \in Reads(p, z)
  <2>1. PICK v \in Int, u \in Int :
          \/ s = <<v, u, "g">>
          \/ s = <<v, u, c>> /\ ~GreenAt(v, u) /\ RowColor(u) = c
    BY <1>3, RedBlueReadShape DEF c
  <2> QED BY <1>1, <1>2, <2>1
<1>4. CASE s \in Writes(p, z)
  <2>1. PICK v \in Int, u \in {z - 1, z} : s = <<v, u, c>>
    BY <1>4, RedBlueWriteShape DEF c
  <2>2. y \in Int /\ z \in Int /\ y % 2 = z % 2
    BY RowsOf, ImageFacts, Parity
  <2>3. y - 1 # z /\ z - 1 # y
    BY <2>2, Parity
  <2> QED BY <1>2, <2>1, <2>2, <2>3
<1> QED BY <1>3, <1>4

(* Nor does a row of red meet a row of blue: the loop for red may say      *)
(* nowait.                                                                 *)
LEMMA RedBlueApart ==
  ASSUME image \in Images, NEW p \in {"red", "blue"}, NEW q \in {"red", "blue"}, p # q,
         NEW y \in Rows(p), NEW z \in Rows(q)
  PROVE  Writes(p, y) \cap (Reads(q, z) \cup Writes(q, z)) = {}
<1> DEFINE c == IF p = "red" THEN "r" ELSE "b"
           d == IF q = "red" THEN "r" ELSE "b"
<1> SUFFICES ASSUME NEW s \in Writes(p, y), s \in Reads(q, z) \cup Writes(q, z)
             PROVE  FALSE
  OBVIOUS
<1>1. c # "g" /\ c # d
  OBVIOUS
<1> HIDE DEF c, d
<1>2. s[3] = c
  BY RedBlueWriteShape DEF c
<1>3. CASE s \in Reads(q, z)
  <2>1. s[3] \in {"g", d}
    BY <1>3, RedBlueReadShape DEF d
  <2> QED BY <1>1, <1>2, <2>1
<1>4. CASE s \in Writes(q, z)
  <2>1. s[3] = d
    BY <1>4, RedBlueWriteShape DEF d
  <2> QED BY <1>1, <1>2, <2>1
<1> QED BY <1>3, <1>4

(* The last two loops of lz_interpolate() read of the other rows what is   *)
(* not written in the same loop.                                           *)
LEMMA LzRowsDisjoint ==
  ASSUME image \in Images, NEW p \in {"lzAtGreen", "lzAtOther"},
         NEW y \in 1..image.height - 2, NEW z \in 1..image.height - 2, y # z
  PROVE  Writes(p, y) \cap (Reads(p, z) \cup Writes(p, z)) = {}
<1> SUFFICES ASSUME NEW s \in Writes(p, y), s \in Reads(p, z) \cup Writes(p, z)
             PROVE  FALSE
  OBVIOUS
<1>1. PICK x \in 1..image.width - 2 :
           IF p = "lzAtGreen" THEN GreenAt(x, y) /\ s \in {<<x, y, "r">>, <<x, y, "b">>}
                              ELSE ~GreenAt(x, y) /\ s = <<x, y, OtherColor(y)>>
  BY LzShape
<1>2. CASE s \in Writes(p, z)
  <2>1. s[2] = z
    BY <1>2, LzShape
  <2> QED BY <1>1, <2>1
<1>3. CASE s \in Reads(p, z)
  <2>1. PICK v \in Sites(p, z) : s \in ReadsAt(p, v, z)
    BY <1>3, InMembers
  <2>2. v \in Int /\ z \in Int /\ x \in Int /\ y \in Int
    BY <2>1, SitesOf, ImageFacts
  <2>3. CASE p = "lzAtGreen"
    <3>1. GreenAt(v, z)
      BY <2>1, <2>3, SitesOf
    <3>2. ~GreenAt(v - 1, z) /\ ~GreenAt(v + 1, z) /\ ~GreenAt(v, z - 1) /\ ~GreenAt(v, z + 1)
      BY <2>2, <3>1, Neighbours
    <3>3. s \in {<<v, z, "g">>, <<v - 1, z, "g">>, <<v + 1, z, "g">>, <<v, z - 1, "g">>,
                 <<v, z + 1, "g">>}
              \cup {<<v - 1, z, RowColor(z)>>, <<v + 1, z, RowColor(z)>>}
              \cup {<<v, z - 1, OtherColor(z)>>, <<v, z + 1, OtherColor(z)>>}
      BY <2>1, <2>2, <2>3, LzAtGreenAt
    <3>4. GreenAt(x, y) /\ s \in {<<x, y, "r">>, <<x, y, "b">>}
      BY <1>1, <2>3
    <3>5. <<x, y>> \in {<<v - 1, z>>, <<v + 1, z>>, <<v, z - 1>>, <<v, z + 1>>}
      BY <3>3, <3>4
    <3> QED BY <3>2, <3>4, <3>5
  <2>4. CASE p = "lzAtOther"
    <3>1. s \in {<<v, z, "g">>, <<v - 1, z - 1, "g">>, <<v + 1, z - 1, "g">>,
                 <<v - 1, z + 1, "g">>, <<v + 1, z + 1, "g">>}
              \cup {<<v - 1, z - 1, OtherColor(z)>>, <<v + 1, z - 1, OtherColor(z)>>,
                    <<v - 1, z + 1, OtherColor(z)>>, <<v + 1, z + 1, OtherColor(z)>>}
      BY <2>1, <2>2, <2>4, LzAtOtherAt
    <3>2. s = <<x, y, OtherColor(y)>> /\ OtherColor(y) # "g"
      BY <1>1, <2>2, <2>4, Colors
    <3>3. y \in {z - 1, z + 1} /\ OtherColor(y) = OtherColor(z)
      BY <3>1, <3>2
    <3>4. RowColor(y) = OtherColor(z)
      BY <2>2, <3>3, Colors
    <3> QED BY <2>2, <3>3, <3>4, Colors
  <2> QED BY <2>3, <2>4
<1> QED BY <1>2, <1>3

-----------------------------------------------------------------------------
(* The inductive invariant.                                                *)
TeamShape ==
  /\ team \in [Threads -> [pass : 1..6, row : Int]]
  /\ handed \in [1..5 -> SUBSET Int]
  /\ \A t \in Threads : Busy(t) => team[t].pass <= Len(Passes)

OneThreadPerRow ==
  \A t, u \in Threads :
    t # u /\ Busy(t) /\ team[t].pass = team[u].pass => team[t].row # team[u].row

(* Barriers keep the team together, except in the loops for red and blue.  *)
TeamTogether ==
  \A t, u \in Threads :
    team[t].pass # team[u].pass => image.program = "dcraw" /\ team[t].pass \in {4, 5}

(* Before the loop for red no green pixel has another colour, so that      *)
(* refineGreenChannel() does nothing.                                      *)
NoColorYet ==
  image.program = "dcraw" /\ (\E t \in Threads : team[t].pass \in 1..3) =>
    \A x, y \in Int : GreenAt(x, y) => <<x, y, RowColor(y)>> \notin set

Inv == TeamShape /\ TypeOK /\ OneThreadPerRow /\ TeamTogether /\ NoColorYet

(* All that is computed of the image stays when it does.                   *)
LEMMA ImageStays ==
  ASSUME image' = image
  PROVE  /\ Passes' = Passes /\ f' = f
         /\ \A p : Rows(p)' = Rows(p)
         /\ \A x, y : GreenAt(x, y)' <=> GreenAt(x, y)
         /\ \A y : RowColor(y)' = RowColor(y)
<1>1. f' = f
  BY DEF f
<1>2. Passes' = Passes
  BY DEF Passes
<1>3. \A p : Rows(p)' = Rows(p)
  BY Zenon DEF Rows, AllRows, f
<1>4. \A x, y : GreenAt(x, y)' <=> GreenAt(x, y)
  BY <1>1 DEF GreenAt
<1>5. \A y : RowColor(y)' = RowColor(y)
  BY <1>1 DEF RowColor
<1> QED BY <1>1, <1>2, <1>3, <1>4, <1>5

(* Before the loop for red no pass gives a green pixel another colour.     *)
LEMMA EarlyWritesKeepNoColor ==
  ASSUME image \in Images, NEW p \in {"copy", "green", "refine"}, NEW z \in Rows(p),
         NEW x \in Int, NEW y \in Int, GreenAt(x, y)
  PROVE  <<x, y, RowColor(y)>> \notin Writes(p, z)
<1>1. RowColor(y) # "g" /\ z \in Int
  BY Colors, RowsInImage DEF PassNames
<1>2. CASE p = "copy"
  <2>1. z \in AllRows
    BY <1>2, RowsOf
  <2> QED BY <1>1, <1>2, <2>1, CopyShape
<1>3. CASE p = "green"
  <2>1. z \in 2..image.height - 3
    BY <1>3, RowsOf
  <2> QED BY <1>1, <1>3, <2>1, GreenShape
<1>4. CASE p = "refine"
  <2> SUFFICES ASSUME NEW s \in Writes("refine", z) PROVE s[3] = "g"
    BY <1>1, <1>4
  <2>1. PICK v \in Sites("refine", z) : s \in WritesAt("refine", v, z)
    BY InMembers
  <2>2. WritesAt("refine", v, z) \subseteq {<<v, z, "g">>}
    BY RefineAt
  <2> QED BY <2>1, <2>2
<1> QED BY <1>2, <1>3, <1>4

(* The team starts with the invariant.                                     *)
LEMMA InvInit == Init => Inv
<1> SUFFICES ASSUME Init PROVE Inv
  OBVIOUS
<1> USE DEF Init
<1>1. TeamShape
  BY DEF TeamShape, NoRow, Busy
<1>2. TypeOK
  <2>1. Len(Passes) \in {4, 5}
    BY PassFacts
  <2> QED BY <2>1 DEF TypeOK, Busy, NoRow
<1>3. OneThreadPerRow
  BY DEF OneThreadPerRow, Busy
<1>4. TeamTogether
  BY DEF TeamTogether
<1>5. NoColorYet
  BY DEF NoColorYet
<1> QED BY <1>1, <1>2, <1>3, <1>4, <1>5 DEF Inv

(* What the steps of the proof have in common.                             *)
LEMMA ThreadFacts ==
  ASSUME Inv, NEW t \in Threads
  PROVE  /\ image \in Images
         /\ team[t] \in [pass : 1..6, row : Int]
         /\ Busy(t) => /\ team[t].pass \in 1..Len(Passes)
                       /\ team[t].row \in Rows(PassOf(t)) /\ team[t].row \in handed[team[t].pass]
<1>1. image \in Images /\ team[t] \in [pass : 1..6, row : Int]
  BY DEF Inv, TeamShape, TypeOK
<1>2. Len(Passes) \in {4, 5}
  BY <1>1, PassNamed
<1> QED BY <1>1, <1>2 DEF Inv, TypeOK, TeamShape

(* Getting a row keeps the invariant: the schedule hands no row out twice. *)
LEMMA StartRowKeepsInv ==
  ASSUME Inv, NEW t \in Threads, StartRow(t)
  PROVE  Inv'
<1> DEFINE i == team[t].pass
<1>1. image' = image /\ set' = set /\ ~Busy(t) /\ i <= Len(Passes)
  BY DEF StartRow
<1>2. PICK y \in RowsLeft(i) :
        /\ team' = [team EXCEPT ![t].row = y]
        /\ handed' = [handed EXCEPT ![i] = @ \cup {y}]
  BY DEF StartRow
<1>3. i \in 1..5 /\ i \in 1..Len(Passes) /\ Len(Passes) \in {4, 5} /\ image \in Images
  BY <1>1, ThreadFacts, PassNamed
<1>4. y \in Rows(Passes[i]) /\ y \notin handed[i] /\ y \in Int /\ y # NoRow
  <2>1. y \in Rows(Passes[i]) /\ y \notin handed[i]
    BY DEF RowsLeft
  <2>2. y \in Nat
    BY <1>3, <2>1, PassNamed, RowsInImage
  <2> QED BY <2>1, <2>2 DEF NoRow
<1>5. /\ team' \in [Threads -> [pass : 1..6, row : Int]]
      /\ handed' \in [1..5 -> SUBSET Int]
      /\ team'[t] = [pass |-> i, row |-> y]
      /\ \A u \in Threads \ {t} : team'[u] = team[u]
      /\ \A u \in Threads : team'[u].pass = team[u].pass
      /\ handed'[i] = handed[i] \cup {y}
      /\ \A j \in 1..5 : handed[j] \subseteq handed'[j]
  BY <1>2, <1>3, <1>4 DEF Inv, TeamShape
<1>6. Passes' = Passes /\ \A p : Rows(p)' = Rows(p)
  BY <1>1, ImageStays
<1>7. \A u \in Threads \ {t} : Busy(u)' <=> Busy(u)
  BY <1>5 DEF Busy
<1>8. TeamShape'
  BY <1>1, <1>5, <1>6, <1>7 DEF TeamShape, Inv
<1>9. TypeOK'
  <2>1. \A u \in Threads : team'[u].pass \in 1..Len(Passes) + 1
    BY <1>5 DEF Inv, TypeOK
  <2>2. ASSUME NEW u \in Threads, Busy(u)'
        PROVE  team'[u].row \in Rows(Passes[team'[u].pass]) \cap handed'[team'[u].pass]
    <3>1. CASE u = t
      BY <1>3, <1>4, <1>5, <3>1
    <3>2. CASE u # t
      <4>1. Busy(u) /\ team'[u] = team[u]
        BY <1>5, <1>7, <2>2, <3>2
      <4>2. team[u].row \in Rows(PassOf(u)) /\ team[u].row \in handed[team[u].pass]
            /\ team[u].pass \in 1..5
        <5>1. /\ team[u].row \in Rows(PassOf(u)) /\ team[u].row \in handed[team[u].pass]
              /\ team[u].pass \in 1..Len(Passes)
          BY <4>1, ThreadFacts
        <5>2. team[u].pass \in 1..5
          BY <1>3, <5>1, PassNumber
        <5> QED BY <5>1, <5>2
      <4> QED BY <1>5, <4>1, <4>2 DEF PassOf
    <3> QED BY <3>1, <3>2
  <2> QED BY <1>1, <1>3, <1>6, <2>1, <2>2 DEF TypeOK, PassOf
<1>10. OneThreadPerRow'
  <2> SUFFICES ASSUME NEW u \in Threads, NEW v \in Threads, u # v, Busy(u)',
                      team'[u].pass = team'[v].pass, team'[u].row = team'[v].row
               PROVE  FALSE
    BY DEF OneThreadPerRow
  <2>1. ASSUME NEW w \in Threads, w # t, team'[w].pass = i, team'[w].row = y
        PROVE  FALSE
    <3>1. Busy(w) /\ team[w].pass = i /\ team[w].row = y
      BY <1>4, <1>5, <2>1 DEF Busy
    <3> QED BY <1>4, <3>1, ThreadFacts
  <2>2. CASE u = t \/ v = t
    BY <1>5, <2>1, <2>2
  <2>3. CASE u # t /\ v # t
    BY <1>5, <1>7, <2>3 DEF Inv, OneThreadPerRow
  <2> QED BY <2>2, <2>3
<1>11. TeamTogether'
  BY <1>1, <1>5 DEF TeamTogether, Inv
<1>12. NoColorYet'
  BY <1>1, <1>5, ImageStays DEF NoColorYet, Inv
<1> QED BY <1>8, <1>9, <1>10, <1>11, <1>12 DEF Inv

(* Finishing a row keeps it: what is written gives no green pixel another  *)
(* colour before the loop for red.                                         *)
LEMMA EndRowKeepsInv ==
  ASSUME Inv, NEW t \in Threads, EndRow(t)
  PROVE  Inv'
<1> DEFINE i == team[t].pass
           y == team[t].row
<1>1. /\ image' = image /\ handed' = handed /\ Busy(t)
      /\ set' = set \cup Writes(Passes[i], y)
      /\ team' = [team EXCEPT ![t].row = NoRow]
  BY DEF EndRow, PassOf
<1>2. /\ i \in 1..Len(Passes) /\ Len(Passes) \in {4, 5} /\ image \in Images
      /\ y \in Rows(Passes[i])
  BY <1>1, ThreadFacts, PassNamed DEF PassOf
<1>3. /\ team' \in [Threads -> [pass : 1..6, row : Int]]
      /\ team'[t].row = NoRow
      /\ \A u \in Threads \ {t} : team'[u] = team[u]
      /\ \A u \in Threads : team'[u].pass = team[u].pass
  BY <1>1 DEF Inv, TeamShape, NoRow
<1>4. Passes' = Passes /\ \A p : Rows(p)' = Rows(p)
  BY <1>1, ImageStays
<1>5. \A u \in Threads : Busy(u)' => u # t /\ Busy(u) /\ team'[u] = team[u]
  BY <1>3 DEF Busy
<1>6. TeamShape'
  BY <1>1, <1>3, <1>4, <1>5 DEF TeamShape, Inv
<1>7. TypeOK'
  BY <1>1, <1>3, <1>4, <1>5 DEF TypeOK, Inv, PassOf
<1>8. OneThreadPerRow'
  <2> SUFFICES ASSUME NEW u \in Threads, NEW v \in Threads, u # v, Busy(u)',
                      team'[u].pass = team'[v].pass, team'[u].row = team'[v].row
               PROVE  FALSE
    BY DEF OneThreadPerRow
  <2>1. u # t /\ Busy(u) /\ v # t
    BY <1>3, <1>5 DEF Busy
  <2> QED BY <1>3, <2>1 DEF Inv, OneThreadPerRow
<1>9. TeamTogether'
  BY <1>1, <1>3 DEF TeamTogether, Inv
<1>10. NoColorYet'
  <2> SUFFICES ASSUME image.program = "dcraw", NEW u \in Threads, team[u].pass \in 1..3,
                      NEW x \in Int, NEW w \in Int, GreenAt(x, w)
               PROVE  <<x, w, RowColor(w)>> \notin set'
    BY <1>1, <1>3, ImageStays DEF NoColorYet
  <2>1. <<x, w, RowColor(w)>> \notin set
    BY DEF Inv, NoColorYet
  <2>2. i = team[u].pass
    BY DEF Inv, TeamTogether
  <2>3. Passes[i] \in {"copy", "green", "refine"}
    BY <1>2, <2>2, PassFacts
  <2> QED BY <1>1, <1>2, <2>1, <2>3, EarlyWritesKeepNoColor
<1> QED BY <1>6, <1>7, <1>8, <1>9, <1>10 DEF Inv

(* Going on from red to blue keeps it: only these two passes can overlap.  *)
LEMMA GoOnKeepsInv ==
  ASSUME Inv, NEW t \in Threads, GoOn(t)
  PROVE  Inv'
<1> DEFINE i == team[t].pass
<1>1. /\ image' = image /\ handed' = handed /\ set' = set /\ ~Busy(t)
      /\ i <= Len(Passes) /\ Passes[i] = "red"
      /\ team' = [team EXCEPT ![t].pass = i + 1]
  BY DEF GoOn, PassOf
<1>2. i = 4 /\ image.program = "dcraw" /\ image \in Images /\ Len(Passes) = 5
  <2>1. image \in Images /\ i \in 1..Len(Passes) /\ Len(Passes) \in {4, 5}
    BY <1>1, ThreadFacts, PassNamed
  <2>2. CASE image.program = "dcraw"
    <3>1. i \in {1, 2, 3, 4, 5}
      BY <2>1, <2>2, PassNumber
    <3> QED BY <1>1, <2>1, <2>2, <3>1, PassFacts
  <2>3. CASE image.program = "libraw"
    <3>1. i \in {1, 2, 3, 4}
      BY <2>1, <2>3, PassNumber
    <3> QED BY <1>1, <2>1, <2>3, <3>1, PassFacts
  <2> QED BY <2>1, <2>2, <2>3, PassFacts
<1>3. /\ team' \in [Threads -> [pass : 1..6, row : Int]]
      /\ team'[t].pass = 5 /\ team'[t].row = team[t].row
      /\ \A u \in Threads \ {t} : team'[u] = team[u]
  BY <1>1, <1>2 DEF Inv, TeamShape
<1>4. Passes' = Passes /\ \A p : Rows(p)' = Rows(p)
  BY <1>1, ImageStays
<1>5. \A u \in Threads : Busy(u)' => u # t /\ Busy(u) /\ team'[u] = team[u]
  BY <1>1, <1>3 DEF Busy
<1>6. TeamShape'
  BY <1>1, <1>3, <1>4, <1>5 DEF TeamShape, Inv
<1>7. TypeOK'
  <2>1. \A u \in Threads : team'[u].pass \in 1..Len(Passes) + 1
    BY <1>2, <1>3 DEF Inv, TypeOK
  <2> QED BY <1>1, <1>2, <1>3, <1>4, <1>5, <2>1 DEF TypeOK, Inv, PassOf
<1>8. OneThreadPerRow'
  <2> SUFFICES ASSUME NEW u \in Threads, NEW v \in Threads, u # v, Busy(u)',
                      team'[u].pass = team'[v].pass, team'[u].row = team'[v].row
               PROVE  FALSE
    BY DEF OneThreadPerRow
  <2>1. u # t /\ Busy(u) /\ v # t
    BY <1>1, <1>3, <1>5 DEF Busy
  <2> QED BY <1>3, <2>1 DEF Inv, OneThreadPerRow
<1>9. \A u \in Threads : team[u].pass \in {4, 5}
  BY <1>2 DEF Inv, TeamTogether
<1>10. \A u \in Threads : team'[u].pass \in {4, 5}
  BY <1>3, <1>9
<1>11. TeamTogether'
  BY <1>1, <1>2, <1>10 DEF TeamTogether
<1>12. NoColorYet'
  BY <1>1, <1>10 DEF NoColorYet
<1> QED BY <1>6, <1>7, <1>8, <1>11, <1>12 DEF Inv

(* A barrier keeps it: the whole team comes to the next pass.              *)
LEMMA EndPassKeepsInv ==
  ASSUME Inv, EndPass
  PROVE  Inv'
<1>1. PICK i \in 1..Len(Passes) :
        /\ \A t \in Threads : ~Busy(t) /\ team[t].pass = i
        /\ team' = [t \in Threads |-> [pass |-> i + 1, row |-> NoRow]]
        /\ image' = image /\ handed' = handed /\ set' = set
  BY DEF EndPass
<1>2. image \in Images /\ Len(Passes) \in {4, 5}
  BY PassNamed DEF Inv, TypeOK
<1>3. Passes' = Passes
  BY <1>1, ImageStays
<1>4. \A t \in Threads : ~Busy(t)' /\ team'[t].pass = i + 1
  BY <1>1 DEF Busy
<1>5. TeamShape'
  <2>1. i + 1 \in 1..6 /\ NoRow \in Int
    BY <1>2, PassNumber DEF NoRow
  <2>2. team' \in [Threads -> [pass : 1..6, row : Int]]
    BY <1>1, <2>1
  <2> QED BY <1>1, <1>4, <2>2 DEF TeamShape, Inv
<1>6. TypeOK'
  BY <1>1, <1>2, <1>3, <1>4 DEF TypeOK
<1>7. OneThreadPerRow'
  BY <1>4 DEF OneThreadPerRow
<1>8. TeamTogether'
  BY <1>4 DEF TeamTogether
<1>9. NoColorYet'
  BY <1>1, <1>4, ImageStays DEF NoColorYet, Inv
<1> QED BY <1>5, <1>6, <1>7, <1>8, <1>9 DEF Inv

(* A step of something else keeps it.                                      *)
LEMMA StutterKeepsInv ==
  ASSUME Inv, UNCHANGED vars
  PROVE  Inv'
<1>1. image' = image /\ team' = team /\ handed' = handed /\ set' = set
  BY DEF vars
<1>2. /\ Passes' = Passes /\ \A p : Rows(p)' = Rows(p)
      /\ \A x, y : GreenAt(x, y)' <=> GreenAt(x, y)
      /\ \A y : RowColor(y)' = RowColor(y)
  BY <1>1, ImageStays
<1>3. TeamShape' /\ TypeOK'
  BY <1>1, <1>2 DEF Inv, TeamShape, TypeOK, Busy, PassOf
<1>4. OneThreadPerRow' /\ TeamTogether'
  BY <1>1 DEF Inv, OneThreadPerRow, TeamTogether, Busy
<1>5. NoColorYet'
  BY <1>1, <1>2 DEF Inv, NoColorYet
<1> QED BY <1>3, <1>4, <1>5 DEF Inv

(* The OpenMP team hands each row of a pass out once, stays together at    *)
(* the barriers of all loops but the one for red, and gives no green pixel *)
(* another colour before that loop (dcrawUtils.cpp, LZLibRaw.cpp).         *)
THEOREM InvHolds == Spec => []Inv
<1>1. Init => Inv
  BY InvInit
<1>2. Inv /\ [Next]_vars => Inv'
  <2> SUFFICES ASSUME Inv, [Next]_vars PROVE Inv'
    OBVIOUS
  <2>1. CASE EndPass
    BY <2>1, EndPassKeepsInv
  <2>2. ASSUME NEW t \in Threads, StartRow(t) PROVE Inv'
    BY <2>2, StartRowKeepsInv
  <2>3. ASSUME NEW t \in Threads, EndRow(t) PROVE Inv'
    BY <2>3, EndRowKeepsInv
  <2>4. ASSUME NEW t \in Threads, GoOn(t) PROVE Inv'
    BY <2>4, GoOnKeepsInv
  <2>5. CASE UNCHANGED vars
    BY <2>5, StutterKeepsInv
  <2> QED BY <2>1, <2>2, <2>3, <2>4, <2>5 DEF Next
<1> QED BY <1>1, <1>2, PTL DEF Spec

-----------------------------------------------------------------------------
(* No races.                                                               *)
LEMMA CopyRowsDisjoint ==
  ASSUME image \in Images, NEW y \in AllRows, NEW z \in AllRows, y # z
  PROVE  Writes("copy", y) \cap (Reads("copy", z) \cup Writes("copy", z)) = {}
<1>1. Reads("copy", z) = {}
  BY InMembers, CopyAt
<1>2. \A s \in Writes("copy", y) : s[2] = y
  BY CopyShape
<1>3. \A s \in Writes("copy", z) : s[2] = z
  BY CopyShape
<1> QED BY <1>1, <1>2, <1>3

(* refineGreenChannel() never finds the other colour it looks for, and     *)
(* writes nothing.                                                         *)
LEMMA RefineWritesNothing ==
  ASSUME Inv, NEW t \in Threads, Busy(t), PassOf(t) = "refine"
  PROVE  Writes("refine", team[t].row) = {}
<1>1. image \in Images /\ team[t].pass \in 1..Len(Passes) /\ team[t].row \in Rows("refine")
  BY ThreadFacts
<1>2. image.program = "dcraw" /\ team[t].pass = 3
  <2>1. CASE image.program = "dcraw"
    <3>1. team[t].pass \in {1, 2, 3, 4, 5}
      BY <1>1, <2>1, PassNumber
    <3> QED BY <1>1, <2>1, <3>1, PassFacts DEF PassOf
  <2>2. CASE image.program = "libraw"
    <3>1. team[t].pass \in {1, 2, 3, 4}
      BY <1>1, <2>2, PassNumber
    <3> QED BY <1>1, <2>2, <3>1, PassFacts DEF PassOf
  <2> QED BY <1>1, <2>1, <2>2, PassFacts
<1>3. team[t].row \in Int
  BY <1>1, RowsInImage DEF PassNames
<1>4. ASSUME NEW x \in Sites("refine", team[t].row)
      PROVE  <<x, team[t].row, RowColor(team[t].row)>> \notin set
  <2>1. x \in Int /\ GreenAt(x, team[t].row)
    BY <1>1, SitesOf, ImageFacts
  <2> QED BY <1>2, <1>3, <2>1 DEF Inv, NoColorYet
<1>5. \A x \in Sites("refine", team[t].row) : WritesAt("refine", x, team[t].row) = {}
  BY <1>4, RefineAt, ZenonT(40)
<1> QED BY <1>5, InMembers

(* Two threads at different rows of a pass, or of red and blue, are apart. *)
LEMMA InvNoDataRace == Inv => NoDataRace
<1> SUFFICES ASSUME Inv, NEW t \in Threads, NEW u \in Threads, t # u, Busy(t), Busy(u),
                    PassOf(t) # "lzRefine"
             PROVE  ~Racing(t, u)
  BY DEF NoDataRace
<1> DEFINE p == PassOf(t)
           q == PassOf(u)
           y == team[t].row
           z == team[u].row
<1>1. /\ image \in Images
      /\ team[t].pass \in 1..Len(Passes) /\ team[u].pass \in 1..Len(Passes)
      /\ y \in Rows(p) /\ z \in Rows(q)
  BY ThreadFacts
<1>2. p \in PassNames
  BY <1>1, PassNamed DEF PassOf
<1> SUFFICES Writes(p, y) \cap (Reads(q, z) \cup Writes(q, z)) = {}
  BY DEF Racing
<1>3. CASE team[t].pass = team[u].pass
  <2>1. q = p /\ y # z
    BY <1>3 DEF PassOf, Inv, OneThreadPerRow
  <2>2. p \in PassNames \ {"lzRefine"}
    BY <1>2
  <2> HIDE DEF p, q, y, z
  <2>3. CASE p = "copy"
    BY <1>1, <2>1, <2>3, RowsOf, CopyRowsDisjoint
  <2>4. CASE p \in {"green", "lzGreen"}
    BY <1>1, <2>1, <2>4, RowsOf, GreenRowsDisjoint
  <2>5. CASE p = "refine"
    BY <2>5, RefineWritesNothing DEF p, y
  <2>6. CASE p \in {"red", "blue"}
    BY <1>1, <2>1, <2>6, RedBlueRowsDisjoint
  <2>7. CASE p \in {"lzAtGreen", "lzAtOther"}
    BY <1>1, <2>1, <2>7, RowsOf, LzRowsDisjoint
  <2> QED BY <2>2, <2>3, <2>4, <2>5, <2>6, <2>7 DEF PassNames
<1>4. CASE team[t].pass # team[u].pass
  <2>1. image.program = "dcraw" /\ team[t].pass \in {4, 5} /\ team[u].pass \in {4, 5}
    BY <1>4 DEF Inv, TeamTogether
  <2>2. p \in {"red", "blue"} /\ q \in {"red", "blue"} /\ p # q
    BY <1>1, <1>4, <2>1, PassFacts DEF PassOf
  <2> HIDE DEF p, q, y, z
  <2> QED BY <1>1, <2>2, RedBlueApart
<1> QED BY <1>3, <1>4

-----------------------------------------------------------------------------
(* What has been measured stays.                                           *)
LEMMA MeasuredShape ==
  ASSUME image \in Images, NEW s \in Measured
  PROVE  \E x \in Columns, y \in AllRows :
           s = <<x, y, IF GreenAt(x, y) THEN "g" ELSE RowColor(y)>>
BY DEF Measured

(* No pass after the copy writes a sample that was measured.               *)
LEMMA PassKeepsMeasured ==
  ASSUME image \in Images, NEW p \in PassNames \ {"copy", "refine"}, NEW y \in Rows(p)
  PROVE  Writes(p, y) \cap Measured = {}
<1> SUFFICES ASSUME NEW s \in Writes(p, y), s \in Measured
             PROVE  FALSE
  OBVIOUS
<1>1. PICK v \in Columns, w \in AllRows :
        s = <<v, w, IF GreenAt(v, w) THEN "g" ELSE RowColor(w)>>
  BY MeasuredShape
<1>2. y \in Int /\ w \in Int
  BY RowsInImage DEF AllRows
<1>3. RowColor(w) \in {"r", "b"} /\ RowColor(w) # OtherColor(w)
  BY <1>2, Colors
<1>4. CASE p \in {"green", "lzGreen", "lzRefine"}
  <2>1. \E x \in 2..image.width - 3 : ~GreenAt(x, y) /\ s = <<x, y, "g">>
    <3>1. y \in 2..image.height - 3
      BY <1>4, RowsOf
    <3> QED BY <1>4, <3>1, GreenShape
  <2> QED BY <1>1, <1>3, <2>1
<1>5. CASE p \in {"red", "blue"}
  <2> DEFINE c == IF p = "red" THEN "r" ELSE "b"
  <2>1. \E x \in Int, z \in {y - 1, y} :
           s = <<x, z, c>> /\ (GreenAt(x, z) \/ RowColor(z) # c)
    BY <1>5, RedBlueWriteShape
  <2>2. c # "g"
    OBVIOUS
  <2> HIDE DEF c
  <2> QED BY <1>1, <1>3, <2>1, <2>2
<1>6. CASE p \in {"lzAtGreen", "lzAtOther"}
  <2>1. \E x \in 1..image.width - 2 :
           IF p = "lzAtGreen" THEN GreenAt(x, y) /\ s \in {<<x, y, "r">>, <<x, y, "b">>}
                              ELSE ~GreenAt(x, y) /\ s = <<x, y, OtherColor(y)>>
    BY <1>6, RowsOf, LzShape
  <2> QED BY <1>1, <1>3, <2>1
<1> QED BY <1>4, <1>5, <1>6 DEF PassNames

(* Hence no thread does.                                                   *)
LEMMA InvMeasuredKept == Inv => MeasuredKept
<1> SUFFICES ASSUME Inv, NEW t \in Threads, Busy(t), PassOf(t) # "copy"
             PROVE  Writes(PassOf(t), team[t].row) \cap Measured = {}
  BY DEF MeasuredKept
<1>1. /\ image \in Images /\ team[t].row \in Rows(PassOf(t))
      /\ team[t].pass \in 1..Len(Passes)
  BY ThreadFacts
<1>2. PassOf(t) \in PassNames
  BY <1>1, PassNamed DEF PassOf
<1>3. CASE PassOf(t) = "refine"
  BY <1>3, RefineWritesNothing
<1>4. CASE PassOf(t) # "refine"
  BY <1>1, <1>2, <1>4, PassKeepsMeasured
<1> QED BY <1>3, <1>4

-----------------------------------------------------------------------------
(* No sample beyond the edges.                                             *)
Samples == Columns \X AllRows \X {"r", "g", "b"}

(* Neighbours within n pixels of one that is n pixels from the edges.      *)
LEMMA AtWithin ==
  ASSUME image \in Images, NEW n \in {1, 2}, NEW c \in {"r", "g", "b"},
         NEW x \in n..image.width - 1 - n, NEW y \in n..image.height - 1 - n,
         NEW offsets, offsets \subseteq (-n..n) \X (-n..n)
  PROVE  At(x, y, offsets, c) \subseteq Samples
<1> SUFFICES ASSUME NEW o \in offsets
             PROVE  <<x + o[1], y + o[2], c>> \in Samples
  BY DEF At
<1>1. o[1] \in -n..n /\ o[2] \in -n..n
  OBVIOUS
<1>2. x + o[1] \in Columns
  BY <1>1, ImageFacts DEF Columns
<1>3. y + o[2] \in AllRows
  BY <1>1, ImageFacts DEF AllRows
<1> QED BY <1>2, <1>3 DEF Samples

(* The neighbours that the loops look at are one or two pixels away.       *)
LEMMA OffsetsWithin ==
  /\ \A n \in {1, 2} :
       /\ Here \subseteq (-n..n) \X (-n..n)
       /\ Sides(n) \subseteq (-n..n) \X (-n..n) /\ Ends(n) \subseteq (-n..n) \X (-n..n)
       /\ Corners(n) \subseteq (-n..n) \X (-n..n)
  /\ Sides(1) \subseteq (-2..2) \X (-2..2) /\ Ends(1) \subseteq (-2..2) \X (-2..2)
  /\ Corners(1) \subseteq (-2..2) \X (-2..2)
  /\ RedBlueTargets \subseteq (-1..1) \X (-1..1)
BY DEF Here, Sides, Ends, Corners, RedBlueTargets

(* What a pass reads, in one form for all of them.                         *)
LEMMA ReadsWithin ==
  ASSUME image \in Images, NEW p \in PassNames, NEW y \in Rows(p), NEW x \in Sites(p, y)
  PROVE  ReadsAt(p, x, y) \subseteq Samples
<1>1. y \in Int /\ {"g", RowColor(y), OtherColor(y)} \subseteq {"r", "g", "b"}
  <2>1. y \in Int
    BY RowsInImage
  <2> QED BY <2>1, Colors
<1>2. CASE p = "copy"
  BY <1>2, CopyAt
<1>3. CASE p \in {"green", "lzGreen"}
  <2>1. x \in 2..image.width - 1 - 2 /\ y \in 2..image.height - 1 - 2
    BY <1>3, RowsOf, SitesOf, ImageFacts
  <2>2. ReadsAt(p, x, y) = At(x, y, Sides(1) \cup Ends(1), "g") \cup
                           At(x, y, Here \cup Sides(2) \cup Ends(2), RowColor(y))
    BY <1>3, Zenon DEF ReadsAt
  <2>3. At(x, y, Sides(1) \cup Ends(1), "g") \subseteq Samples
    BY <2>1, OffsetsWithin, AtWithin
  <2>4. At(x, y, Here \cup Sides(2) \cup Ends(2), RowColor(y)) \subseteq Samples
    BY <1>1, <2>1, OffsetsWithin, AtWithin
  <2> QED BY <2>2, <2>3, <2>4
<1>4. CASE p \in {"refine", "lzRefine"}
  <2> DEFINE near == IF p = "refine" THEN Here \cup Sides(2) \cup Ends(2) \cup Corners(2)
                                     ELSE Here \cup Sides(1) \cup Ends(1) \cup Corners(1)
             far == Here \cup Sides(2) \cup Ends(2) \cup Corners(2)
  <2>1. x \in 2..image.width - 1 - 2 /\ y \in 2..image.height - 1 - 2
    BY <1>4, RowsOf, SitesOf, ImageFacts
  <2>2. ReadsAt(p, x, y) = At(x, y, near, "g") \cup At(x, y, far, RowColor(y))
    <3>1. CASE p = "refine"
      BY <3>1, Zenon DEF ReadsAt
    <3>2. CASE p = "lzRefine"
      BY <3>2, Zenon DEF ReadsAt
    <3> QED BY <1>4, <3>1, <3>2
  <2>3. near \subseteq (-2..2) \X (-2..2) /\ far \subseteq (-2..2) \X (-2..2)
    BY OffsetsWithin
  <2> HIDE DEF near, far
  <2>4. At(x, y, near, "g") \subseteq Samples
    BY <2>1, <2>3, AtWithin
  <2>5. At(x, y, far, RowColor(y)) \subseteq Samples
    BY <1>1, <2>1, <2>3, AtWithin
  <2> QED BY <2>2, <2>4, <2>5
<1>5. CASE p \in {"red", "blue"}
  <2> DEFINE c == IF p = "red" THEN "r" ELSE "b"
  <2>1. x \in 1..image.width - 1 - 1 /\ y \in 1..image.height - 1 - 1
    BY <1>5, RedBlueSite, ImageFacts
  <2>2. ReadsAt(p, x, y) = At(x, y, Corners(1) \cup RedBlueTargets, "g") \cup
                           At(x, y, Corners(1), c)
    BY <1>5, Zenon DEF ReadsAt
  <2>3. At(x, y, Corners(1) \cup RedBlueTargets, "g") \subseteq Samples
    BY <2>1, OffsetsWithin, AtWithin
  <2>4. At(x, y, Corners(1), c) \subseteq Samples
    BY <2>1, OffsetsWithin, AtWithin
  <2> QED BY <2>2, <2>3, <2>4
<1>6. CASE p = "lzAtGreen"
  <2>1. x \in 1..image.width - 1 - 1 /\ y \in 1..image.height - 1 - 1
    BY <1>6, RowsOf, SitesOf, ImageFacts
  <2>2. ReadsAt(p, x, y) =
          (At(x, y, Here \cup Sides(1) \cup Ends(1), "g") \cup
           At(x, y, Sides(1), RowColor(y))) \cup At(x, y, Ends(1), OtherColor(y))
    BY <1>6, Zenon DEF ReadsAt
  <2>3. At(x, y, Here \cup Sides(1) \cup Ends(1), "g") \subseteq Samples
    BY <2>1, OffsetsWithin, AtWithin
  <2>4. At(x, y, Sides(1), RowColor(y)) \subseteq Samples
    BY <1>1, <2>1, OffsetsWithin, AtWithin
  <2>5. At(x, y, Ends(1), OtherColor(y)) \subseteq Samples
    BY <1>1, <2>1, OffsetsWithin, AtWithin
  <2> QED BY <2>2, <2>3, <2>4, <2>5
<1>7. CASE p = "lzAtOther"
  <2>1. x \in 1..image.width - 1 - 1 /\ y \in 1..image.height - 1 - 1
    BY <1>7, RowsOf, SitesOf, ImageFacts
  <2>2. ReadsAt(p, x, y) =
          At(x, y, Here \cup Corners(1), "g") \cup At(x, y, Corners(1), OtherColor(y))
    BY <1>7, Zenon DEF ReadsAt
  <2>3. At(x, y, Here \cup Corners(1), "g") \subseteq Samples
    BY <2>1, OffsetsWithin, AtWithin
  <2>4. At(x, y, Corners(1), OtherColor(y)) \subseteq Samples
    BY <1>1, <2>1, OffsetsWithin, AtWithin
  <2> QED BY <2>2, <2>3, <2>4
<1> QED BY <1>2, <1>3, <1>4, <1>5, <1>6, <1>7 DEF PassNames

(* What a row writes is within the image.                                  *)
LEMMA WritesWithin ==
  ASSUME image \in Images, NEW p \in PassNames, NEW y \in Rows(p)
  PROVE  Writes(p, y) \subseteq Samples
<1> SUFFICES ASSUME NEW s \in Writes(p, y) PROVE s \in Samples
  OBVIOUS
<1>1. y \in AllRows /\ y \in Int
  BY RowsInImage
<1>2. RowColor(y) \in {"r", "b"} /\ OtherColor(y) \in {"r", "b"}
  BY <1>1, Colors
<1>3. CASE p = "copy"
  BY <1>1, <1>2, <1>3, CopyShape DEF Samples
<1>4. CASE p \in {"green", "lzGreen", "lzRefine"}
  <2>1. y \in 2..image.height - 3
    BY <1>4, RowsOf
  <2>2. PICK x \in 2..image.width - 3 : s = <<x, y, "g">>
    BY <1>4, <2>1, GreenShape
  <2>3. x \in Columns
    BY ImageFacts DEF Columns
  <2> QED BY <1>1, <2>2, <2>3 DEF Samples
<1>5. CASE p = "refine"
  <2>1. PICK x \in Sites("refine", y) : s \in WritesAt("refine", x, y)
    BY <1>5, InMembers
  <2>2. x \in Columns
    BY SitesOf, ImageFacts DEF Columns
  <2>3. WritesAt("refine", x, y) \subseteq {<<x, y, "g">>}
    BY RefineAt
  <2> QED BY <1>1, <2>1, <2>2, <2>3 DEF Samples
<1>6. CASE p \in {"red", "blue"}
  <2> DEFINE c == IF p = "red" THEN "r" ELSE "b"
  <2>1. /\ y \in 1..image.height - 2
        /\ \E x \in 1..image.width - 2 : s \in {<<x, y, c>>, <<x + 1, y, c>>, <<x, y - 1, c>>}
    BY <1>6, RedBlueShape
  <2>2. PICK x \in 1..image.width - 2 : s \in {<<x, y, c>>, <<x + 1, y, c>>, <<x, y - 1, c>>}
    BY <2>1
  <2>3. x \in Columns /\ x + 1 \in Columns /\ y - 1 \in AllRows
    BY <2>1, ImageFacts DEF Columns, AllRows
  <2> QED BY <1>1, <2>2, <2>3 DEF Samples
<1>7. CASE p \in {"lzAtGreen", "lzAtOther"}
  <2>1. y \in 1..image.height - 2
    BY <1>7, RowsOf
  <2>2. PICK x \in 1..image.width - 2 : s \in {<<x, y, "r">>, <<x, y, "b">>, <<x, y, OtherColor(y)>>}
    BY <1>7, <2>1, LzShape
  <2>3. x \in Columns
    BY ImageFacts DEF Columns
  <2> QED BY <1>1, <1>2, <2>2, <2>3 DEF Samples
<1> QED BY <1>3, <1>4, <1>5, <1>6, <1>7 DEF PassNames

(* Hence no thread leaves the image.                                       *)
LEMMA InvInBounds == Inv => InBounds
<1> SUFFICES ASSUME Inv, NEW t \in Threads, Busy(t)
             PROVE  Reads(PassOf(t), team[t].row) \cup Writes(PassOf(t), team[t].row)
                      \subseteq Columns \X AllRows \X {"r", "g", "b"}
  BY DEF InBounds
<1>1. /\ image \in Images /\ team[t].row \in Rows(PassOf(t))
      /\ team[t].pass \in 1..Len(Passes)
  BY ThreadFacts
<1>2. PassOf(t) \in PassNames
  BY <1>1, PassNamed DEF PassOf
<1>3. Reads(PassOf(t), team[t].row) \subseteq Samples
  BY <1>1, <1>2, ReadsWithin, InMembers
<1>4. Writes(PassOf(t), team[t].row) \subseteq Samples
  BY <1>1, <1>2, WritesWithin
<1> QED BY <1>3, <1>4 DEF Samples

-----------------------------------------------------------------------------
(* A thread is at a row that its pass has and that was handed out,         *)
(* whatever the image and the number of threads.                           *)
THEOREM TypeCorrect == Spec => []TypeOK
<1>1. Inv => TypeOK
  BY DEF Inv
<1> QED BY <1>1, InvHolds, PTL

(* No two threads of the team touch a sample that one of them writes, for  *)
(* images of every size, each Bayer filter and any number of threads; the  *)
(* refinement of lz_interpolate() is the named exception.                  *)
THEOREM RowsDoNotRace == Spec => []NoDataRace
BY InvHolds, InvNoDataRace, PTL

(* Neither demosaicing writes over what the sensor has measured, once it   *)
(* is copied.                                                              *)
THEOREM MeasurementsStay == Spec => []MeasuredKept
BY InvHolds, InvMeasuredKept, PTL

(* Neither demosaicing reads or writes beyond the edges of the image,      *)
(* however small it is.                                                    *)
THEOREM RowsInBounds == Spec => []InBounds
BY InvHolds, InvInBounds, PTL

-----------------------------------------------------------------------------
(* What the passes have made so far.                                       *)

(* A row that was handed out is still at work or has been written.  (The   *)
(* pass that does nothing has nothing to write.)                           *)
RowsMade ==
  \A i \in 1..Len(Passes) : Passes[i] # "refine" =>
    \A y \in handed[i] :
      \/ \E t \in Threads : Busy(t) /\ team[t].pass = i /\ team[t].row = y
      \/ Writes(Passes[i], y) \subseteq set

(* A thread leaves a pass only when all of its rows were handed out.       *)
RowsHandedOut ==
  \A t \in Threads : \A i \in 1..Len(Passes) :
    i < team[t].pass => Rows(Passes[i]) \subseteq handed[i]

LzBegins == image.program = "libraw" => Measured \subseteq set

Progress == RowsMade /\ RowsHandedOut /\ LzBegins

(* What a row writes depends on the image only, except in the refinement.  *)
LEMMA WritesStay ==
  ASSUME image' = image, NEW p \in PassNames \ {"refine"}, NEW y
  PROVE  Writes(p, y)' = Writes(p, y)
<1>1. f' = f /\ (\A x, z : GreenAt(x, z)' <=> GreenAt(x, z)) /\ RowColor(y)' = RowColor(y)
  BY ImageStays
<1>2. OtherColor(y)' = OtherColor(y)
  BY <1>1 DEF OtherColor
<1>3. Sites(p, y)' = Sites(p, y)
  <2>1. Columns' = Columns /\ image.width' = image.width
    BY DEF Columns
  <2>2. \A x : GreenAt(x, y)' <=> GreenAt(x, y)
    BY <1>1
  <2> QED BY <1>1, <2>1, <2>2, Zenon DEF Sites
<1>4. \A x : WritesAt(p, x, y)' = WritesAt(p, x, y)
  <2> SUFFICES ASSUME NEW x PROVE WritesAt(p, x, y)' = WritesAt(p, x, y)
    OBVIOUS
  <2>1. GreenAt(x, y)' <=> GreenAt(x, y)
    BY <1>1
  <2>2. CASE p = "copy"
    BY <1>1, <2>1, <2>2, Zenon DEF WritesAt
  <2>3. CASE p \in {"green", "lzGreen", "lzRefine"}
    BY <2>3, Zenon DEF WritesAt
  <2>4. CASE p \in {"red", "blue"}
    BY <2>4, Zenon DEF WritesAt
  <2>5. CASE p = "lzAtGreen"
    BY <2>5, Zenon DEF WritesAt
  <2>6. CASE p = "lzAtOther"
    BY <1>2, <2>6, Zenon DEF WritesAt
  <2> QED BY <2>2, <2>3, <2>4, <2>5, <2>6 DEF PassNames
<1> QED BY <1>3, <1>4 DEF Writes

(* The team starts with nothing handed out.                                *)
LEMMA ProgressInit == Init => Progress
<1> SUFFICES ASSUME Init PROVE Progress
  OBVIOUS
<1>1. image \in Images /\ Len(Passes) \in {4, 5} /\ 1..Len(Passes) \subseteq 1..5
  <2>1. image \in Images
    BY DEF Init
  <2> QED BY <2>1, PassNamed, PassNumber
<1>2. RowsMade
  BY <1>1 DEF Init, RowsMade
<1>3. RowsHandedOut
  BY DEF Init, RowsHandedOut
<1>4. LzBegins
  BY DEF Init, LzBegins
<1> QED BY <1>2, <1>3, <1>4 DEF Progress

(* Every step keeps the image and all that has been made and handed out.   *)
LEMMA NextGrows ==
  ASSUME Inv, [Next]_vars
  PROVE  /\ image' = image /\ set \subseteq set'
         /\ \A i \in 1..5 : handed[i] \subseteq handed'[i]
<1>1. CASE EndPass
  BY <1>1 DEF EndPass
<1>2. ASSUME NEW t \in Threads, StartRow(t)
      PROVE  /\ image' = image /\ set' = set
             /\ \A i \in 1..5 : handed[i] \subseteq handed'[i]
  BY <1>2 DEF StartRow, Inv, TeamShape
<1>3. ASSUME NEW t \in Threads, EndRow(t)
      PROVE  image' = image /\ set \subseteq set' /\ handed' = handed
  BY <1>3 DEF EndRow
<1>4. ASSUME NEW t \in Threads, GoOn(t)
      PROVE  image' = image /\ set' = set /\ handed' = handed
  BY <1>4 DEF GoOn
<1>5. CASE UNCHANGED vars
  BY <1>5 DEF vars
<1> QED BY <1>1, <1>2, <1>3, <1>4, <1>5 DEF Next

(* A row that was handed out is at work until it is written.               *)
LEMMA RowsMadeStep ==
  ASSUME Inv, RowsMade, [Next]_vars
  PROVE  RowsMade'
<1>1. /\ image' = image /\ set \subseteq set'
      /\ \A i \in 1..5 : handed[i] \subseteq handed'[i]
  BY NextGrows
<1>2. Passes' = Passes /\ image \in Images
  BY <1>1, ImageStays DEF Inv, TypeOK
<1> SUFFICES ASSUME NEW i \in 1..Len(Passes), Passes[i] # "refine", NEW y \in handed'[i],
                    ~(Writes(Passes[i], y) \subseteq set')
             PROVE  \E t \in Threads : Busy(t)' /\ team'[t].pass = i /\ team'[t].row = y
  <2>1. \A i \in 1..Len(Passes) : \A y : Passes[i] # "refine" =>
          Writes(Passes[i], y)' = Writes(Passes[i], y)
    BY <1>1, <1>2, PassNamed, WritesStay
  <2> QED BY <1>2, <2>1 DEF RowsMade
<1>3. i \in 1..5
  BY <1>2, PassNumber
<1>4. y \in handed[i] => \E t \in Threads : Busy(t) /\ team[t].pass = i /\ team[t].row = y
  BY <1>1 DEF RowsMade
<1>5. CASE EndPass
  <2>1. y \in handed[i] /\ \A t \in Threads : ~Busy(t)
    BY <1>5 DEF EndPass
  <2> QED BY <1>4, <2>1
<1>6. ASSUME NEW u \in Threads, StartRow(u)
      PROVE  \E t \in Threads : Busy(t)' /\ team'[t].pass = i /\ team'[t].row = y
  <2>1. PICK z \in RowsLeft(team[u].pass) :
          /\ team' = [team EXCEPT ![u].row = z]
          /\ handed' = [handed EXCEPT ![team[u].pass] = @ \cup {z}]
    BY <1>6 DEF StartRow
  <2>2. ~Busy(u) /\ team[u].pass \in 1..Len(Passes)
    BY <1>6, ThreadFacts DEF StartRow
  <2>3. z # NoRow
    <3>1. z \in Rows(Passes[team[u].pass]) /\ Passes[team[u].pass] \in PassNames
      BY <1>2, <2>2, PassNamed DEF RowsLeft
    <3> QED BY <1>2, <3>1, RowsInImage DEF NoRow
  <2>4. /\ team'[u].row = z /\ team'[u].pass = team[u].pass
        /\ \A t \in Threads \ {u} : team'[t] = team[t]
    BY <2>1 DEF Inv, TeamShape
  <2>5. CASE y \in handed[i]
    <3>1. PICK t \in Threads : Busy(t) /\ team[t].pass = i /\ team[t].row = y
      BY <1>4, <2>5
    <3>2. team'[t] = team[t]
      BY <2>2, <2>4, <3>1
    <3> QED BY <3>1, <3>2 DEF Busy
  <2>6. CASE y \notin handed[i]
    <3>1. i = team[u].pass /\ y = z
      BY <1>3, <2>1, <2>6 DEF Inv, TeamShape
    <3> QED BY <2>3, <2>4, <3>1 DEF Busy
  <2> QED BY <2>5, <2>6
<1>7. ASSUME NEW u \in Threads, EndRow(u)
      PROVE  \E t \in Threads : Busy(t)' /\ team'[t].pass = i /\ team'[t].row = y
  <2>1. /\ handed' = handed /\ set' = set \cup Writes(Passes[team[u].pass], team[u].row)
        /\ team' = [team EXCEPT ![u].row = NoRow]
    BY <1>7 DEF EndRow, PassOf
  <2>2. PICK t \in Threads : Busy(t) /\ team[t].pass = i /\ team[t].row = y
    BY <1>4, <2>1
  <2>3. t # u
    BY <2>1, <2>2
  <2>4. team'[t] = team[t]
    BY <2>1, <2>3 DEF Inv, TeamShape
  <2> QED BY <2>2, <2>4 DEF Busy
<1>8. ASSUME NEW u \in Threads, GoOn(u)
      PROVE  \E t \in Threads : Busy(t)' /\ team'[t].pass = i /\ team'[t].row = y
  <2>1. handed' = handed /\ ~Busy(u) /\ team' = [team EXCEPT ![u].pass = @ + 1]
    BY <1>8 DEF GoOn
  <2>2. PICK t \in Threads : Busy(t) /\ team[t].pass = i /\ team[t].row = y
    BY <1>4, <2>1
  <2>3. team'[t] = team[t]
    BY <2>1, <2>2 DEF Inv, TeamShape
  <2> QED BY <2>2, <2>3 DEF Busy
<1>9. CASE UNCHANGED vars
  BY <1>4, <1>9 DEF vars, Busy
<1> QED BY <1>5, <1>6, <1>7, <1>8, <1>9 DEF Next

(* A thread leaves a pass, by a barrier or by nowait, only when no row is  *)
(* left in it.                                                             *)
LEMMA RowsHandedOutStep ==
  ASSUME Inv, RowsHandedOut, [Next]_vars
  PROVE  RowsHandedOut'
<1>1. /\ image' = image /\ \A i \in 1..5 : handed[i] \subseteq handed'[i]
  BY NextGrows
<1>2. Passes' = Passes /\ image \in Images /\ \A p : Rows(p)' = Rows(p)
  BY <1>1, ImageStays DEF Inv, TypeOK
<1> SUFFICES ASSUME NEW t \in Threads, NEW i \in 1..Len(Passes), i < team'[t].pass
             PROVE  Rows(Passes[i]) \subseteq handed'[i]
  BY <1>2 DEF RowsHandedOut
<1>3. i \in 1..5
  BY <1>2, PassNumber
<1>4. CASE i < team[t].pass
  BY <1>1, <1>3, <1>4 DEF RowsHandedOut
<1>5. CASE ~(i < team[t].pass)
  <2>1. team'[t].pass # team[t].pass
    BY <1>5
  <2>2. CASE EndPass
    <3>1. PICK j \in 1..Len(Passes) :
            /\ RowsLeft(j) = {} /\ handed' = handed
            /\ \A u \in Threads : team[u].pass = j
            /\ team' = [u \in Threads |-> [pass |-> j + 1, row |-> NoRow]]
      BY <2>2 DEF EndPass
    <3>2. i = j
      <4>1. j \in Int /\ team[t].pass = j /\ team'[t].pass = j + 1
        BY <3>1
      <4> QED BY <1>3, <1>5, <4>1
    <3> QED BY <3>1, <3>2 DEF RowsLeft
  <2>3. ASSUME NEW u \in Threads, StartRow(u) \/ EndRow(u) PROVE FALSE
    BY <2>1, <2>3 DEF StartRow, EndRow, Inv, TeamShape
  <2>4. ASSUME NEW u \in Threads, GoOn(u) PROVE Rows(Passes[i]) \subseteq handed'[i]
    <3>1. /\ RowsLeft(team[u].pass) = {} /\ handed' = handed
          /\ team' = [team EXCEPT ![u].pass = team[u].pass + 1]
      BY <2>4 DEF GoOn
    <3>2. t = u /\ team'[t].pass = team[t].pass + 1 /\ team[t].pass \in Int
      BY <2>1, <3>1 DEF Inv, TeamShape
    <3>3. i = team[u].pass
      BY <1>3, <1>5, <3>2
    <3> QED BY <3>1, <3>3 DEF RowsLeft
  <2>5. CASE UNCHANGED vars
    BY <2>1, <2>5 DEF vars
  <2> QED BY <2>2, <2>3, <2>4, <2>5 DEF Next
<1> QED BY <1>4, <1>5

(* At every moment, what the passes that the team has left were to write   *)
(* has been written, up to the rows still at work.                         *)
THEOREM ProgressHolds == Spec => []Progress
<1>1. Init => Progress
  BY ProgressInit
<1>2. Inv /\ Progress /\ [Next]_vars => Progress'
  <2> SUFFICES ASSUME Inv, Progress, [Next]_vars PROVE Progress'
    OBVIOUS
  <2>1. RowsMade' /\ RowsHandedOut'
    BY RowsMadeStep, RowsHandedOutStep DEF Progress
  <2>2. LzBegins'
    <3>1. image' = image /\ set \subseteq set'
      BY NextGrows
    <3>2. Measured' = Measured
      <4>1. Columns' = Columns /\ AllRows' = AllRows
        BY <3>1 DEF Columns, AllRows
      <4>2. \A x, y : GreenAt(x, y)' = GreenAt(x, y) /\ RowColor(y)' = RowColor(y)
        BY <3>1, ImageStays DEF GreenAt
      <4> QED BY <4>1, <4>2 DEF Measured
    <3> QED BY <3>1, <3>2 DEF Progress, LzBegins
  <2> QED BY <2>1, <2>2 DEF Progress
<1> QED BY <1>1, <1>2, InvHolds, PTL DEF Spec

-----------------------------------------------------------------------------
(* What a thread finds when it has got to a pass.                          *)
MeasuredAreSet ==
  \A x \in Columns, y \in AllRows :
    /\ GreenAt(x, y) => <<x, y, "g">> \in set
    /\ ~GreenAt(x, y) => <<x, y, RowColor(y)>> \in set

GreensAreSet ==
  \A x \in 2..image.width - 3, y \in 2..image.height - 3 : <<x, y, "g">> \in set

(* A pass that a thread has left and that nobody is working at is          *)
(* complete.                                                               *)
LEMMA PassMade ==
  ASSUME Inv, Progress, NEW t \in Threads, NEW i \in 1..Len(Passes), i < team[t].pass,
         Passes[i] # "refine", \A u \in Threads : Busy(u) => team[u].pass # i,
         NEW y \in Rows(Passes[i])
  PROVE  Writes(Passes[i], y) \subseteq set
<1>1. y \in handed[i]
  BY DEF Progress, RowsHandedOut
<1> QED BY <1>1 DEF Progress, RowsMade

(* Only in the loops for red and blue is a thread behind another one.      *)
LEMMA NobodyBehind ==
  ASSUME Inv, NEW t \in Threads, NEW i \in 1..3, i < team[t].pass
  PROVE  \A u \in Threads : Busy(u) => team[u].pass # i
<1> SUFFICES ASSUME NEW u \in Threads, team[u].pass = i PROVE FALSE
  OBVIOUS
<1>1. team[u].pass # team[t].pass
  BY ThreadFacts
<1> QED BY <1>1 DEF Inv, TeamTogether

(* After the copy all that was measured is there.                          *)
LEMMA MeasuredSet ==
  ASSUME Inv, Progress, NEW t \in Threads, image.program = "dcraw" => 1 < team[t].pass
  PROVE  MeasuredAreSet
<1>1. image \in Images
  BY DEF Inv, TypeOK
<1> SUFFICES ASSUME NEW x \in Columns, NEW y \in AllRows
             PROVE  <<x, y, IF GreenAt(x, y) THEN "g" ELSE RowColor(y)>> \in set
  BY DEF MeasuredAreSet
<1>2. CASE image.program = "dcraw"
  <2>0. Len(Passes) = 5 /\ Passes[1] = "copy"
    BY <1>1, <1>2, PassFacts
  <2>1. 1 \in 1..Len(Passes) /\ Passes[1] = "copy" /\ y \in Rows("copy")
    BY <1>1, <2>0, RowsOf
  <2>2. \A u \in Threads : Busy(u) => team[u].pass # 1
    BY <1>2, NobodyBehind
  <2>3. Writes("copy", y) \subseteq set
    BY <1>2, <2>1, <2>2, PassMade
  <2>4. x \in Sites("copy", y)
    BY <1>1, SitesOf
  <2>5. <<x, y, IF GreenAt(x, y) THEN "g" ELSE RowColor(y)>> \in WritesAt("copy", x, y)
    BY CopyAt
  <2> QED BY <2>3, <2>4, <2>5, InMembers
<1>3. CASE image.program = "libraw"
  <2>1. Measured \subseteq set
    BY <1>3 DEF Progress, LzBegins
  <2>2. <<x, y, IF GreenAt(x, y) THEN "g" ELSE RowColor(y)>> \in Measured
    BY DEF Measured
  <2> QED BY <2>1, <2>2
<1> QED BY <1>1, <1>2, <1>3, PassFacts

(* After the loop for green all greens two away from the edges are there.  *)
LEMMA GreensSet ==
  ASSUME Inv, Progress, NEW t \in Threads,
         team[t].pass > IF image.program = "dcraw" THEN 2 ELSE 1
  PROVE  MeasuredAreSet /\ GreensAreSet
<1>1. image \in Images /\ team[t].pass \in 1..6
  BY ThreadFacts
<1>2. MeasuredAreSet
  BY <1>1, MeasuredSet
<1> DEFINE i == IF image.program = "dcraw" THEN 2 ELSE 1
<1>3. i \in 1..Len(Passes) /\ i \in 1..3 /\ Passes[i] \in {"green", "lzGreen"}
  BY <1>1, PassFacts
<1>4. i < team[t].pass
  BY <1>1
<1> HIDE DEF i
<1>5. \A u \in Threads : Busy(u) => team[u].pass # i
  BY <1>3, <1>4, NobodyBehind
<1> SUFFICES ASSUME NEW x \in 2..image.width - 3, NEW y \in 2..image.height - 3
             PROVE  <<x, y, "g">> \in set
  BY <1>2 DEF GreensAreSet
<1>6. x \in Columns /\ y \in AllRows /\ x \in Int /\ y \in Int
  BY <1>1, ImageFacts DEF Columns, AllRows
<1>7. CASE GreenAt(x, y)
  BY <1>2, <1>6, <1>7 DEF MeasuredAreSet
<1>8. CASE ~GreenAt(x, y)
  <2>1. y \in Rows(Passes[i]) /\ x \in Sites(Passes[i], y)
    BY <1>1, <1>3, <1>8, RowsOf, SitesOf
  <2>2. Writes(Passes[i], y) \subseteq set
    <3>1. Passes[i] # "refine"
      BY <1>3
    <3> QED BY <1>3, <1>4, <1>5, <2>1, <3>1, PassMade
  <2>3. <<x, y, "g">> \in WritesAt(Passes[i], x, y)
    <3>1. \A p \in {"green", "lzGreen"} : WritesAt(p, x, y) = {<<x, y, "g">>}
      BY <1>6, GreenPassAt
    <3> QED BY <1>3, <3>1
  <2> QED BY <2>1, <2>2, <2>3, InMembers
<1> QED BY <1>7, <1>8

-----------------------------------------------------------------------------
(* Inputs are there.                                                       *)

(* The pixels two away measure the same as the pixel itself.               *)
LEMMA TwoAway ==
  ASSUME image \in Images, NEW x \in Int, NEW y \in Int,
         NEW v \in {-2, 0, 2}, NEW w \in {-2, 0, 2}
  PROVE  /\ GreenAt(x + v, y + w) <=> GreenAt(x, y)
         /\ RowColor(y + w) = RowColor(y)
<1>1. (x + v) % 2 = x % 2 /\ (y + w) % 2 = y % 2
  BY Parity
<1> QED BY <1>1 DEF GreenAt, RowColor

(* Reads within one pixel of an inner one find the greens, reads at two    *)
(* what has been measured there.                                           *)
LEMMA GreensRead ==
  ASSUME image \in Images, GreensAreSet, NEW x \in 3..image.width - 4,
         NEW y \in 3..image.height - 4, NEW offsets, offsets \subseteq (-1..1) \X (-1..1)
  PROVE  At(x, y, offsets, "g") \subseteq set
<1> SUFFICES ASSUME NEW o \in offsets PROVE <<x + o[1], y + o[2], "g">> \in set
  BY DEF At
<1>1. o[1] \in -1..1 /\ o[2] \in -1..1
  OBVIOUS
<1>2. x + o[1] \in 2..image.width - 3 /\ y + o[2] \in 2..image.height - 3
  BY <1>1, ImageFacts
<1> QED BY <1>2 DEF GreensAreSet

(* The colour of a pixel is measured at those two away from it.            *)
LEMMA ColorsRead ==
  ASSUME image \in Images, MeasuredAreSet, NEW x \in 2..image.width - 3,
         NEW y \in 2..image.height - 3, ~GreenAt(x, y),
         NEW offsets, offsets \subseteq {-2, 0, 2} \X {-2, 0, 2}
  PROVE  At(x, y, offsets, RowColor(y)) \subseteq set
<1> SUFFICES ASSUME NEW o \in offsets PROVE <<x + o[1], y + o[2], RowColor(y)>> \in set
  BY DEF At
<1>1. o[1] \in {-2, 0, 2} /\ o[2] \in {-2, 0, 2} /\ x \in Int /\ y \in Int
  BY ImageFacts
<1>2. x + o[1] \in Columns
  BY <1>1, ImageFacts DEF Columns
<1>3. y + o[2] \in AllRows
  BY <1>1, ImageFacts DEF AllRows
<1>4. ~GreenAt(x + o[1], y + o[2]) /\ RowColor(y + o[2]) = RowColor(y)
  BY <1>1, TwoAway
<1> QED BY <1>2, <1>3, <1>4 DEF MeasuredAreSet

(* What a site three away from the edges reads was measured, or is a green *)
(* made before.                                                            *)
LEMMA InnerReads ==
  ASSUME image \in Images, NEW p \in PassNames \ {"copy", "refine"},
         NEW y \in Rows(p) \cap (3..image.height - 4),
         NEW x \in Sites(p, y) \cap (3..image.width - 4),
         MeasuredAreSet, p \in {"green", "lzGreen"} \/ GreensAreSet
  PROVE  ReadsAt(p, x, y) \subseteq set
<1>1. /\ x \in Int /\ y \in Int
      /\ x \in 2..image.width - 3 /\ y \in 2..image.height - 3
      /\ {x - 1, x + 1} \subseteq Columns /\ {y - 1, y, y + 1} \subseteq AllRows
  BY ImageFacts DEF Columns, AllRows
<1>2. /\ GreenAt(x - 1, y) <=> ~GreenAt(x, y)
      /\ GreenAt(x + 1, y) <=> ~GreenAt(x, y)
      /\ GreenAt(x, y - 1) <=> ~GreenAt(x, y)
      /\ GreenAt(x, y + 1) <=> ~GreenAt(x, y)
  BY <1>1, Neighbours
<1>3. /\ GreenAt(x - 1, y - 1) <=> GreenAt(x, y)
      /\ GreenAt(x + 1, y - 1) <=> GreenAt(x, y)
      /\ GreenAt(x - 1, y + 1) <=> GreenAt(x, y)
      /\ GreenAt(x + 1, y + 1) <=> GreenAt(x, y)
  <2>1. x - 1 \in Int /\ x + 1 \in Int
    BY <1>1
  <2> QED BY <1>1, <1>2, <2>1, Neighbours
<1>4. RowColor(y - 1) = OtherColor(y) /\ RowColor(y + 1) = OtherColor(y)
  BY <1>1, Colors
<1>5. x \in Columns
  BY <1>1, ImageFacts DEF Columns
<1>6. CASE p \in {"green", "lzGreen"}
  <2>1. ~GreenAt(x, y)
    BY <1>6, SitesOf
  <2>2. ReadsAt(p, x, y) = At(x, y, Sides(1) \cup Ends(1), "g") \cup
                           At(x, y, Here \cup Sides(2) \cup Ends(2), RowColor(y))
    BY <1>6, Zenon DEF ReadsAt
  <2>3. At(x, y, Sides(1) \cup Ends(1), "g") =
          {<<x - 1, y, "g">>, <<x + 1, y, "g">>, <<x, y - 1, "g">>, <<x, y + 1, "g">>}
    BY <1>1 DEF At, Sides, Ends
  <2>4. {<<x - 1, y, "g">>, <<x + 1, y, "g">>, <<x, y - 1, "g">>, <<x, y + 1, "g">>} \subseteq set
    BY <1>1, <1>2, <1>5, <2>1 DEF MeasuredAreSet
  <2>5. Here \cup Sides(2) \cup Ends(2) \subseteq {-2, 0, 2} \X {-2, 0, 2}
    BY DEF Here, Sides, Ends
  <2>6. At(x, y, Here \cup Sides(2) \cup Ends(2), RowColor(y)) \subseteq set
    BY <1>1, <2>1, <2>5, ColorsRead
  <2> QED BY <2>2, <2>3, <2>4, <2>6
<1>7. CASE p = "lzRefine"
  <2>1. ~GreenAt(x, y)
    BY <1>7, SitesOf
  <2>2. ReadsAt(p, x, y) =
          At(x, y, Here \cup Sides(1) \cup Ends(1) \cup Corners(1), "g") \cup
          At(x, y, Here \cup Sides(2) \cup Ends(2) \cup Corners(2), RowColor(y))
    BY <1>7, Zenon DEF ReadsAt
  <2>3. At(x, y, Here \cup Sides(1) \cup Ends(1) \cup Corners(1), "g") \subseteq set
    <3>1. Here \cup Sides(1) \cup Ends(1) \cup Corners(1) \subseteq (-1..1) \X (-1..1)
      BY OffsetsWithin
    <3> QED BY <1>7, <3>1, GreensRead
  <2>4. At(x, y, Here \cup Sides(2) \cup Ends(2) \cup Corners(2), RowColor(y)) \subseteq set
    <3>1. Here \cup Sides(2) \cup Ends(2) \cup Corners(2) \subseteq {-2, 0, 2} \X {-2, 0, 2}
      BY DEF Here, Sides, Ends, Corners
    <3> QED BY <1>1, <2>1, <3>1, ColorsRead
  <2> QED BY <2>2, <2>3, <2>4
<1>8. CASE p \in {"red", "blue"}
  <2> DEFINE c == IF p = "red" THEN "r" ELSE "b"
  <2>1. RowColor(y) # c /\ ~GreenAt(x, y)
    BY <1>8, RedBlueSite
  <2>2. OtherColor(y) = c
    BY <1>1, <1>8, <2>1, Colors
  <2>3. ReadsAt(p, x, y) = At(x, y, Corners(1) \cup RedBlueTargets, "g") \cup
                           At(x, y, Corners(1), c)
    BY <1>8, Zenon DEF ReadsAt
  <2> HIDE DEF c
  <2>4. At(x, y, Corners(1) \cup RedBlueTargets, "g") \subseteq set
    BY <1>8, OffsetsWithin, GreensRead
  <2>5. At(x, y, Corners(1), c) =
          {<<x - 1, y - 1, c>>, <<x + 1, y - 1, c>>, <<x - 1, y + 1, c>>, <<x + 1, y + 1, c>>}
    BY <1>1 DEF At, Corners
  <2>6. {<<x - 1, y - 1, c>>, <<x + 1, y - 1, c>>, <<x - 1, y + 1, c>>, <<x + 1, y + 1, c>>}
          \subseteq set
    <3>1. /\ ~GreenAt(x - 1, y - 1) /\ ~GreenAt(x + 1, y - 1)
          /\ ~GreenAt(x - 1, y + 1) /\ ~GreenAt(x + 1, y + 1)
      BY <1>3, <2>1
    <3>2. RowColor(y - 1) = c /\ RowColor(y + 1) = c
      BY <1>4, <2>2
    <3> QED BY <1>1, <3>1, <3>2 DEF MeasuredAreSet
  <2> QED BY <2>3, <2>4, <2>5, <2>6
<1>9. CASE p = "lzAtGreen"
  <2>1. GreenAt(x, y)
    BY <1>9, SitesOf
  <2>2. ReadsAt(p, x, y) =
          (At(x, y, Here \cup Sides(1) \cup Ends(1), "g") \cup
           At(x, y, Sides(1), RowColor(y))) \cup At(x, y, Ends(1), OtherColor(y))
    BY <1>9, Zenon DEF ReadsAt
  <2>3. At(x, y, Here \cup Sides(1) \cup Ends(1), "g") \subseteq set
    BY <1>9, OffsetsWithin, GreensRead
  <2>4. At(x, y, Sides(1), RowColor(y)) = {<<x - 1, y, RowColor(y)>>, <<x + 1, y, RowColor(y)>>}
    BY <1>1 DEF At, Sides
  <2>5. At(x, y, Ends(1), OtherColor(y)) = {<<x, y - 1, OtherColor(y)>>, <<x, y + 1, OtherColor(y)>>}
    BY <1>1 DEF At, Ends
  <2>6. /\ {<<x - 1, y, RowColor(y)>>, <<x + 1, y, RowColor(y)>>} \subseteq set
        /\ {<<x, y - 1, OtherColor(y)>>, <<x, y + 1, OtherColor(y)>>} \subseteq set
    BY <1>1, <1>2, <1>4, <1>5, <2>1 DEF MeasuredAreSet
  <2> QED BY <2>2, <2>3, <2>4, <2>5, <2>6
<1>10. CASE p = "lzAtOther"
  <2>1. ~GreenAt(x, y)
    BY <1>10, SitesOf
  <2>2. ReadsAt(p, x, y) =
          At(x, y, Here \cup Corners(1), "g") \cup At(x, y, Corners(1), OtherColor(y))
    BY <1>10, Zenon DEF ReadsAt
  <2>3. At(x, y, Here \cup Corners(1), "g") \subseteq set
    BY <1>10, OffsetsWithin, GreensRead
  <2>4. \A c : At(x, y, Corners(1), c) =
          {<<x - 1, y - 1, c>>, <<x + 1, y - 1, c>>, <<x - 1, y + 1, c>>, <<x + 1, y + 1, c>>}
    BY <1>1 DEF At, Corners
  <2>5. {<<x - 1, y - 1, OtherColor(y)>>, <<x + 1, y - 1, OtherColor(y)>>,
         <<x - 1, y + 1, OtherColor(y)>>, <<x + 1, y + 1, OtherColor(y)>>} \subseteq set
    BY <1>1, <1>3, <1>4, <2>1 DEF MeasuredAreSet
  <2> QED BY <2>2, <2>3, <2>4, <2>5
<1> QED BY <1>6, <1>7, <1>8, <1>9, <1>10 DEF PassNames

(* Hence no thread reads what is not there.                                *)
LEMMA ProgressInputsReady == Inv /\ Progress => InputsReady
<1> SUFFICES ASSUME Inv, Progress, NEW t \in Threads, Busy(t), PassOf(t) # "refine",
                    team[t].row \in 3..image.height - 4,
                    NEW x \in Sites(PassOf(t), team[t].row) \cap (3..image.width - 4)
             PROVE  ReadsAt(PassOf(t), x, team[t].row) \subseteq set
  BY DEF InputsReady
<1>1. /\ image \in Images /\ team[t].row \in Rows(PassOf(t))
      /\ team[t].pass \in 1..Len(Passes)
  BY ThreadFacts
<1>2. PassOf(t) \in PassNames
  BY <1>1, PassNamed DEF PassOf
<1>3. CASE PassOf(t) = "copy"
  BY <1>3, CopyAt
<1>4. CASE PassOf(t) # "copy"
  <2>1. \/ PassOf(t) \in {"green", "lzGreen"} /\ (image.program = "dcraw" => 1 < team[t].pass)
        \/ team[t].pass > IF image.program = "dcraw" THEN 2 ELSE 1
    <3>1. CASE image.program = "dcraw"
      <4>1. team[t].pass \in {1, 2, 3, 4, 5}
        BY <1>1, <3>1, PassNumber
      <4> QED BY <1>1, <1>4, <3>1, <4>1, PassFacts DEF PassOf
    <3>2. CASE image.program = "libraw"
      <4>1. team[t].pass \in {1, 2, 3, 4}
        BY <1>1, <3>2, PassNumber
      <4> QED BY <1>1, <1>4, <3>2, <4>1, PassFacts DEF PassOf
    <3> QED BY <1>1, <3>1, <3>2, PassFacts
  <2>2. MeasuredAreSet /\ (PassOf(t) \in {"green", "lzGreen"} \/ GreensAreSet)
    BY <2>1, MeasuredSet, GreensSet
  <2> QED BY <1>1, <1>2, <1>4, <2>2, InnerReads
<1> QED BY <1>3, <1>4

-----------------------------------------------------------------------------
(* The image is complete.                                                  *)
LEMMA RedBlueComplete ==
  ASSUME image \in Images, MeasuredAreSet, NEW p \in {"red", "blue"},
         NEW c, c = IF p = "red" THEN "r" ELSE "b",
         \A z \in Rows(p) : Writes(p, z) \subseteq set,
         NEW x \in 2..image.width - 3, NEW y \in 2..image.height - 3
  PROVE  <<x, y, c>> \in set
<1> DEFINE rx == IF p = "red" THEN f.rx ELSE f.bx
           ry == IF p = "red" THEN f.ry ELSE f.by
<1>1. /\ x \in Int /\ y \in Int /\ x \in Columns /\ y \in AllRows
      /\ rx \in {0, 1} /\ ry \in {0, 1}
  BY ImageFacts DEF Columns, AllRows
<1>2. \A z \in ry + 1..image.height - 2 : \A v \in rx + 1..image.width - 2 :
        z % 2 # ry /\ v % 2 # rx =>
          {<<v, z, c>>, <<v + 1, z, c>>, <<v, z - 1, c>>} \subseteq set
  <2> SUFFICES ASSUME NEW z \in ry + 1..image.height - 2, NEW v \in rx + 1..image.width - 2,
                      z % 2 # ry, v % 2 # rx
               PROVE  {<<v, z, c>>, <<v + 1, z, c>>, <<v, z - 1, c>>} \subseteq set
    OBVIOUS
  <2>1. z \in Rows(p) /\ v \in Sites(p, z)
    BY RowsOf, SitesOf
  <2>2. WritesAt(p, v, z) = {<<v, z, c>>, <<v + 1, z, c>>, <<v, z - 1, c>>}
    BY <1>1, RedBlueAt, SMTT(30)
  <2> QED BY <2>1, <2>2, InMembers
<1>3. /\ GreenAt(x, y) <=> (x % 2 = rx /\ y % 2 # ry) \/ (x % 2 # rx /\ y % 2 = ry)
      /\ RowColor(y) = c <=> y % 2 = ry
  <2>1. CASE p = "red"
    BY <1>1, <2>1, Neighbours, Colors
  <2>2. CASE p = "blue"
    <3>1. (x % 2 = f.rx <=> x % 2 # rx) /\ (y % 2 = f.ry <=> y % 2 # ry)
      BY <1>1, <2>2, ImageFacts, Parity
    <3> QED BY <1>1, <2>2, <3>1, Neighbours, Colors
  <2> QED BY <2>1, <2>2
<1> HIDE DEF rx, ry
<1>4. /\ x % 2 \in {0, 1} /\ (x - 1) % 2 = 1 - (x % 2)
      /\ y % 2 \in {0, 1} /\ (y + 1) % 2 = 1 - (y % 2)
  BY <1>1, Parity
<1>5. CASE y % 2 = ry /\ x % 2 = rx
  BY <1>1, <1>3, <1>5 DEF MeasuredAreSet
<1>6. CASE y % 2 = ry /\ x % 2 # rx
  <2>1. y + 1 \in ry + 1..image.height - 2 /\ (y + 1) % 2 # ry
    BY <1>1, <1>4, <1>6, ImageFacts
  <2>2. x \in rx + 1..image.width - 2
    BY <1>1, ImageFacts
  <2>3. <<x, (y + 1) - 1, c>> \in set
    BY <1>2, <1>6, <2>1, <2>2
  <2> QED BY <1>1, <2>3
<1>7. CASE y % 2 # ry /\ x % 2 # rx
  <2>1. y \in ry + 1..image.height - 2 /\ x \in rx + 1..image.width - 2
    BY <1>1, ImageFacts
  <2> QED BY <1>2, <1>7, <2>1
<1>8. CASE y % 2 # ry /\ x % 2 = rx
  <2>1. y \in ry + 1..image.height - 2
    BY <1>1, ImageFacts
  <2>2. x - 1 \in rx + 1..image.width - 2 /\ (x - 1) % 2 # rx
    <3>1. CASE rx = 0
      BY <1>1, <1>4, <1>8, <3>1, ImageFacts
    <3>2. CASE rx = 1
      <4>1. x # 2
        BY <1>8, <3>2
      <4> QED BY <1>1, <1>4, <1>8, <3>2, <4>1, ImageFacts
    <3> QED BY <1>1, <3>1, <3>2
  <2>3. <<(x - 1) + 1, y, c>> \in set
    BY <1>2, <1>8, <2>1, <2>2
  <2> QED BY <1>1, <2>3
<1> QED BY <1>5, <1>6, <1>7, <1>8

(* The last two loops of lz_interpolate() together make red and blue       *)
(* everywhere.                                                             *)
LEMMA LzComplete ==
  ASSUME image \in Images, MeasuredAreSet,
         \A p \in {"lzAtGreen", "lzAtOther"} : \A z \in Rows(p) : Writes(p, z) \subseteq set,
         NEW x \in 2..image.width - 3, NEW y \in 2..image.height - 3
  PROVE  <<x, y, "r">> \in set /\ <<x, y, "b">> \in set
<1>1. /\ x \in Int /\ y \in Int /\ x \in Columns /\ y \in AllRows
      /\ x \in 1..image.width - 2 /\ y \in 1..image.height - 2
  BY ImageFacts DEF Columns, AllRows
<1>2. CASE GreenAt(x, y)
  <2>1. y \in Rows("lzAtGreen") /\ x \in Sites("lzAtGreen", y)
    BY <1>1, <1>2, RowsOf, SitesOf
  <2>2. WritesAt("lzAtGreen", x, y) \subseteq set
    BY <2>1, InMembers
  <2> QED BY <1>1, <2>2, LzAtGreenAt
<1>3. CASE ~GreenAt(x, y)
  <2>1. y \in Rows("lzAtOther") /\ x \in Sites("lzAtOther", y)
    BY <1>1, <1>3, RowsOf, SitesOf
  <2>2. WritesAt("lzAtOther", x, y) \subseteq set
    BY <2>1, InMembers
  <2>3. <<x, y, OtherColor(y)>> \in set /\ <<x, y, RowColor(y)>> \in set
    BY <1>1, <1>3, <2>2, LzAtOtherAt DEF MeasuredAreSet
  <2> QED BY <1>1, <2>3, Colors
<1> QED BY <1>2, <1>3

(* When the team is through, every pass is complete, and with it the       *)
(* interior.                                                               *)
LEMMA ProgressInteriorComplete == Inv /\ Progress => InteriorComplete
<1> SUFFICES ASSUME Inv, Progress, \A t \in Threads : team[t].pass > Len(Passes)
             PROVE  (2..image.width - 3) \X (2..image.height - 3) \X {"r", "g", "b"} \subseteq set
  BY DEF InteriorComplete
<1> SUFFICES ASSUME NEW x \in 2..image.width - 3, NEW y \in 2..image.height - 3
             PROVE  <<x, y, "r">> \in set /\ <<x, y, "g">> \in set /\ <<x, y, "b">> \in set
  <2> SUFFICES ASSUME NEW s \in (2..image.width - 3) \X (2..image.height - 3) \X {"r", "g", "b"}
               PROVE  s \in set
    OBVIOUS
  <2>1. PICK x \in 2..image.width - 3, y \in 2..image.height - 3, c \in {"r", "g", "b"} :
          s = <<x, y, c>>
    OBVIOUS
  <2>2. <<x, y, "r">> \in set /\ <<x, y, "g">> \in set /\ <<x, y, "b">> \in set
    OBVIOUS
  <2> QED BY <2>1, <2>2
<1>1. image \in Images
  BY DEF Inv, TypeOK
<1>2. PICK t \in Threads : team[t].pass > Len(Passes)
  BY DemosaicAssumption
<1>3. \A u \in Threads : ~Busy(u)
  <2> SUFFICES ASSUME NEW u \in Threads, Busy(u) PROVE FALSE
    OBVIOUS
  <2>1. team[u].pass \in 1..Len(Passes) /\ Len(Passes) \in {4, 5}
    BY <1>1, ThreadFacts, PassNamed
  <2>2. team[u].pass > Len(Passes)
    OBVIOUS
  <2> QED BY <2>1, <2>2
<1>4. MeasuredAreSet /\ GreensAreSet
  <2>1. team[t].pass \in 1..6 /\ Len(Passes) \in {4, 5}
    BY <1>1, ThreadFacts, PassNamed
  <2>2. \A n \in 1..6 : (n > 4 \/ n > 5) => n > 2 /\ n > 1
    OBVIOUS
  <2>3. team[t].pass > 4 \/ team[t].pass > 5
    BY <1>2, <2>1
  <2>4. team[t].pass > IF image.program = "dcraw" THEN 2 ELSE 1
    BY <2>1, <2>2, <2>3
  <2> QED BY <2>4, GreensSet
<1>5. ASSUME NEW i \in 1..Len(Passes), Passes[i] # "refine", NEW z \in Rows(Passes[i])
      PROVE  Writes(Passes[i], z) \subseteq set
  <2>1. team[t].pass \in 1..6 /\ Len(Passes) \in {4, 5}
    BY <1>1, ThreadFacts, PassNamed
  <2>2. i < team[t].pass
    BY <1>2, <2>1
  <2> QED BY <1>3, <1>5, <2>2, PassMade
<1>6. CASE image.program = "dcraw"
  <2>1. Len(Passes) = 5 /\ Passes[4] = "red" /\ Passes[5] = "blue"
    BY <1>1, <1>6, PassFacts
  <2>2. 4 \in 1..Len(Passes) /\ 5 \in 1..Len(Passes)
    BY <2>1
  <2>3. \A z \in Rows("red") : Writes("red", z) \subseteq set
    BY <1>5, <2>1, <2>2
  <2>4. \A z \in Rows("blue") : Writes("blue", z) \subseteq set
    BY <1>5, <2>1, <2>2
  <2>5. <<x, y, "r">> \in set
    BY <1>1, <1>4, <2>3, RedBlueComplete
  <2>6. <<x, y, "b">> \in set
    BY <1>1, <1>4, <2>4, RedBlueComplete
  <2> QED BY <1>4, <2>5, <2>6 DEF GreensAreSet
<1>7. CASE image.program = "libraw"
  <2>1. Len(Passes) = 4 /\ Passes[3] = "lzAtGreen" /\ Passes[4] = "lzAtOther"
    BY <1>1, <1>7, PassFacts
  <2>2. 3 \in 1..Len(Passes) /\ 4 \in 1..Len(Passes)
    BY <2>1
  <2>3. \A p \in {"lzAtGreen", "lzAtOther"} : \A z \in Rows(p) : Writes(p, z) \subseteq set
    BY <1>5, <2>1, <2>2
  <2>4. <<x, y, "r">> \in set /\ <<x, y, "b">> \in set
    BY <1>1, <1>4, <2>3, LzComplete
  <2> QED BY <1>4, <2>4 DEF GreensAreSet
<1> QED BY <1>1, <1>6, <1>7, PassFacts

(* No loop reads, for a pixel three away from the edges, a sample that has *)
(* not been set, in whatever order the team works: the barriers between    *)
(* the loops are enough, and the missing one between red and blue does no  *)
(* harm.                                                                   *)
THEOREM InputsAreReady == Spec => []InputsReady
BY InvHolds, ProgressHolds, ProgressInputsReady, PTL

(* When the native call returns, all pixels two away from the edges have   *)
(* three channels.                                                         *)
THEOREM ImageGetsComplete == Spec => []InteriorComplete
BY InvHolds, ProgressHolds, ProgressInteriorComplete, PTL

=============================================================================
