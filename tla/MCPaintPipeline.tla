--------------------------- MODULE MCPaintPipeline ---------------------------
(* Instances of PaintPipeline for TLC.                                     *)
EXTENDS PaintPipeline

CONSTANTS a, b

(* Index arrays name cells of one image, in any order.                     *)
AnyOrder ==
  [r \in Calls |->
     {<<<<i, x>>>> : i \in Images, x \in Cells} \cup
     {<<<<i, x[1]>>, <<i, x[2]>>>> : i \in Images, x \in {y \in Cells \X Cells : y[1] # y[2]}}]
=============================================================================
