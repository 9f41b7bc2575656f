--------------------------- MODULE MC_ImageProcessor --------------------------
(* Constants for model checking ImageProcessor.                            *)
EXTENDS ImageProcessor

Size(width, height) == [width |-> width, height |-> height]

(* In classic mode an image has any of 9 or 12 borders, which include all  *)
(* that the other modes can return for it.  Six rows have no room for the  *)
(* thickest border with the blur, seven columns have just enough.          *)
MCSizes == {Size(9, 6), Size(7, 12)}

==============================================================================
