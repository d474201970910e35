----------------------------- MODULE MCDesktop ------------------------------
(* Desktop with overlapping windows on a screen of a few pixels.           *)
EXTENDS Desktop, TLC

CONSTANTS w1, w2, w3

MCWidth  == w1 :> 3 @@ w2 :> 2 @@ w3 :> 1
MCHeight == w1 :> 2 @@ w2 :> 2 @@ w3 :> 1
MCStartX == w1 :> 0 @@ w2 :> 1 @@ w3 :> 2
MCStartY == w1 :> 0 @@ w2 :> 0 @@ w3 :> 0

MCPointerShape == {<<1, 0>>, <<1, 1>>}

(* Up to the right and down to the left: below the screen the pointer      *)
(* jumps to column ScreenHeight - 1, which brings it to every pixel.       *)
MCMoves  == {<<1, -1>>, <<-1, 1>>}
=============================================================================
