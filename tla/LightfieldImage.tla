-------------------------- MODULE LightfieldImage ---------------------------
(***************************************************************************)
(* Lyli::Image::LightfieldImage (lib/image/lightfieldimage.cpp): one pixel *)
(* for every lens, taken from the raw image where the lines of a line grid *)
(* cross.  Which point of the raw image a pixel comes from is given by the *)
(* indices of these lines; pixels are pairs of column and row, from 0.     *)
(***************************************************************************)
EXTENDS Integers, Sequences

(* The size the image is created with: a row for every horizontal line, a  *)
(* column for every other vertical one.                                    *)
ImageCols(grid) == Len(grid.vertical) \div 2
ImageRows(grid) == Len(grid.horizontal)
ImagePixels(grid) == (0..(ImageCols(grid) - 1)) \X (0..(ImageRows(grid) - 1))

(* Wrong variant of Sampled: all crossings are taken for lenses. *)
SampledAll(grid) == (DOMAIN grid.vertical) \X (DOMAIN grid.horizontal)

(* There is a lens where two lines of the same subgrid cross. *)
Sampled(grid) ==
    {c \in (DOMAIN grid.vertical) \X (DOMAIN grid.horizontal) :
        grid.vertical[c[1]].subgrid = grid.horizontal[c[2]].subgrid}

(* The pixels lie behind each other, row by row, and at() computes where   *)
(* one is without looking at the size: a column too far is the first one   *)
(* of the next row.                                                        *)
Address(grid, pixel) == pixel[2] * ImageCols(grid) + pixel[1]

(* Where the sample of a crossing is written to. *)
PixelOf(grid, crossing) == Address(grid, <<(crossing[1] - 1) \div 2, crossing[2] - 1>>)

(* The crossings that are written past the end of the image. *)
Outside(grid) ==
    {c \in Sampled(grid) : PixelOf(grid, c) >= ImageCols(grid) * ImageRows(grid)}

(* The crossings that are written to a pixel, *)
SourcesOf(grid, pixel) == {c \in Sampled(grid) : PixelOf(grid, c) = Address(grid, pixel)}

(* and the last of them, which it shows: the vertical lines are the outer  *)
(* loop.                                                                   *)
Shown(grid, pixel) ==
    CHOOSE c \in SourcesOf(grid, pixel) :
        \A d \in SourcesOf(grid, pixel) : d[1] < c[1] \/ (d[1] = c[1] /\ d[2] <= c[2])
=============================================================================
