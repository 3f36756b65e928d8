------------------------------ MODULE RawImage ------------------------------
(***************************************************************************)
(* Lyli::Image::RawImage (lib/image/rawimage.cpp): a file of packed 12 bit *)
(* pixels behind a Bayer filter becomes an image of three channels of 16   *)
(* bits.  Pixels are pairs of x and y, channels 0, 1 and 2, as in the      *)
(* code; Undef is the value of memory nothing was written to.              *)
(***************************************************************************)
EXTENDS Integers, Sequences

CONSTANTS Width, Height     \* 3280 both; the code assumes an even width

ASSUME SizeAssumption ==
    Width \in Nat /\ Height \in Nat /\ Width % 2 = 0 /\ Width > 2 /\ Height > 2

Undef == -1
Pixels == (0..(Width - 1)) \X (0..(Height - 1))

(* 0 is red, 1 is green, 2 is blue. *)
getColorIndex(x, y) ==
    IF y % 2 = 1 THEN IF x % 2 = 1 THEN 0 ELSE 1
    ELSE IF x % 2 = 1 THEN 1 ELSE 2

(* Byte i of buf after the g-th read of three bytes: where the file has    *)
(* ended, buf keeps what an earlier read left there.                       *)
Buf(file, g, i) ==
    LET reads == IF Len(file) < i THEN 0 ELSE (Len(file) - i) \div 3 + 1
        last == IF g < reads THEN g ELSE reads
    IN  IF last = 0 THEN Undef ELSE file[3 * (last - 1) + i]

(* The two pixels of three bytes, 12 bits each, moved to the upper end of  *)
(* a word of 16 bits.                                                      *)
FirstPixel(b0, b1) == IF Undef \in {b0, b1} THEN Undef ELSE 256 * b0 + (b1 - (b1 % 16))

(* Wrong variant of SecondPixel: the four bits left over are not moved up. *)
SecondPixelLow(b1, b2) == IF Undef \in {b1, b2} THEN Undef ELSE 16 * (b1 % 16) + 16 * b2

SecondPixel(b1, b2) == IF Undef \in {b1, b2} THEN Undef ELSE 4096 * (b1 % 16) + 16 * b2

(* The constructor's loop: a pixel gets the channel of its filter. *)
Load(file) ==
    [p \in Pixels |->
        LET g == (p[2] * Width + p[1]) \div 2 + 1
            value == IF p[1] % 2 = 0 THEN FirstPixel(Buf(file, g, 1), Buf(file, g, 2))
                     ELSE SecondPixel(Buf(file, g, 2), Buf(file, g, 3))
        IN  [c \in 0..2 |-> IF c = getColorIndex(p[1], p[2]) THEN value ELSE Undef]]

-----------------------------------------------------------------------------
COL_MAX == Width - 1
ROW_MAX == Height - 1

(* The mean of a channel over pixels at offsets from p, rounded down. *)
Interpolate(data, p, offsets, c) ==
    LET values == [k \in DOMAIN offsets |-> data[<<p[1] + offsets[k][1], p[2] + offsets[k][2]>>][c]]
    IN  IF \E k \in DOMAIN values : values[k] = Undef THEN Undef
        ELSE IF Len(values) = 2 THEN (values[1] + values[2]) \div 2
        ELSE (values[1] + values[2] + values[3] + values[4]) \div 4

Beside == <<<<-1, 0>>, <<1, 0>>>>
Above == <<<<0, -1>>, <<0, 1>>>>
Diagonal == <<<<-1, 1>>, <<-1, -1>>, <<1, 1>>, <<1, -1>>>>
Around == <<<<-1, 0>>, <<1, 0>>, <<0, -1>>, <<0, 1>>>>

(* The inner pixels of a pass: x and y from a first value on, in steps of 2. *)
InPass(p, x, y) ==
    /\ p[1] >= x /\ p[1] < COL_MAX /\ (p[1] - x) % 2 = 0
    /\ p[2] >= y /\ p[2] < ROW_MAX /\ (p[2] - y) % 2 = 0

(* red lines and blue stripes *)
RedLines(data) ==
    [p \in Pixels |-> IF InPass(p, 2, 1)
        THEN [data[p] EXCEPT ![0] = Interpolate(data, p, Beside, 0), ![2] = Interpolate(data, p, Above, 2)]
        ELSE data[p]]

(* blue lines and red stripes *)
BlueLines(data) ==
    [p \in Pixels |-> IF InPass(p, 1, 2)
        THEN [data[p] EXCEPT ![0] = Interpolate(data, p, Above, 0), ![2] = Interpolate(data, p, Beside, 2)]
        ELSE data[p]]

(* red middle, green #1 *)
RedMiddle(data) ==
    [p \in Pixels |-> IF InPass(p, 2, 2)
        THEN [data[p] EXCEPT ![0] = Interpolate(data, p, Diagonal, 0), ![1] = Interpolate(data, p, Around, 1)]
        ELSE data[p]]

(* blue middle, green #2 *)
BlueMiddle(data) ==
    [p \in Pixels |-> IF InPass(p, 1, 1)
        THEN [data[p] EXCEPT ![2] = Interpolate(data, p, Diagonal, 2), ![1] = Interpolate(data, p, Around, 1)]
        ELSE data[p]]

(* Top, bottom, left and right are copies of the rows and columns next to  *)
(* them: first rows, then columns.                                         *)
Borders(data) ==
    [p \in Pixels |->
        data[<<IF p[1] = 0 THEN 1 ELSE IF p[1] = COL_MAX THEN COL_MAX - 1 ELSE p[1],
               IF p[2] = 0 THEN 1 ELSE IF p[2] = ROW_MAX THEN ROW_MAX - 1 ELSE p[2]>>]]

demosaic(data) == Borders(BlueMiddle(RedMiddle(BlueLines(RedLines(data)))))

RawImageOf(file) == demosaic(Load(file))
=============================================================================
