----------------------------- MODULE PartImages -----------------------------
(***************************************************************************)
(* A file as images: cut into parts (image_decode_task.cpp), each drawn as *)
(* tiles of coloured cells and sent as text (part_image_utils.cpp), and    *)
(* read off the picture again, with the positions of a calibration or by   *)
(* finding the tiles (image_decoder.cpp).  A picture is measured in cells: *)
(* its pixels, the lens and what transform_utils.cpp does against the lens *)
(* are left out, and so is the PNG file beyond being lossless.             *)
(***************************************************************************)
EXTENDS SymbolCodec, FiniteSets

CONSTANT Dark   \* the colours that are not white once binarized

WHITE == 0
BLACK == 1
RED == 2
Colors == 0 .. 7

ASSUME DarkAssumption == BLACK \in Dark /\ Dark \subseteq Colors \ {WHITE}

None == <<>>

FrameSize(d) == d[1] * d[2] * d[3] * d[4]
get_part_byte_num(bits, d) == (FrameSize(d) * bits) \div 8 - META_BYTE_NUM

-----------------------------------------------------------------------------
(* The parts of the file: its bytes, filled up to a whole part, then its   *)
(* length in a part of its own.                                            *)
Halves(n) == <<n % 65536, n \div 65536>>
Whole(v) == v[1] + 65536 * v[2]
Int32(n) == uint32_to_bytes(Halves(n))
Number(bytes) == Whole(bytes_to_uint32(bytes))
Filled(n, size) == CeilDiv(n, size) * size
get_task_bytes(file, size) ==
    Resized(file, Filled(Len(file), size)) \o Resized(Int32(Len(file)), size)
PartOf(raw_bytes, size, id) == SubSeq(raw_bytes, id * size + 1, (id + 1) * size)

(* The bitmap of the parts done, and the task as bytes.                    *)
Mask(id) == <<1, 2, 4, 8, 16, 32, 64, 128>>[(id % 8) + 1]
is_part_done(bytes, id) == (bytes[id \div 8 + 1] \div Mask(id)) % 2 = 1
Mark(bytes, id) ==
    [bytes EXCEPT ![id \div 8 + 1] = IF is_part_done(bytes, id) THEN @ ELSE @ + Mask(id)]

MutToTaskBytes(bits, n, num, done, bytes) ==
    Int32(bits - 1) \o Int32(n[1]) \o Int32(n[2]) \o Int32(n[3]) \o Int32(n[4]) \o Int32(done) \o Int32(num) \o bytes
ToTaskBytes(bits, n, num, done, bytes) ==
    Int32(bits - 1) \o Int32(n[1]) \o Int32(n[2]) \o Int32(n[3]) \o Int32(n[4]) \o Int32(num) \o Int32(done) \o bytes
from_task_bytes(bytes) ==
    LET Word(i) == Number(SubSeq(bytes, 4 * i + 1, 4 * i + 4))
        size == 4 * 7 + CeilDiv(Word(5), 8)
    IN  IF Len(bytes) # size THEN None
        ELSE [b |-> Word(0) + 1, dim |-> [i \in 1 .. 4 |-> Word(i)], part_num |-> Word(5),
              done_part_num |-> Word(6), status |-> SubSeq(bytes, 29, size)]

-----------------------------------------------------------------------------
(* A picture: its size and the colour at each of its cells.                *)
Cells(cols, rows) == (0 .. cols - 1) \X (0 .. rows - 1)
do_crop(img, box) ==
    LET cols == box[3] - box[1]   rows == box[4] - box[2]
    IN  [cols |-> cols, rows |-> rows,
         at |-> [p \in Cells(cols, rows) |-> img.at[<<p[1] + box[1], p[2] + box[2]>>]]]

(* The layout of a frame: tiles with a border, space between them, and a   *)
(* margin around.                                                          *)
Pitch(size, space) == size + 2 + space
Extent(num, size, space) == num * (size + 2) + (num - 1) * space + 2
is_tile_border(size_x, size_y, x, y) == y = 0 \/ y = size_y + 1 \/ x = 0 \/ x = size_x + 1

(* The symbol a cell of tile <<tx, ty>> shows.                             *)
SymbolIndex(d, tx, ty, x, y) == ((ty * d[1] + tx) * d[4] + y) * d[3] + x

(* Between: the colour of the spaces, of which there are none in a frame   *)
(* of one tile.                                                            *)
HasSpaces(d) == d[1] > 1 \/ d[2] > 1
TileCells(d) == (0 .. d[1] - 1) \X (0 .. d[2] - 1) \X (0 .. d[3] + 1) \X (0 .. d[4] + 1)
Layout(d, space, between, cell) ==
    LET cols == Extent(d[1], d[3], space)   rows == Extent(d[2], d[4], space)
        Color(px, py) ==
            LET tx == (px - 1) \div Pitch(d[3], space)   x == (px - 1) % Pitch(d[3], space)
                ty == (py - 1) \div Pitch(d[4], space)   y == (py - 1) % Pitch(d[4], space)
            IN  IF px \in {0, cols - 1} \/ py \in {0, rows - 1} THEN WHITE
                ELSE IF x > d[3] + 1 \/ y > d[4] + 1 THEN between
                ELSE cell[<<tx, ty, x, y>>]
    IN  [cols |-> cols, rows |-> rows, at |-> [p \in Cells(cols, rows) |-> Color(p[1], p[2])]]

(* The spaces of a part's image are never drawn: they show what the memory *)
(* of the new cv::Mat holds, here one colour for all pixels of an image.   *)
generate_part_image(d, space, memory, bits, id, part_bytes) ==
    LET symbols == Encode(bits, Halves(id), part_bytes, FrameSize(d))
    IN  Layout(d, space, memory,
               [c \in TileCells(d) |->
                   IF is_tile_border(d[3], d[4], c[3], c[4]) THEN BLACK
                   ELSE symbols[SymbolIndex(d, c[1], c[2], c[3] - 1, c[4] - 1) + 1]])

(* Canvas::paintEvent in CalibrationMode::POSITION: a dot in every cell,   *)
(* on a canvas filled with white.                                          *)
PositionPage(d, space) ==
    Layout(d, space, WHITE,
           [c \in TileCells(d) |->
               IF is_tile_border(d[3], d[4], c[3], c[4]) THEN WHITE ELSE BLACK])

(* cv::imencode and cv::imdecode of a PNG.                                 *)
Png(img) ==
    Int32(img.cols) \o Int32(img.rows)
    \o [i \in 1 .. img.cols * img.rows |-> img.at[<<(i - 1) % img.cols, (i - 1) \div img.cols>>]]
FromPng(bytes) ==
    LET cols == Number(SubSeq(bytes, 1, 4))   rows == Number(SubSeq(bytes, 5, 8))
    IN  [cols |-> cols, rows |-> rows,
         at |-> [p \in Cells(cols, rows) |-> bytes[9 + p[1] + p[2] * cols]]]

img_to_msg_bytes(img) ==
    LET text == b64encode(Png(img))
    IN  Resized(Int32(Len(text)), 8) \o text
(* FetchData: as many bytes as the first eight say.                        *)
FetchData(msg) ==
    b64decode(SubSeq(msg, 9, 8 + Number(SubSeq(msg, 1, 4))))

-----------------------------------------------------------------------------
(* The dark cell on the first diagonal from a corner of the picture, which *)
(* dx and dy lead away from, and of its cells the leftmost; <<0, 0>> when  *)
(* there is none.                                                          *)
Corner(img, dx, dy) ==
    LET dark == {p \in DOMAIN img.at : img.at[p] \in Dark}
        Diagonal(p) == dx * p[1] + dy * p[2]
        first == Min({Diagonal(p) : p \in dark})
    IN  IF dark = {} THEN <<0, 0>>
        ELSE LET on == {p \in dark : Diagonal(p) = first}
             IN  CHOOSE p \in on : \A q \in on : p[1] <= q[1]
nw(img) == Corner(img, 1, 1)
ne(img) == Corner(img, -1, 1)
sw(img) == Corner(img, 1, -1)
se(img) == Corner(img, -1, -1)

(* The part of the picture between the corners, an upright rectangle.      *)
do_auto_quad(img) == do_crop(img, <<nw(img)[1], ne(img)[2], se(img)[1] + 1, sw(img)[2] + 1>>)

(* The middles of the runs of white columns, or rows, left to right.       *)
Spaces(n, white) ==
    LET begins == {a \in white : a - 1 \notin white}
        Begin(k) == CHOOSE a \in begins : Cardinality({c \in begins : c < a}) = k - 1
        End(a) == CHOOSE e \in a + 1 .. n : e \notin white /\ a .. e - 1 \subseteq white
    IN  [k \in 1 .. Cardinality(begins) |-> (Begin(k) + End(Begin(k))) \div 2]
get_spaces(img) ==
    LET cols == 0 .. img.cols - 1   rows == 0 .. img.rows - 1
    IN  <<Spaces(img.cols, {x \in cols : \A y \in rows : img.at[<<x, y>>] \notin Dark}),
          Spaces(img.rows, {y \in rows : \A x \in cols : img.at[<<x, y>>] \notin Dark})>>

(* The boxes of the tiles, if there are as many spaces as there should be. *)
get_tile_bboxes(img, d) ==
    LET spaces == get_spaces(img)
        xs == <<0>> \o spaces[1] \o <<img.cols>>
        ys == <<0>> \o spaces[2] \o <<img.rows>>
    IN  IF Len(xs) # d[1] + 1 \/ Len(ys) # d[2] + 1 THEN None
        ELSE [t \in (0 .. d[1] - 1) \X (0 .. d[2] - 1) |->
                 <<xs[t[1] + 1], ys[t[2] + 1], xs[t[1] + 2], ys[t[2] + 2]>>]

(* do_pixelize: the colours a codec does not use become its own, as far as *)
(* it can tell.                                                            *)
do_pixelize(bits, color) ==
    CASE bits = 1 -> IF color \in {BLACK, RED, 3, 4} THEN BLACK ELSE WHITE
      [] bits = 2 -> IF color = 6 THEN RED ELSE color
      [] bits = 3 -> color

(* The k-th cell, counted from 0, of a frame that is read tile by tile.    *)
Place(d, k) == [x |-> k % d[3], y |-> (k \div d[3]) % d[4],
                tx |-> (k \div (d[3] * d[4])) % d[1], ty |-> k \div (d[3] * d[4] * d[1])]

(* Calibrate: the dots are found row by row, each as the first from the    *)
(* corner that the dots to the left and above leave; then they are dealt   *)
(* to the tiles.                                                           *)
MutCenterIndex(d, p) == ((p.ty * d[1] + p.tx) * d[4] + p.y) * d[3] + p.x
CenterIndex(d, p) == ((p.ty * d[4] + p.y) * d[1] + p.tx) * d[3] + p.x
WithNextDot(img, cols, found) ==
    LET k == Len(found)
        x0 == IF k % cols = 0 THEN 0 ELSE found[k][1] + 1
        y0 == IF k < cols THEN 0 ELSE found[k + 1 - cols][2] + 1
        dot == nw(do_crop(img, <<x0, y0, img.cols, img.rows>>))
    IN  Append(found, <<dot[1] + x0, dot[2] + y0>>)
Dots(img, d) ==
    LET centers[k \in 0 .. FrameSize(d)] ==
            IF k = 0 THEN <<>> ELSE WithNextDot(img, d[1] * d[3], centers[k - 1])
    IN  centers
Calibrate(img, d) ==
    LET centers == Dots(img, d)[FrameSize(d)]
    IN  [k \in 1 .. FrameSize(d) |-> centers[CenterIndex(d, Place(d, k - 1)) + 1]]

(* The symbols of a picture: at the centres of the calibration, or in the  *)
(* tiles that are found, without their borders.                            *)
CalibratedSymbols(img, bits, centers) ==
    [k \in DOMAIN centers |-> do_pixelize(bits, img.at[centers[k]])]
TileSymbols(img, bits, d) ==
    LET img1 == do_auto_quad(img)
        boxes == get_tile_bboxes(img1, d)
        tiles == [t \in DOMAIN boxes |-> do_auto_quad(do_crop(img1, boxes[t]))]
    IN  IF boxes = None THEN None
        ELSE [k \in 1 .. FrameSize(d) |->
                 LET p == Place(d, k - 1)
                 IN  do_pixelize(bits, tiles[<<p.tx, p.ty>>].at[<<p.x + 1, p.y + 1>>])]

Failed == <<FALSE, <<0, 0>>, None>>
DecodeImage(img, bits, d, calibration) ==
    LET symbols == IF calibration # None THEN CalibratedSymbols(img, bits, calibration)
                   ELSE TileSymbols(img, bits, d)
    IN  IF symbols = None THEN Failed ELSE Decode(bits, symbols)
=============================================================================
