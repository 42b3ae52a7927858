----------------------------- MODULE VideoDecoder -----------------------------
(***************************************************************************)
(* The wrapper of Android's hardware decoder that gives pictures back,      *)
(* mediacodec/mediacodec_decoder.c with mediacodec_utils.c: the life of a   *)
(* decoder, and mediacodec_decoder_decode, which puts one frame in and      *)
(* takes out what the codec has: changes of the output format, and pictures *)
(* whose rows are padded, which lie in a larger picture, and whose colours  *)
(* are stored in another order than the application wants.                 *)
(*                                                                         *)
(* AMediaCodec is external: it tells the format before the first picture,   *)
(* may change it later, and may leave out the keys of the format that are   *)
(* not mandatory.  A picture is a function from places in a buffer to       *)
(* samples <<plane, column, row>>.                                          *)
(***************************************************************************)
EXTENDS Integers, FiniteSets

CONSTANTS
  Long, Short, Shown,  \* 1920, 1088 and 1080, scaled down
  Targets,     \* yuv_pixel_format: "I420", "NV12", "NV21"
  Margins,     \* crop-left and crop-top
  Pads,        \* columns and rows of padding
  NumFormats   \* bound: changes of format

ASSUME DecoderAssumption ==
  /\ {Long, Short, Shown} \subseteq Nat /\ Shown < Short /\ Short < Long
  /\ Targets \subseteq {"I420", "NV12", "NV21"}
  /\ Margins \subseteq Nat /\ Pads \subseteq Nat /\ NumFormats \in Nat
  \* Two by two samples of luma share their chroma, and a rectangle is not empty.
  /\ \A n \in {Long, Short, Shown} : n % 2 = 0
  /\ \A m \in Margins : m + 2 < Short

VARIABLES
  decoder,     \* what the application knows of its decoder
  mt,          \* hardware: the device has the maker's codec that gives planar pictures
  modern,      \* SDK_INT is 23 or more: the padding is asked for
  \* MediaCodecDecoder
  yuv_pixel_format,
  running,     \* codec: it has one, and that runs
  fields,      \* width, height, stride, sliceHeight and the crop rectangle
  \* the call of mediacodec_decoder_decode
  picture,     \* out: the caller's buffer, unwritten before the call
  pictureSize, \* size
  \* history
  told,        \* the format the codec has told last, since it was opened
  earlier,     \* this decoder was told one before that
  seen,        \* what they were when the last picture came out
  formats      \* changes of format

systemVars == <<mt, modern>>
historyVars == <<told, earlier, seen, formats>>
decoderVars == <<decoder, systemVars, yuv_pixel_format, running, fields, picture, pictureSize,
                 historyVars>>

Zero == [width |-> 0, height |-> 0, stride |-> 0, sliceHeight |-> 0,
         crop_left |-> 0, crop_right |-> 0, crop_top |-> 0, crop_bottom |-> 0]

\* Places of a buffer, and what is in one that nobody has written.
Room == (Long * Short * 3) \div 2
Places == 0 .. 2 * Room - 1
Unwritten == [k \in Places |-> <<"?", 0, 0>>]
At(buffer, k) == IF k \in Places THEN buffer[k] ELSE <<"?", 0, 0>>

\* What a codec may tell of its format; a number below 0 stands for a missing key.
Pictures == {<<Long, Short>>, <<Short, Long>>, <<Short, Short>>}
Missing == -1
NoCrop == [left |-> Missing, right |-> Missing, top |-> Missing, bottom |-> Missing]
CropsOf(w, h) ==
  {NoCrop} \cup
  {[left |-> l, right |-> w - 1 - x, top |-> t, bottom |-> h - 1 - y] :
     l \in Margins, t \in Margins, x \in {0, 2}, y \in {0, 2}}
PaddingsOf(w, h) == {<<Missing, Missing>>} \cup {<<w + p, h + p>> : p \in Pads}
FormatsOf(w, h) ==
  [width : {w}, height : {h}, crop : CropsOf(w, h), padded : PaddingsOf(w, h)]
Untold == [width |-> 0, height |-> 0, crop |-> NoCrop, padded |-> <<0, 0>>]
Formats == UNION {FormatsOf(p[1], p[2]) : p \in Pictures}
Unseen == [format |-> Untold, earlier |-> FALSE]

\* How the codec stores its pictures: without padding unless it tells one.
StrideOf(t) == IF t.padded[1] = Missing THEN t.width ELSE t.padded[1]
SliceHeightOf(t) == IF t.padded[2] = Missing THEN t.height ELSE t.padded[2]
-----------------------------------------------------------------------------
(***************************************************************************)
(* The life of a decoder.                                                  *)
(***************************************************************************)

\* The constructors with fewer parameters all end here.
mediacodec_decoder_alloc1(target) ==
  /\ decoder = "none"
  /\ decoder' = "allocated"
  /\ yuv_pixel_format' = target
  /\ running' = FALSE /\ fields' = Zero
  /\ told' = Untold /\ earlier' = FALSE
  /\ UNCHANGED <<systemVars, picture, pictureSize, seen, formats>>

\* The codec is created, configured, started and flushed, as far as that works.
mediacodec_decoder_open ==
  /\ decoder = "allocated"
  /\ \/ decoder' = "failed" /\ running' \in BOOLEAN
     \/ decoder' = "open" /\ running' = TRUE
  /\ told' = Untold /\ earlier' = (earlier \/ told # Untold)
  /\ UNCHANGED <<systemVars, yuv_pixel_format, fields, picture, pictureSize, seen, formats>>

\* Stopping and deleting may fail, and without a codec the status that is returned
\* has not been written.  The fields stay as they are.
mediacodec_decoder_close ==
  /\ decoder \in {"open", "failed", "closing"}
  /\ decoder' \in {"closing", "allocated"}
  /\ running' \in {running, FALSE} /\ (running /\ decoder' = "allocated" => ~running')
  /\ UNCHANGED <<systemVars, yuv_pixel_format, fields, picture, pictureSize, historyVars>>

mediacodec_decoder_free ==
  /\ decoder = "allocated"
  /\ decoder' = "none"
  /\ UNCHANGED <<systemVars, yuv_pixel_format, running, fields, picture, pictureSize,
                 historyVars>>
-----------------------------------------------------------------------------
(***************************************************************************)
(* The output format.                                                      *)
(***************************************************************************)

\* A missing key leaves the field as it is.
getInt32(key, field) == IF key = Missing THEN field ELSE key

\* The test is for crop_left = 0, four times: it is taken for a rectangle that could not
\* be had, whatever the three other fields are.
FixCrop(f) ==
  IF f.crop_left # 0 THEN f
  ELSE LET right == IF f.width = Short /\ f.height = Long THEN Shown - 1 ELSE f.width - 1
           bottom == IF f.width = Long /\ f.height = Short THEN Shown - 1 ELSE f.height - 1
       IN  [f EXCEPT !.crop_right = right, !.crop_top = 0, !.crop_bottom = bottom]

FixPadding(f) ==
  [f EXCEPT !.stride = IF @ < f.width THEN f.width ELSE @,
            !.sliceHeight = IF @ < f.height THEN f.height ELSE @]

\* Before Android 6 stride and sliceHeight are not asked for.
FieldsOf(t, f) ==
  FixPadding(FixCrop(
    [width |-> t.width, height |-> t.height,
     stride |-> IF modern THEN getInt32(t.padded[1], f.stride) ELSE t.width,
     sliceHeight |-> IF modern THEN getInt32(t.padded[2], f.sliceHeight) ELSE t.height,
     crop_left |-> getInt32(t.crop.left, f.crop_left),
     crop_right |-> getInt32(t.crop.right, f.crop_right),
     crop_top |-> getInt32(t.crop.top, f.crop_top),
     crop_bottom |-> getInt32(t.crop.bottom, f.crop_bottom)]))

FormatChanged(t) ==
  /\ decoder = "decoding" /\ formats < NumFormats
  /\ formats' = formats + 1
  /\ told' = t /\ earlier' = (earlier \/ told # Untold)
  /\ fields' = FieldsOf(t, fields)
  /\ UNCHANGED <<decoder, systemVars, yuv_pixel_format, running, picture, pictureSize, seen>>
-----------------------------------------------------------------------------
(***************************************************************************)
(* Pictures and how they are moved: mediacodec_utils.c.                     *)
(***************************************************************************)

\* How a picture of w by h is stored, whose first sample is column l and row t.
Layout(kind, w, h, l, t) ==
  LET n == w * h
      chroma(plane, x, y) == <<plane, x + l \div 2, y + t \div 2>>
  IN  [k \in Places |->
        LET j == k - n
        IN  IF k < n THEN <<"Y", (k % w) + l, k \div w + t>>
            ELSE IF kind = "I420"
            THEN LET q == n \div 4
                 IN  chroma(IF j < q THEN "U" ELSE "V", (j % q) % (w \div 2),
                            (j % q) \div (w \div 2))
            ELSE chroma(IF (j % 2 = 0) <=> (kind = "NV12") THEN "U" ELSE "V",
                        (j % w) \div 2, j \div w)]

\* The first n samples are taken over, and the chroma ones behind from the place
\* that from gives for the i-th of them.
Recoloured(in, old, w, h, from(_, _)) ==
  LET n == w * h
  IN  [k \in Places |-> IF k < n THEN in[k]
                        ELSE IF k < n + 2 * (n \div 4) THEN At(in, n + from(n \div 4, k - n))
                        ELSE old[k]]

NV12toYUV420Planar(in, old, w, h) ==
  LET from(q, i) == IF i < q THEN 2 * i ELSE 2 * (i - q) + 1
  IN  Recoloured(in, old, w, h, from)

I420toYUV420SemiPlanar(in, old, w, h) ==
  LET from(q, i) == IF i % 2 = 0 THEN i \div 2 ELSE q + i \div 2
  IN  Recoloured(in, old, w, h, from)

I420toNV21(in, old, w, h) ==
  LET from(q, i) == IF i % 2 = 1 THEN i \div 2 ELSE q + i \div 2
  IN  Recoloured(in, old, w, h, from)

swapNV12toNV21(in, old, w, h) ==
  LET from(q, i) == IF i % 2 = 0 THEN i + 1 ELSE i - 1
  IN  Recoloured(in, old, w, h, from)

\* A plausible slip: the column is halved as for planes of their own.
CropHalfColumn(in, old, w, h, l, r, t, b) ==
  LET wide == r - l + 1
      n == wide * (b - t + 1)
  IN  [k \in Places |->
        LET i == (k - n) \div wide
            y == k \div wide
        IN  IF k >= n /\ i \in t .. (b \div 2)
            THEN At(in, w * h + i * w + l \div 2 + ((k - n) % wide))
            ELSE IF y \in t .. b THEN At(in, y * w + l + (k % wide))
            ELSE old[k]]

\* Row i of the rectangle goes to row i of the output, of its luma and chroma planes.
CropYUV420SemiPlanar(in, old, w, h, l, r, t, b) ==
  LET wide == r - l + 1
      n == wide * (b - t + 1)
  IN  [k \in Places |->
        LET i == (k - n) \div wide
            y == k \div wide
        IN  IF k >= n /\ i \in t .. (b \div 2) THEN At(in, w * h + i * w + l + ((k - n) % wide))
            ELSE IF y \in t .. b THEN At(in, y * w + l + (k % wide))
            ELSE old[k]]

CropYUV420Planar(in, old, w, h, l, r, t, b) ==
  LET wide == r - l + 1
      half == wide \div 2
      n == wide * (b - t + 1)
      row(k, base) == (k - base) \div half
      in_(k, base) == k >= base /\ row(k, base) \in t .. (b \div 2)
      from(k, base, plane) == At(in, plane + (row(k, base) * w) \div 2 + l + ((k - base) % half))
      v == (n \div 4) * 5
  IN  [k \in Places |->
        IF in_(k, v) THEN from(k, v, ((w * h) \div 4) * 5)
        ELSE IF in_(k, n) THEN from(k, n, w * h)
        ELSE IF k \div wide \in t .. b THEN At(in, (k \div wide) * w + l + (k % wide))
        ELSE old[k]]

\* Rows of luma, and half as many of half the width behind them, lose their padding.
WithoutPadding(in, f) ==
  LET luma == f.sliceHeight * f.width
      half == f.width \div 2
      j(k) == k - luma
  IN  [k \in Places |->
        IF k < luma THEN At(in, (k \div f.width) * f.stride + (k % f.width))
        ELSE IF j(k) < (f.sliceHeight \div 2) * half
        THEN At(in, f.sliceHeight * f.stride + (j(k) \div half) * (f.stride \div 2) + (j(k) % half))
        ELSE picture[k]]
-----------------------------------------------------------------------------
(***************************************************************************)
(* mediacodec_decoder_decode.                                              *)
(***************************************************************************)

\* No input buffer, or one that is too small: the call returns before it looks for
\* pictures.  Otherwise the frame is put in.
DecodeInput ==
  /\ decoder = "open"
  /\ decoder' \in {"open", "decoding"}
  /\ UNCHANGED <<systemVars, yuv_pixel_format, running, fields, picture, pictureSize,
                 historyVars>>

Width(f) == f.crop_right - f.crop_left + 1
Height(f) == f.crop_bottom - f.crop_top + 1
Crops(f) == Width(f) < f.width \/ Height(f) < f.height

\* The picture the codec has, as the application wants it: cropped and converted.
Wanted(plain, given, f) ==
  LET w == Width(f)
      h == Height(f)
      cropped ==
        IF mt
        THEN CropYUV420Planar(plain, given, f.width, f.height,
                              f.crop_left, f.crop_right, f.crop_top, f.crop_bottom)
        ELSE CropYUV420SemiPlanar(plain, given, f.width, f.height,
                                  f.crop_left, f.crop_right, f.crop_top, f.crop_bottom)
      from == IF Crops(f) THEN cropped ELSE plain
  IN  IF mt
      THEN IF yuv_pixel_format = "NV12" THEN I420toYUV420SemiPlanar(from, plain, w, h)
           ELSE IF yuv_pixel_format = "NV21" THEN I420toNV21(from, plain, w, h)
           ELSE from
      ELSE IF yuv_pixel_format = "I420" THEN NV12toYUV420Planar(from, plain, w, h)
           ELSE IF yuv_pixel_format = "NV21" THEN swapNV12toNV21(from, plain, w, h)
           ELSE from

SizeOf(f) == IF Crops(f) THEN (Width(f) * Height(f) * 3) \div 2
                         ELSE (f.width * f.height * 3) \div 2

\* The picture is stored as the codec told, and read as the fields say.  A buffer that is
\* smaller than they say is given back unread.
PictureOut ==
  /\ decoder = "decoding" /\ told # Untold
  /\ LET f == fields
         given == Layout(IF mt THEN "I420" ELSE "NV12", StrideOf(told), SliceHeightOf(told), 0, 0)
         plain == IF f.width = f.stride /\ f.height = f.sliceHeight THEN given
                  ELSE WithoutPadding(given, f)
     IN  picture' = Wanted(plain, given, f) /\ pictureSize' = SizeOf(f)
  /\ seen' = [format |-> told, earlier |-> earlier]
  /\ UNCHANGED <<decoder, systemVars, yuv_pixel_format, running, fields, told, earlier, formats>>

\* The codec has nothing more, or an error.  The picture is the caller's.
DecodeReturn ==
  /\ decoder = "decoding"
  /\ decoder' = "open"
  /\ pictureSize' = 0 /\ picture' = Unwritten
  /\ seen' = Unseen
  /\ UNCHANGED <<systemVars, yuv_pixel_format, running, fields, told, earlier, formats>>

\* The size of the pictures, for the application.
getConfig_width(f) == IF Width(f) < f.width THEN Width(f) ELSE f.width
getConfig_height(f) == IF Height(f) < f.height THEN Height(f) ELSE f.height
-----------------------------------------------------------------------------
DecoderInit ==
  /\ decoder = "none" /\ mt \in BOOLEAN /\ modern \in BOOLEAN
  /\ yuv_pixel_format \in Targets /\ running = FALSE /\ fields = Zero
  /\ picture = Unwritten /\ pictureSize = 0
  /\ told = Untold /\ earlier = FALSE
  /\ seen = Unseen /\ formats = 0

DecoderLife ==
  \/ \E target \in Targets : mediacodec_decoder_alloc1(target)
  \/ mediacodec_decoder_open \/ mediacodec_decoder_close \/ mediacodec_decoder_free

DecoderNext ==
  \/ DecoderLife
  \/ DecodeInput \/ PictureOut \/ DecodeReturn
  \/ \E t \in Formats : FormatChanged(t)

DecoderSpec == DecoderInit /\ [][DecoderNext]_decoderVars
-----------------------------------------------------------------------------
(***************************************************************************)
(* Properties.                                                             *)
(***************************************************************************)

\* The types of the variables.
DecoderTypeOK ==
  /\ decoder \in {"none", "allocated", "failed", "open", "decoding", "closing"}
  /\ mt \in BOOLEAN /\ modern \in BOOLEAN /\ running \in BOOLEAN
  /\ yuv_pixel_format \in Targets
  /\ fields \in [DOMAIN Zero -> Int]
  /\ DOMAIN picture = Places /\ pictureSize \in Nat
  /\ told \in Formats \cup {Untold} /\ earlier \in BOOLEAN
  /\ seen \in [format : Formats \cup {Untold}, earlier : BOOLEAN]
  /\ formats \in 0..NumFormats

\* The rectangle of a format: without one it is the whole picture, and of the 1088 rows
\* or columns a codec makes for 1080 those 1080, as the comment at FixCrop has it.
Whole(t) ==
  [left |-> 0,
   right |-> (IF t.width = Short /\ t.height = Long THEN Shown ELSE t.width) - 1,
   top |-> 0,
   bottom |-> (IF t.width = Long /\ t.height = Short THEN Shown ELSE t.height) - 1]
Rectangle(t) == IF t.crop = NoCrop THEN Whole(t) ELSE t.crop

\* First departure from the format: a rectangle that starts in the first column gives way
\* to the whole picture.
IgnoresCrop(t) == t.crop # NoCrop /\ t.crop.left = 0 /\ t.crop # Whole(t)
Given(t) == IF IgnoresCrop(t) THEN Whole(t) ELSE Rectangle(t)

\* Second departure: the keys that a later format leaves out are those of one before.
KeepsKeys(t, before) ==
  before /\ (t.crop = NoCrop \/ (modern /\ Missing \in {t.padded[1], t.padded[2]}))

\* Third departure: a picture with padding, and a rectangle that does not start in the
\* first row, in an even column, or, with planes of their own, in the first column, are
\* not moved to where they belong.
Misplaced(t) ==
  \/ StrideOf(t) # t.width \/ SliceHeightOf(t) # t.height
  \/ Given(t).top # 0 \/ Given(t).left % 2 # 0 \/ (mt /\ Given(t).left # 0)

Columns(r) == r.right - r.left + 1
Rows(r) == r.bottom - r.top + 1

\* But for the first two, the rectangle that is read is that of the format told last, and
\* getConfig tells its size.
RectangleKept ==
  decoder = "decoding" /\ told # Untold /\ ~KeepsKeys(told, earlier) =>
    /\ Given(told) = [left |-> fields.crop_left, right |-> fields.crop_right,
                      top |-> fields.crop_top, bottom |-> fields.crop_bottom]
    /\ <<getConfig_width(fields), getConfig_height(fields)>> =
         <<Columns(Given(told)), Rows(Given(told))>>

\* The first pictureSize places hold the picture in a rectangle, and all of it.
Shows(r) ==
  LET right == Layout(yuv_pixel_format, Columns(r), Rows(r), r.left, r.top)
  IN  /\ pictureSize = (Columns(r) * Rows(r) * 3) \div 2
      /\ \A k \in 0 .. pictureSize - 1 : picture[k] = right[k]

\* What mediacodec_decoder_decode gives back is the picture in the rectangle of the format
\* it came with, in the colour format that was asked for, whatever formats the decoder was
\* told before, but for three departures of the code from what it is told: where the
\* rectangle starts in the first column it is the whole picture instead, and nothing is
\* said where keys are left out of a later format, or where padding or the place of the
\* rectangle puts samples where they do not belong.
PictureRight ==
  /\ DecoderTypeOK
  /\ RectangleKept
  /\ pictureSize > 0 /\ ~KeepsKeys(seen.format, seen.earlier) /\ ~Misplaced(seen.format) =>
       Shows(Given(seen.format))
=============================================================================
