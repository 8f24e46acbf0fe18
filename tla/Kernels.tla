------------------------------ MODULE Kernels -------------------------------
(***************************************************************************)
(* How lib/util.cpp stamps an image.  An image maps each pixel <<c, r>> to *)
(* the values of its channels; the watermark maps pixels to brightness and *)
(* covers the image: the program demands the same size, and reads outside  *)
(* the watermark when that is smaller.                                     *)
(***************************************************************************)
EXTENDS Integers, Sequences, FiniteSetsExt

Pixel(width, height) == (0..(width - 1)) \X (0..(height - 1))
Height(img) == Max({p[2] : p \in DOMAIN img}) + 1

\* A value divided by 1.8 and stored in an int again.
Dimmed(v) == (v * 5) \div 9

apply_watermark(avg, img, p) ==
    [img EXCEPT ![p] = [ch \in DOMAIN @ |-> IF avg THEN Dimmed(@[ch]) ELSE 0]]

Dark(img, watermark, rows) == {p \in DOMAIN img : p[2] \in rows /\ watermark[p] < 50}

\* The loop all versions have in common, over some rows of the image.
StampRows(img, watermark, average, rows) ==
    FoldSet(LAMBDA p, stamped : apply_watermark(average, stamped, p),
            img, Dark(img, watermark, rows))

process_image(img, watermark, average) ==
    StampRows(img, watermark, average, 0..(Height(img) - 1))

\* Mutated form: the lower half begins below the row in the middle.
HalfRowsRoundedUp(img, is_stage_2) ==
    LET lim_y == Height(img) \div 2 IN
    IF is_stage_2 THEN 0..(lim_y - 1)
    ELSE ((Height(img) + 1) \div 2)..(Height(img) - 1)

HalfRows(img, is_stage_2) ==
    LET lim_y == Height(img) \div 2 IN
    IF is_stage_2 THEN 0..(lim_y - 1) ELSE lim_y..(Height(img) - 1)

\* pipe_process_image() with is_stage_2, for a pipeline of two such stages.
pipe_process_half(img, watermark, average, is_stage_2) ==
    StampRows(img, watermark, average, HalfRows(img, is_stage_2))

\* What a stamp is, pixel by pixel.
Stamped(img, watermark, average) ==
    [p \in DOMAIN img |->
        IF watermark[p] >= 50 THEN img[p]
        ELSE [ch \in DOMAIN img[p] |-> IF average THEN Dimmed(img[p][ch]) ELSE 0]]
=============================================================================
