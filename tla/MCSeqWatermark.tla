--------------------------- MODULE MCSeqWatermark ---------------------------
EXTENDS SeqWatermark

CONSTANTS f1, f2

MCFile == {f1, f2}

\* One to four rows, so that the halves are equal, unequal or empty, and a
\* watermark with dark and bright pixels in each row.
MCWatermark == [p \in Pixel(2, 4) |-> IF (p[1] + p[2]) % 2 = 0 THEN 49 ELSE 50]

\* Grey images, and one in colour.
MCPicture ==
    {[p \in Pixel(2, rows) |-> <<IF p = <<0, 0>> THEN 255 ELSE 10>>] : rows \in 1..4}
    \cup {[p \in Pixel(2, 3) |-> <<200, 100 + p[1], 9>>]}
=============================================================================
