--------------------------- MODULE MCImagePipeline ---------------------------
(***************************************************************************)
(* Values for ImagePipeline. MinQuality and MaxAttempts are those of       *)
(* limits.go, the sides are half as large as real ones, and so is MinSide. *)
(* Images: a broad one that needs all the attempts to come down to MinSide *)
(* and whose short side is rounded often, one just above MinSide in both   *)
(* sides, one that is a line, and one with too many pixels. Lengths: of    *)
(* the limit, one byte more, two bytes more.                               *)
(***************************************************************************)
EXTENDS ImagePipeline

MCLengths == 2..4
MCImages == {<<120, 10>>, <<33, 35>>, <<1, 66>>, <<150, 150>>}
MCBoxes == {<<120, 120>>, <<50, 33>>}
MCQualities == {30, 40, 41, 45}

=============================================================================
