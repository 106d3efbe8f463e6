---------------------------- MODULE MCOpenedFiles ---------------------------
(* Model values and sizes for the runs of OpenedFiles. *)
EXTENDS OpenedFiles

CONSTANTS s1, s2, s3

TwoStreams == {s1, s2}
ThreeStreams == {s1, s2, s3}
AllSizes == {-1, 0, 1}
=============================================================================
