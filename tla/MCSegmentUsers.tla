---------------------------- MODULE MCSegmentUsers ----------------------------
(* An instance of SegmentUsers for TLC.                                    *)
EXTENDS SegmentUsers, TLC

MCNoSession == Session(<<>>, 0, 0, 0, 0)
Alike == Permutations(Uploaders)
=============================================================================
