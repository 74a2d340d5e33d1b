---------------------------- MODULE MCPortableRun ----------------------------
(* PortableRun for TLC: workers are interchangeable, and a reply calls for   *)
(* a search or the computer.  A publication is called for by the reply to a *)
(* request for a file.                                                      *)
EXTENDS PortableRun, TLC

WorkerSymmetry == Permutations(Workers)
SomeReplies == {<<"search">>, <<"computer">>}

=============================================================================
