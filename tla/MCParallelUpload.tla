-------------------------- MODULE MCParallelUpload --------------------------
(* Instances of ParallelUpload for TLC.                                    *)
EXTENDS ParallelUpload

CONSTANTS a, b, c, v, w

Doc(i, x) == [id |-> i, version |-> x]

\* A batch longer than the pool, one whose duplicate has other content, one in
\* conflict with the first, a single document.
FewBatches ==
  { << Doc(a, v), Doc(b, v), Doc(c, v) >>,
    << Doc(b, v), Doc(a, v), Doc(b, w) >>,
    << Doc(a, w), Doc(b, v) >>,
    << Doc(a, v) >> }

=============================================================================
