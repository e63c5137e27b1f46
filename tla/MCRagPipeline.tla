---------------------------- MODULE MCRagPipeline ----------------------------
(* TLC instances of RagPipeline. *)
EXTENDS RagPipeline, TLC

CONSTANTS w1, w2, q1, q2, i1, i2, x1, x2, u1

OnePage == {w1}
TwoPages == {w1, w2}
TwoQuestions == {q1, q2}
TwoIds == {i1, i2}
OneIndex == {x1}
TwoIndexes == {x1, x2}
OneUpload == {u1}
NoUploads == {}
NoneOrTwo == {0, 2}
TwoSeconds == {2}

\* Sessions, prompts and uuids are only compared for equality.
RagSymmetry == Permutations(Pages) \cup Permutations(Questions)
                \cup Permutations(Ids)

OneChunk == {1}

\* VdbIndex's history variable and how an upload ended are not read here.
NoHistory ==
    <<created, store, ragVars,
      [u \in Uploads |-> IF upload[u].phase \in {"done", "failed"} THEN <<>>
                         ELSE <<upload[u].phase, upload[u].index,
                                upload[u].next>>]>>
=============================================================================
