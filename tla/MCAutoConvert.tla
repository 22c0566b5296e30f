--------------------------- MODULE MCAutoConvert ----------------------------
(***************************************************************************)
(* Model values for AutoConvert: one message with two or three             *)
(* attachments, whose jobs form one batch or several.                      *)
(***************************************************************************)
EXTENDS AutoConvert, TLC

CONSTANTS m1, a1, a2, a3, w1, w2

OneMessage == {m1}

TwoAttachments == {a1, a2}
ThreeAttachments == {a1, a2, a3}

OneWorker == {w1}
TwoWorkers == {w1, w2}

Together == [a \in {a1, a2, a3} |-> m1]
TogetherTwo == [a \in {a1, a2} |-> m1]

Symmetry == Permutations({a1, a2, a3})

=============================================================================
