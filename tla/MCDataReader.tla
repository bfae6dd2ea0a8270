---------------------------- MODULE MCDataReader ----------------------------
(***************************************************************************)
(* Files for model checking DataReader: two labels and two values, given   *)
(* as model values in DataReader.cfg.                                      *)
(***************************************************************************)
EXTENDS DataReader

CONSTANTS l1, l2, v1, v2

\* Two good lines that share the value v2.
MCRawGood == << [label |-> l1, feats |-> <<v1, v2>>],
                [label |-> l2, feats |-> <<v2>>] >>

\* A good line, then a trailing blank line: ValueError after l2 and v1
\* were interned.
MCRawBadLine == << [label |-> l2, feats |-> <<v1>>], BadLine >>

\* A feature without '=' after a good one: ValueError half-way through
\* the first line.
MCRawBadFeat == << [label |-> l1, feats |-> <<v2, BadFeat>>] >>

MCRawFiles == {MCRawGood, MCRawBadLine, MCRawBadFeat}

\* An id file with a blank feature, and one with a trailing blank line.
MCIdFiles == { << [label |-> 3, feats |-> <<1, Blank, 2>>] >>,
               << [label |-> 1, feats |-> <<4>>], BadLine >> }

MCLabels == {l1, l2}
MCValues == {v1, v2}

MCMaxCalls == 3
=============================================================================
