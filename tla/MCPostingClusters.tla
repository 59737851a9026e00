------------------------- MODULE MCPostingClusters -------------------------
(***************************************************************************)
(* Instances of PostingClusters.                                           *)
(***************************************************************************)
EXTENDS PostingClusters

L(id, ats, title) == [id |-> id, ats |-> ats, title |-> title]

A1 == L("a1", None, "Analyst")

A2 == L("a2", None, "Analyst")

A1Renamed == L("a1", None, "Data Analyst")

J == L("j", "r1", "Analyst")

JRenamed == L("j", "r1", "Data Analyst")

W1 == L("w1", None, "Nurse")

W2 == L("w2", None, "Nurse")

W3 == L("w3", None, "Nurse")

\* Listings that come to share a title or stop to, one of them with the
\* employer's link; a board with a new requisition and two that were in one
\* cluster, the first at two locations, and a board with the second alone.
MCBatches == {<<A1, J>>, <<JRenamed>>, <<A2, A1Renamed>>, <<W1, W1, W2, W3>>, <<W2>>}

MCLegacyKey == <<"fuzzy", "Nurse">>

=============================================================================
