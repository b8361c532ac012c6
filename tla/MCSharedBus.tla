----------------------------- MODULE MCSharedBus -----------------------------
(***************************************************************************)
(* Instances of SharedBus: eight cells with different contents, and the    *)
(* addresses at the edges.                                                 *)
(***************************************************************************)
EXTENDS SharedBus

\* A cell, the last one, and an address beyond maxAddress.
EdgeAddresses == {<<0, 1>>, <<1, 3>>, <<2, 1>>}

\* Neighbours differ; a second byte written finds its value there already.
Rows == << <<3, 1, 3, 0>>, <<1, 0, 2, 2>> >>

SampleMemory == [c \in Cells |-> Rows[c[1] + 1][c[2] + 1]]

=============================================================================
