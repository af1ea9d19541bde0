---------------------------- MODULE MCDlWrapper ----------------------------
(* Instances of DlWrapper: what the hash files say of the file.            *)
EXTENDS DlWrapper

CONSTANTS b1, b2, b3

\* Two hashes of the right content, one and another of a type that is unknown, and no
\* line that names the file.
SomeHashes == [b \in Builder |-> CASE b = b1 -> <<"good", "good">>
                                   [] b = b2 -> <<"good", Unknown>>
                                   [] b = b3 -> <<>>]
NoLines == [b \in Builder |-> <<>>]

=============================================================================
