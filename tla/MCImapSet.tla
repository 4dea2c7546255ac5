------------------------------ MODULE MCImapSet ------------------------------
(* Instantiation of ImapSet for TLC.                                        *)
EXTENDS ImapSet

\* Positive ids (id 0 is the reserved "undefined" sentinel of spec 4.1).
MCIds == 1..4

\* An int wide enough for every model id: narrowing is the identity, as it
\* is in the code for every id below 2^31.
MCWideInt == 8

\* An int of 3 bits holds -4..3: id 4 stands for the first qint64 id that
\* does not fit a 32-bit int (2^31).
MCNarrowInt == 3

MCIdsNarrow == 1..5
=============================================================================
