------------------------------ MODULE MCProxy -------------------------------
\* Requests for the model checker: a file of its own, one that begins its
\* archive, and one in the middle of it; one or two blocks, with the checksums of
\* the format ("whole") and with those of all but the last byte, which the
\* decoder accepts.
EXTENDS Proxy

MCFile(start, size, archive, at, modes, checksums) ==
    [start |-> start, size |-> size, archive |-> archive, at |-> at, modes |-> modes,
     checksums |-> checksums]

MCFiles == {MCFile(0, 0, 7, <<4, 7>>, <<"N">>, "whole"),
            MCFile(0, 9, 10, <<5, 7, 9>>, <<"Z", "N">>, "whole"),
            MCFile(0, 0, 9, <<5, 7, 9>>, <<"Z", "?">>, "short"),
            MCFile(10, 1, 11, <<5, 8, 10>>, <<"F", "N">>, "short")}

GenuineFiles == {f \in MCFiles : f.checksums = "whole"}
=============================================================================
