------------------------------- MODULE MCFiles -------------------------------
(* FSFile with files of a few bytes: letters, separators, two-byte characters *)
EXTENDS FSFile

CONSTANTS x, lf, cr, nul, lead, cont

\* One-byte separators, of which one is an ordinary letter
MCBytes == {<<lf>>, <<x>>}
MCCarriageReturnNewline == {<<cr, lf>>}
MCWords == {<<x>>}
MCNoWords == {}
=============================================================================
