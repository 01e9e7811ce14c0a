-------------------------- MODULE MCPathValidator --------------------------
EXTENDS PathValidator

\* Segments: the separators' empty segment, ".", "..", the allow-listed
\* directories, a forbidden directory, a file name, and a file name that
\* contains ".." without being a parent reference.
MCTokens == {"", ".", "..", "tmp", "var", "etc", "x", "a..b"}
MCDotDot == {"..", "a..b"}
=============================================================================
