------------------------------ MODULE MCCodec ------------------------------
\* Digits of both bases and cases, the prefix, a sign and a letter that is none.
EXTENDS Codec

MCChar == {"0", "1", "9", "f", "F", "x", "-", "g"}
============================================================================
