--------------------------- MODULE MCHTTPConnection ---------------------------
(* Instances of HTTPConnection.                                             *)
EXTENDS HTTPConnection, TLC
=============================================================================
