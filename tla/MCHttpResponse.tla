--------------------------- MODULE MCHttpResponse ---------------------------
(***************************************************************************)
(* HttpResponse for TLC.  A status line with one header and the framing    *)
(* fills most of a response buffer; a long header does not fit any more.   *)
(***************************************************************************)
EXTENDS HttpResponse

MCHeaders == {"short", "long"}

MCWidth == [name \in Names |->
    CASE name = "line" -> 3 [] name \in {"crlf", "size", "last"} -> 2
      [] name = "long" -> 6 [] OTHER -> 1]
=============================================================================
