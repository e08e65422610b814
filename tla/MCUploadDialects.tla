--------------------------- MODULE MCUploadDialects ---------------------------
(* UploadDialects: four dialects that differ in every flag of the wire, and   *)
(* a representation of two bytes, which fits in one request or takes two.    *)
EXTENDS UploadDialects

MCSurfaces ==
    {[maxSize |-> Unset, minSize |-> Unset, maxAppendSize |-> ceiling,
      minAppendSize |-> Unset, maxAge |-> Unset] : ceiling \in {1, Unset}}
===============================================================================
