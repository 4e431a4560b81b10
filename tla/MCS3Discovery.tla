--------------------------- MODULE MCS3Discovery ---------------------------
(* Three applications, of which a page of the list has two; one of them is   *)
(* edited, and another does not decode.                                     *)
EXTENDS S3Discovery

MCKeys == <<"discovery/a.json", "discovery/b.json", "discovery/c.json">>

MCContents == <<{"a1", "a2"}, {"b1"}, {"broken"}>>
=============================================================================
