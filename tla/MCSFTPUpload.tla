----------------------------- MODULE MCSFTPUpload -----------------------------
(* SFTPUpload for TLC: uploads that race for the same target name.         *)
EXTENDS SFTPUpload

CONSTANTS u1, u2

MCPuts == {u1, u2}
===============================================================================
