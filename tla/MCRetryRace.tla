------------------------------ MODULE MCRetryRace ------------------------------
(* One upload of a document of one page, and two requests to retry it, which *)
(* the frontend allows while the row is failed.                              *)
EXTENDS FileIngestion

CONSTANTS u1, t1, t2, d

MCUploads == {u1}
MCRetries == {t1, t2}
MCDocs == {d}
MCDocOf == [w \in MCUploads |-> d]
MCPathOf == [w \in MCUploads |-> "staged.pdf"]
MCServiceOf == [w \in MCUploads \cup MCRetries |-> 1]
MCPagesOf == [x \in MCDocs |-> 1]
MCBlankPages == [x \in MCDocs |-> {1}]
MCRows == {1}
MCFailed == {"failed"}
=============================================================================
