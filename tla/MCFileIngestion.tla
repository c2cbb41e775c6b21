---------------------------- MODULE MCFileIngestion ----------------------------
(* Two jobs submitted for the same PDF on disk, and a retry of the document  *)
(* from a service of its own.                                                *)
EXTENDS FileIngestion, TLC

CONSTANTS u1, u2, t1, d

MCUploads == {u1, u2}
MCRetries == {t1}
MCDocs == {d}
MCDocOf == [w \in MCUploads |-> d]
MCPathOf == [w \in MCUploads |-> "staged.pdf"]
MCServiceOf == [w \in MCUploads \cup MCRetries |-> IF w = t1 THEN 2 ELSE 1]
MCPagesOf == [x \in MCDocs |-> 2]
MCOnePage == [x \in MCDocs |-> 1]
MCBlankPages == [x \in MCDocs |-> {1}]
MCRows == 1..3
MCFourRows == 1..4
MCNoRetries == {}
MCPresent == {"registered", "processing", "completed", "failed"}

UploadSymmetry == Permutations(MCUploads)
=============================================================================
