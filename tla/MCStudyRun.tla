----------------------------- MODULE MCStudyRun -----------------------------
(* Small instances of StudyRun.                                              *)
EXTENDS StudyRun

AllPrograms == {"week05", "week06", "week07", "week08", "week13", "deep"}
=============================================================================
