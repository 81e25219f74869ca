--------------------------- MODULE MCOssDispatch ---------------------------
(***************************************************************************)
(* OssDispatch on small instances. The run checks a liveness property, so  *)
(* no symmetry is declared.                                                *)
(***************************************************************************)
EXTENDS OssDispatch
=============================================================================
