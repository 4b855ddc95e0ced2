--------------------------- MODULE MCAddPostForm ----------------------------
(* Small instances of AddPostForm for TLC. *)
EXTENDS AddPostForm

CONSTANTS ann, bob, essay, study, library, sunset, dawn
=============================================================================
