-------------------------- MODULE MCCreatePipeline --------------------------
(***************************************************************************)
(* Small archives for the creation pipeline.                              *)
(***************************************************************************)
EXTENDS CreatePipeline

Block(how, files) == [how |-> how, files |-> files]

\* Directories have a solid block of their own, and it comes first; then blocks of every
\* other kind.  The files of the second block may take more buffers than the cache has, while
\* the packer can still give some back.
AllKinds == <<Block("dirs", 1), Block("disk", 2), Block("copy", 2), Block("fake", 1),
              Block("archive", 1)>>

\* The fewest blocks with which the reader and the packer can get stuck.
ThreeSolid == <<Block("dirs", 1), Block("disk", 1), Block("disk", 1)>>
=============================================================================
