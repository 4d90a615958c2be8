-------------------------- MODULE MCBuilderImage --------------------------
(* Instances of BuilderImage for TLC. *)
EXTENDS BuilderImage

(* A name alone, with a tag that is not the default, with two tags, and the    *)
(* same in either namespace.                                                   *)
OtherTag == CHOOSE t \in Tags : t # Latest

MCTyped ==
  [ns : {None}, tags : {<<>>, <<OtherTag>>, <<OtherTag, Latest>>}]
    \cup [ns : Namespaces, tags : {<<OtherTag>>}]

=============================================================================
