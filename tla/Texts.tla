------------------------------- MODULE Texts -------------------------------
(***************************************************************************)
(* Texts as sequences, whatever stands for a piece of text in them.        *)
(***************************************************************************)
EXTENDS Integers, Sequences, SequencesExt

(* A text without some of its tokens.                                      *)
Without(text, dropped) ==
    FlattenSeq([i \in DOMAIN text |->
                   IF text[i] \in dropped THEN <<>> ELSE <<text[i]>>])
=============================================================================
