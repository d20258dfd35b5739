---------------------------- MODULE PanelThreads ----------------------------
(***************************************************************************)
(* The threads and tasks a part of the panel has under way are a sequence  *)
(* in the order they were started.  One that ends leaves it.               *)
(*                                                                         *)
(* These are operators of SequencesExt, and alone here because             *)
(* MCPanelParts instances each part: all that a part extends is then in    *)
(* front of the provers once per part, in every step of a proof.           *)
(***************************************************************************)
EXTENDS Integers, Sequences

RemoveAt(threads, n) == SubSeq(threads, 1, n - 1) \o SubSeq(threads, n + 1, Len(threads))

Last(seq) == seq[Len(seq)]
=============================================================================
