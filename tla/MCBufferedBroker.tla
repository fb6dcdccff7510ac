-------------------------- MODULE MCBufferedBroker --------------------------
(* BufferedBroker on small sets of topics, messages, handlers and ids.     *)
EXTENDS BufferedBroker, TLC

(* Handlers and messages are addresses: no action tells two of them apart. *)
(* Used for invariants and action properties only.                         *)
Addresses == Permutations(Handler) \cup Permutations(Msg)
=============================================================================
