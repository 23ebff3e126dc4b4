--------------------------- MODULE MCOutboxRelay ---------------------------
(* OutboxRelay on a small instance. *)
EXTENDS OutboxRelay, TLC

Symmetric == Permutations(Events) \cup Permutations(Workers)

=============================================================================
