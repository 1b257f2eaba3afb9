----------------------------- MODULE MCShutdown -----------------------------
(* Instance of Shutdown for TLC: interchangeable requests and signals. *)
EXTENDS Shutdown, TLC

CONSTANTS db, orders, mailer

Singletons == {db, orders, mailer}
BootOrder == <<db>>

Symmetric == Permutations(Request) \cup Permutations(Signal)

=============================================================================
