-------------------------- MODULE MCMemoryChannels --------------------------
(* Instance of MemoryChannels for TLC: all names are interchangeable. *)
EXTENDS MemoryChannels, TLC

Symmetric ==
    Permutations(Client) \cup Permutations(Channel)
        \cup Permutations(Publish \ Corrupt)

=============================================================================
