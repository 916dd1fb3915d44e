------------------------------ MODULE MCSyncLoop ------------------------------
(***************************************************************************)
(* Instances of SyncLoop for TLC.  With as many goroutine identities as    *)
(* keys the pool never runs out, because no key has two goroutines.        *)
(***************************************************************************)
EXTENDS SyncLoop, TLC

\* Keys, workers and goroutines are interchangeable in the safety properties.
Symmetry == Permutations(Keys) \cup Permutations(Workers) \cup Permutations(Goroutines)
=============================================================================
