-------------------------- MODULE MCEntryLifecycle --------------------------
(* EntryLifecycle with what TLC needs beside the constants' values.        *)
EXTENDS EntryLifecycle, TLC

(* Entries and managers are interchangeable; sound for safety only.        *)
Symmetry == Permutations(Entry) \cup Permutations(Manager)
=============================================================================
