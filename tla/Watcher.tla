------------------------------- MODULE Watcher -------------------------------
(***************************************************************************)
(* policy.Watcher: a goroutine that polls the policy file and calls onReload *)
(* when its content changed.  A check hashes the file, and then loads it: by *)
(* then it may be another file.                                             *)
(*                                                                          *)
(* Every edit is new content.  (A file that is put back between the two     *)
(* reads of one check goes unnoticed for good: the README says how.)        *)
(***************************************************************************)
EXTENDS Integers

CONSTANTS
  MaxEdits,  \* bound: times the file is replaced
  Broken     \* versions of the file Load refuses

ASSUME WatcherAssumption == MaxEdits \in Nat /\ Broken \subseteq Nat /\ 0 \notin Broken

Versions == 0 .. MaxEdits
NoCheck == -1

VARIABLES
  file,      \* the version on disk
  lastHash,  \* Watcher.lastHash
  check      \* the hash read by the check under way, or NoCheck

watcherVars == <<file, lastHash, check>>

WatcherInit == file = 0 /\ lastHash = 0 /\ check = NoCheck

\* External: whoever deploys the policy replaces the file.
EditFile ==
  /\ file < MaxEdits
  /\ file' = file + 1
  /\ UNCHANGED <<lastHash, check>>

\* The first read; an unchanged hash ends the check.
BeginCheck ==
  /\ check = NoCheck
  /\ file # lastHash
  /\ check' = file
  /\ UNCHANGED <<file, lastHash>>

\* A file that does not load ends the check with lastHash as it was.
FailCheck ==
  /\ check # NoCheck /\ file \in Broken
  /\ check' = NoCheck
  /\ UNCHANGED <<file, lastHash>>

\* lastHash is set to the hash of the first read, and onReload is called.
Notify ==
  /\ check # NoCheck /\ file \notin Broken
  /\ lastHash' = check
  /\ check' = NoCheck
  /\ UNCHANGED file

WatcherTypeOK ==
  /\ file \in Versions /\ lastHash \in Versions
  /\ check \in Versions \cup {NoCheck}
=============================================================================
