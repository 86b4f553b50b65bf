--------------------------------- MODULE Keys ---------------------------------
(***************************************************************************)
(* The management API's keys, one per label: verified before a request runs, *)
(* rotated by requests that may overlap, told once in an answer that may not *)
(* arrive, and forgotten by a server that restarts.  Only Primary depends on *)
(* the order of the entries, and it changes nothing: they are a set.         *)
(***************************************************************************)
EXTENDS Integers

CONSTANTS
  Operators,  \* people and scripts that hold keys
  KeyLabels,
  Default,    \* the label of the key the server starts with
  MaxKeys     \* bound: keys ever made

\* The server's first key is somebody's.
ASSUME KeyBounds == Default \in KeyLabels /\ MaxKeys \in Nat \ {0} /\ Operators # {}

VARIABLES
  entries, \* KeyStore: each label with its key
  rotation, \* of each operator's request: where it is, its label and the new key
  known,   \* keys each operator was told
  issued   \* keys made so far, those rotated away since the start, those no answer told

keyVars == <<entries, rotation, known, issued>>

FirstEntries == {[label |-> Default, key |-> 1]}
LiveKeys == {e.key : e \in entries}
RotationStep(o, from, state) == rotation[o].at = from /\ rotation' = [rotation EXCEPT ![o] = state]
IdleRequest == [at |-> "idle", label |-> Default, key |-> 0]

\* requireAPIKey: what it lets pass runs, whatever becomes of its key.
Verify(o) ==
  /\ known[o] \cap LiveKeys # {}
  /\ \E label \in KeyLabels : RotationStep(o, "idle", [at |-> "passed", label |-> label, key |-> 0])
  /\ UNCHANGED <<entries, known, issued>>

Others(label) == {e \in entries : e.label # label}
Away(label) == {e.key : e \in {x \in entries : x.label = label}}

\* Mutant of Rotate: the old key stays.
RotateBeside(o) ==
  LET label == rotation[o].label
      key == issued.made + 1
  IN /\ issued.made < MaxKeys
     /\ RotationStep(o, "passed", [rotation[o] EXCEPT !.at = "answer", !.key = key])
     /\ entries' = entries \cup {[label |-> label, key |-> key]}
     /\ issued' = [issued EXCEPT !.made = key, !.away = @ \cup Away(label)]
     /\ UNCHANGED known

Rotate(o) ==
  LET label == rotation[o].label
      key == issued.made + 1
  IN /\ issued.made < MaxKeys
     /\ RotationStep(o, "passed", [rotation[o] EXCEPT !.at = "answer", !.key = key])
     /\ entries' = Others(label) \cup {[label |-> label, key |-> key]}
     /\ issued' = [issued EXCEPT !.made = key, !.away = @ \cup Away(label)]
     /\ UNCHANGED known

TellKey(o) ==
  /\ RotationStep(o, "answer", IdleRequest)
  /\ known' = [known EXCEPT ![o] = @ \cup {rotation[o].key}]
  /\ UNCHANGED <<entries, issued>>

LoseKey(o) ==
  /\ RotationStep(o, "answer", IdleRequest)
  /\ issued' = [issued EXCEPT !.untold = @ \cup {rotation[o].key}]
  /\ UNCHANGED <<entries, known>>

\* The key of the environment counts again, also when it was rotated away.
RestartServer ==
  /\ entries' = FirstEntries
  /\ rotation' = [o \in Operators |-> IdleRequest]
  /\ issued' = [issued EXCEPT !.away = {}]
  /\ UNCHANGED known

KeysInit ==
  /\ entries = FirstEntries
  /\ rotation = [o \in Operators |-> IdleRequest]
  /\ known = [o \in Operators |-> {1}]
  /\ issued = [made |-> 1, away |-> {}, untold |-> {}]

KeysNext ==
  \/ \E o \in Operators : Verify(o) \/ Rotate(o) \/ TellKey(o) \/ LoseKey(o)
  \/ RestartServer

-----------------------------------------------------------------------------
(* Properties *)

KeysTypeOK ==
  /\ entries \subseteq [label : KeyLabels, key : 1 .. MaxKeys]
  /\ rotation \in [Operators -> [at : {"idle", "passed", "answer"}, label : KeyLabels,
                                 key : 0 .. MaxKeys]]
  /\ known \in [Operators -> SUBSET (1 .. MaxKeys)]
  /\ issued \in [made : 1 .. MaxKeys, away : SUBSET (1 .. MaxKeys), untold : SUBSET (1 .. MaxKeys)]

\* Requests that one key let pass rotate the same label one after another, answers are
\* lost, the server restarts.  A label has one key and until a restart a key that was
\* rotated away opens nothing; a live key is unknown to everybody only if the answer
\* that told it was lost, so that nobody is locked out otherwise.
OneKeyPerLabel ==
  /\ \A e, f \in entries : e.label = f.label => e = f
  /\ LiveKeys \cap issued.away = {}
  /\ \A k \in LiveKeys : \/ \E o \in Operators : k \in known[o] \/ k = rotation[o].key
                         \/ k \in issued.untold
=============================================================================
