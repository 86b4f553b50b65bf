--------------------------------- MODULE Wrap ---------------------------------
(***************************************************************************)
(* Config files a guard rewrites for its lifetime: wrap the editor's         *)
(* mcp.json, init the hooks in settings.json; init --uninstall cleans the    *)
(* latter.  Each remembers what it read and writes it back on Ctrl-C.        *)
(*                                                                          *)
(*   off -> reading -> seen -> writing -> patched -> armed -> serving        *)
(*                                  (Ctrl-C: armed, serving -> restoring -> dead) *)
(*                                                                          *)
(* A write truncates first.  Until signals are caught Ctrl-C kills; every    *)
(* log.Fatal does at any time, and the deferred restore of main never runs:  *)
(* the server does not return.  Nothing locks a file.                        *)
(***************************************************************************)
EXTENDS Integers

CONSTANTS
  Lives,   \* processes that may be started
  Ports,   \* PERCHGUARD_ADDR of each
  MaxEdits \* bound: edits of the user's to a file

ASSUME WrapBounds == MaxEdits \in Nat /\ 0 \notin Ports

Files == {"mcp.json", "settings.json"}
Modes == {"wrap", "init", "uninstall"}
FileOf(mode) == IF mode = "wrap" THEN "mcp.json" ELSE "settings.json"

VARIABLES
  file,    \* its form, the user's last edit in it, whose servers or hooks: the user's
           \* "own", "guarded" ones, or those of a guard round a guard: "lost"
  edits,   \* of each file: edits the user made
  life,    \* of each process: where it is, its mode and port, what it read at first
           \* and what it rewrites
  trouble  \* of each file: what happened to it that nobody provides for

wrapVars == <<file, edits, life, trouble>>

Absent == [form |-> "absent", edit |-> 0, way |-> "own", port |-> 0]
Torn == [form |-> "torn", edit |-> 0, way |-> "own", port |-> 0]

\* A process that has a file in hand: uninstall lets go when it has written.
InHand(l) ==
  /\ life[l].at \notin {"off", "dead"}
  /\ life[l].mode = "uninstall" => life[l].at \notin {"patched", "armed", "serving"}
Holders(f) == {l \in Lives : InHand(l) /\ FileOf(life[l].mode) = f}

LifeStep(l, from, state) == life[l].at \in from /\ life' = [life EXCEPT ![l] = state]
Moves(l, to) == [life[l] EXCEPT !.at = to]
Blame(f, what) == trouble' = [trouble EXCEPT ![f] = @ \cup {what}]
Put(f, content) == file' = [file EXCEPT ![f] = content]

-----------------------------------------------------------------------------
(* Starting *)

\* setupWrap finds no file: it leaves a template and gives up.
Scaffold(l) ==
  /\ file["mcp.json"].form = "absent"
  /\ LifeStep(l, {"off"}, [life[l] EXCEPT !.at = "dead"])
  /\ Put("mcp.json", [Absent EXCEPT !.form = "whole"])
  /\ UNCHANGED <<edits, trouble>>

\* setupWrap or runInit reads the file.  What it cannot parse ends a wrap; to uninstall
\* there is nothing then, nor where there is no file.
Read(l) ==
  \E mode \in Modes, port \in Ports :
    LET f == FileOf(mode)
        now == file[f]
        gone == now.form # "whole" /\ mode # "init"
        next == CASE gone /\ mode = "wrap" -> "dead"
                  [] gone /\ mode = "uninstall" -> "patched"
                  [] mode = "init" -> "reading"
                  [] OTHER -> "seen"
    IN /\ ~(mode = "wrap" /\ now.form = "absent")
       /\ LifeStep(l, {"off"}, [at |-> next, mode |-> mode, port |-> port, raw |-> now, seen |-> now])
       /\ IF Holders(f) # {} /\ ~gone THEN Blame(f, "overlap") ELSE UNCHANGED trouble
       /\ UNCHANGED <<file, edits>>

\* registerClaudeHook reads it once more; what does not parse it leaves alone.
ReadAgain(l) ==
  LET now == file["settings.json"] IN
  /\ LifeStep(l, {"reading"}, [life[l] EXCEPT !.at = IF now.form = "torn" THEN "patched" ELSE "seen",
                                          !.seen = now])
  /\ UNCHANGED <<file, edits, trouble>>

\* Servers are led through this guard: of one that goes through a guard already, its own
\* URL or command is overwritten.
Routed(content, port) ==
  [content EXCEPT !.way = IF @ = "own" THEN "guarded" ELSE "lost", !.port = port]

\* injectOrReplace: hooks of a guard's are replaced, the others kept.
Hooks(content) == [content EXCEPT !.form = "whole", !.way = "guarded"]

\* runUninstall
Unhooked(content) == [content EXCEPT !.way = "own"]

Patched(l) ==
  LET s == life[l] IN
  CASE s.mode = "wrap" -> Routed(s.seen, s.port)
    [] s.mode = "init" -> Hooks(s.seen)
    [] s.mode = "uninstall" -> Unhooked(s.seen)

Truncate(l) ==
  /\ LifeStep(l, {"seen"}, Moves(l, "writing"))
  /\ Put(FileOf(life[l].mode), Torn)
  /\ UNCHANGED <<edits, trouble>>

WritePatched(l) ==
  /\ LifeStep(l, {"writing"}, Moves(l, "patched"))
  /\ Put(FileOf(life[l].mode), Patched(l))
  /\ UNCHANGED <<edits, trouble>>

\* signal.Notify; there is none after uninstall, which goes on to serve as init does.
CatchSignals(l) ==
  /\ LifeStep(l, {"patched"}, Moves(l, "armed"))
  /\ UNCHANGED <<file, edits, trouble>>

\* Policy, pipeline, key and ListenAndServe.
Listen(l) ==
  /\ \A k \in Lives : life[k].at = "serving" => life[k].port # life[l].port
  /\ LifeStep(l, {"armed"}, Moves(l, "serving"))
  /\ UNCHANGED <<file, edits, trouble>>

-----------------------------------------------------------------------------
(* Ending *)

\* log.Fatal, SIGKILL, or a signal that is not caught: what is patched stays.
Fatal(l) ==
  LET s == life[l] IN
  /\ LifeStep(l, {"reading", "seen", "writing", "patched", "armed", "serving", "restoring"},
          Moves(l, "dead"))
  /\ IF InHand(l) /\ s.at \notin {"reading", "seen"} THEN Blame(FileOf(s.mode), "killed")
     ELSE UNCHANGED trouble
  /\ UNCHANGED <<file, edits>>

\* Mutant of Restore: the patched file again.
RestorePatched(l) ==
  /\ LifeStep(l, {"restoring"}, Moves(l, "dead"))
  /\ Put(FileOf(life[l].mode), Patched(l))
  /\ UNCHANGED <<edits, trouble>>

\* os.WriteFile(configPath, raw), and exit.
Restore(l) ==
  /\ LifeStep(l, {"restoring"}, Moves(l, "dead"))
  /\ Put(FileOf(life[l].mode), life[l].raw)
  /\ UNCHANGED <<edits, trouble>>

\* Ctrl-C.  init has nothing to write back where there was no file: the hooks stay.
Interrupt(l) ==
  LET s == life[l]
      f == FileOf(s.mode)
  IN /\ s.at \in {"armed", "serving"}
     /\ IF s.mode # "uninstall" /\ s.raw.form # "absent"
        THEN /\ LifeStep(l, {"armed", "serving"}, Moves(l, "restoring"))
             /\ Put(f, Torn)
             /\ UNCHANGED trouble
        ELSE /\ LifeStep(l, {"armed", "serving"}, Moves(l, "dead"))
             /\ IF s.mode = "init" THEN Blame(f, "was absent") ELSE UNCHANGED trouble
             /\ UNCHANGED file
     /\ UNCHANGED edits

\* A person or an editor changes something else in the file.
Edit(f) ==
  /\ file[f].form = "whole" /\ edits[f] < MaxEdits
  /\ edits' = [edits EXCEPT ![f] = @ + 1]
  /\ Put(f, [file[f] EXCEPT !.edit = edits[f] + 1])
  /\ IF Holders(f) # {} THEN Blame(f, "edited") ELSE UNCHANGED trouble
  /\ UNCHANGED life

WrapIdle ==
  /\ life = [l \in Lives |-> [at |-> "off", mode |-> "wrap", port |-> 0, raw |-> Absent,
                              seen |-> Absent]]
  /\ edits = [f \in Files |-> 0]
  /\ trouble = [f \in Files |-> {}]

WrapRest == WrapIdle /\ file = [f \in Files |-> Absent]

WrapInit == WrapIdle /\ file \in [Files -> {Absent, [Absent EXCEPT !.form = "whole"]}]

WrapNext ==
  \/ \E l \in Lives :
       \/ Scaffold(l) \/ Read(l) \/ ReadAgain(l) \/ Truncate(l) \/ WritePatched(l)
       \/ CatchSignals(l) \/ Listen(l) \/ Fatal(l) \/ Interrupt(l) \/ Restore(l)
  \/ \E f \in Files : Edit(f)

-----------------------------------------------------------------------------
(* Properties *)

Contents ==
  [form : {"absent", "whole", "torn"}, edit : 0 .. MaxEdits, way : {"own", "guarded", "lost"},
   port : Ports \cup {0}]

WrapTypeOK ==
  /\ file \in [Files -> Contents]
  /\ edits \in [Files -> 0 .. MaxEdits]
  /\ life \in [Lives -> [at : {"off", "reading", "seen", "writing", "patched", "armed",
                                "serving", "restoring", "dead"},
                         mode : Modes, port : Ports \cup {0}, raw : Contents, seen : Contents]]
  /\ trouble \in [Files -> SUBSET {"overlap", "killed", "was absent", "edited"}]

\* Guards come and go, one after another and on both files at once.  Unless one was
\* killed with the file in hand, two had it, the user edited it meanwhile or there was
\* none, the user has the file back, his last edit in it, whenever no guard has it - and
\* while one serves everything in it leads through that guard.
FilesAreGivenBack ==
  \A f \in Files : trouble[f] = {} =>
    /\ Holders(f) = {} =>
         /\ file[f].form # "torn" /\ file[f].way = "own"
         /\ file[f].edit = edits[f]
    /\ \A l \in Holders(f) : life[l].at \in {"armed", "serving"} =>
         /\ file[f].way = "guarded"
         /\ life[l].mode = "wrap" => file[f].port = life[l].port
=============================================================================
