---- MODULE PolicyEngine ----
(***************************************************************************)
(* The Lua policy a generation consults (swamp-engine/src/policy.rs), and  *)
(* the script file its owner may edit while it runs.                       *)
(*                                                                         *)
(* A script is known by what it makes of should_skip_layer, for the one    *)
(* temperature a generation asks with: the set of layers skipped, or no    *)
(* definition at all; and by whether it raises, before any global is       *)
(* assigned or after.  The interpreter is kept across reloads, and with it *)
(* the globals of earlier scripts.                                         *)
(***************************************************************************)
EXTENDS Naturals

CONSTANTS
  Scripts,      \* [defines : a set of layers or Undefined, raises : ...]
  Undefined,
  MaxEdits      \* bound: edits of the file

VARIABLES
  script,        \* what the file holds
  mtime,
  script_path,   \* whether the engine has one
  last_load,     \* the mtime of the last load, last_load_ns
  globals,       \* the global should_skip_layer
  policy_pc,     \* where the engine is in new(), try_reload() and reload()
  text,          \* what reload has read
  loaded,        \* history: the last script that ran to its end
  unseen,        \* history: an edit since then was hidden from the mtime check
  edits

file        == <<script, mtime, edits>>
engine      == <<script_path, last_load, globals, policy_pc, text, loaded>>
policy_vars == <<file, engine, unseen>>

ASSUME PolicyAssumption ==
  /\ \A s \in Scripts : s.raises \in {"never", "first", "last"}
  /\ MaxEdits \in Nat

\* new() with a path goes on with a reload; its globals are empty.
PolicyInit ==
  /\ script \in Scripts
  /\ mtime = 1
  /\ script_path = TRUE
  /\ last_load = 0
  /\ globals = Undefined
  /\ policy_pc = "new_read"
  /\ text = script
  /\ loaded = script
  /\ unseen = FALSE
  /\ edits = 0

PolicyTypeOK ==
  /\ {script, text, loaded} \subseteq Scripts
  /\ mtime \in 1 .. MaxEdits + 1
  /\ script_path \in BOOLEAN
  /\ last_load \in 0 .. MaxEdits + 1
  /\ globals \in {s.defines : s \in Scripts} \cup {Undefined}
  /\ policy_pc \in {"new_read", "new_exec", "new_stamp", "idle", "stat", "read", "exec", "stamp"}
  /\ unseen \in BOOLEAN
  /\ edits \in 0 .. MaxEdits

PolicyIdle == policy_pc = "idle"

\* What should_skip_layer answers true for: no function, or a value that is no
\* function, skips nothing.
skipped == IF globals = Undefined THEN {} ELSE globals

Reloads == mtime > last_load

\* The caller goes on with TryReload; a path of none is left alone.
TryReload == policy_pc' = IF script_path THEN "stat" ELSE "idle"

Stat ==
  /\ policy_pc = "stat"
  /\ policy_pc' = IF Reloads THEN "read" ELSE "idle"
  /\ UNCHANGED <<file, script_path, last_load, globals, text, loaded, unseen>>

Read ==
  /\ policy_pc \in {"new_read", "read"}
  /\ text' = script
  /\ policy_pc' = IF policy_pc = "read" THEN "exec" ELSE "new_exec"
  /\ unseen' = FALSE
  /\ UNCHANGED <<file, script_path, last_load, globals, loaded>>

\* A script that defines nothing takes nothing away.
Assigns(s) == s.defines # Undefined /\ s.raises # "first"

\* Variant: a reload that fails is taken for done.
AfterFailure_Stamped == IF policy_pc = "exec" THEN "stamp" ELSE "idle"

AfterFailure == "idle"

\* In new() a script that raises leaves the engine without a path and with an
\* interpreter of its own; in a reload the error is printed.
Exec ==
  /\ policy_pc \in {"new_exec", "exec"}
  /\ globals' = IF text.raises # "never" /\ policy_pc = "new_exec" THEN Undefined
                ELSE IF Assigns(text) THEN text.defines ELSE globals
  /\ policy_pc' = IF text.raises # "never" THEN AfterFailure
                  ELSE IF policy_pc = "exec" THEN "stamp" ELSE "new_stamp"
  /\ script_path' = (policy_pc = "exec" \/ text.raises = "never")
  /\ loaded' = IF text.raises = "never" THEN text ELSE loaded
  /\ UNCHANGED <<file, last_load, text, unseen>>

\* update_last_load asks for the mtime again, which may be that of a later edit.
Stamp ==
  /\ policy_pc \in {"new_stamp", "stamp"}
  /\ last_load' = mtime
  /\ policy_pc' = "idle"
  /\ UNCHANGED <<file, script_path, globals, text, loaded, unseen>>

\* The owner writes the file, in a later tick of the file system's clock or in
\* the one of the last write.
Edit ==
  /\ edits < MaxEdits
  /\ edits' = edits + 1
  /\ script' \in Scripts
  /\ mtime' \in {mtime, mtime + 1}
  /\ unseen' = (unseen \/ mtime' <= last_load \/ policy_pc \in {"new_exec", "new_stamp", "exec", "stamp"})
  /\ UNCHANGED engine

PolicyStep == Stat \/ Read \/ Exec \/ Stamp

\* "PolicyEngine detecta modificacoes e recarrega automaticamente"
\* (policies/default.lua:2): between looks, an engine that has a path either
\* will see the next look reload the file or has it in force, failed reloads
\* included.  It takes edits the mtime can tell, that is, none between the read
\* and the stamp of a reload, and none in the tick of the last load.
EditsAreNoticed ==
  PolicyIdle /\ script_path /\ ~unseen =>
    \/ mtime > last_load
    \/ /\ script = loaded
       /\ script.defines # Undefined => globals = script.defines
====
