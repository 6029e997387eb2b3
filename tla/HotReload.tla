------------------------------ MODULE HotReload ------------------------------
(***************************************************************************)
(* HotReloadConfig of pkg/config/hotreload.go and the callbacks that       *)
(* ConfigManager registers with it. fsnotify and viper are external: a     *)
(* write to a watched file leaves an event, which merges with one that is  *)
(* still unread, and a file replaced by renaming is no longer watched;     *)
(* ReadInConfig replaces all values at once, or none if the file does not  *)
(* parse. A program registers its callbacks first and reads the values it  *)
(* cares for afterwards.                                                   *)
(***************************************************************************)
EXTENDS Integers, FiniteSets

CONSTANTS
  Key,        \* keys of the configuration file
  Value,      \* their values
  Absent,     \* the value of a key that the file does not have
  Bad,        \* the contents of a file that does not parse
  MaxWrites   \* bound: writes to the file

Contents == [Key -> Value \cup {Absent}]

VARIABLES
  file,        \* contents of the file, or Bad
  writes,      \* writes so far
  config,      \* what viper holds
  watched,     \* the watcher sees writes to the file
  event,       \* an event is waiting
  missed,      \* history: the file was written since config was read, unwatched
  loader,      \* LoadConfig: "idle", "read" or "done"
  watcher,     \* its goroutine: "none", "waiting", "backed up", "loaded", "calling", "ended"
  backup,      \* oldConfig
  changed,     \* keys whose callbacks have still to be called; mu is held meanwhile
  registered,  \* keys with a callback of their own
  sections,    \* ConfigManager has registered its callbacks
  told,        \* Key -> value the program knows
  stopped      \* stopChan is closed

vars == <<file, writes, config, watched, event, missed, loader, watcher, backup,
          changed, registered, sections, told, stopped>>
fileVars == <<file, writes, watched, event, missed>>
programVars == <<registered, sections, told>>

\* mu is free; callbacks are called with mu held for writing.
Free == watcher # "calling"

TypeOK ==
  /\ file \in Contents \cup {Bad} /\ writes \in 0..MaxWrites
  /\ config \in Contents /\ backup \in Contents
  /\ watched \in BOOLEAN /\ event \in BOOLEAN /\ missed \in BOOLEAN
  /\ loader \in {"idle", "read", "done"}
  /\ watcher \in {"none", "waiting", "backed up", "loaded", "calling", "ended"}
  /\ changed \in SUBSET Key /\ registered \in SUBSET Key
  /\ sections \in BOOLEAN /\ stopped \in BOOLEAN
  /\ told \in Contents

Nothing == [k \in Key |-> Absent]

Init ==
  /\ file \in Contents /\ writes = 0 /\ config = Nothing
  /\ watched = FALSE /\ event = FALSE /\ missed = FALSE
  /\ loader = "idle" /\ watcher = "none" /\ backup = Nothing /\ changed = {}
  /\ registered = {} /\ sections \in BOOLEAN /\ told = Nothing /\ stopped = FALSE

(***************************************************************************)
(* The file                                                                *)
(***************************************************************************)

Written(contents) ==
  /\ writes < MaxWrites
  /\ writes' = writes + 1
  /\ file' = contents

\* The file is overwritten; an editor may leave it incomplete for a moment.
WriteFile(contents) ==
  /\ Written(contents)
  /\ IF watched
     THEN event' = TRUE /\ UNCHANGED missed
     ELSE missed' = TRUE /\ UNCHANGED event
  /\ UNCHANGED <<config, watched, loader, watcher, backup, changed, programVars, stopped>>

\* Another file is renamed to it: no Write event, and no more of them.
ReplaceFile(contents) ==
  /\ Written(contents)
  /\ watched' = FALSE /\ missed' = TRUE
  /\ UNCHANGED <<config, event, loader, watcher, backup, changed, programVars, stopped>>

(***************************************************************************)
(* LoadConfig, RegisterCallback, getters and Stop                          *)
(***************************************************************************)

LoadConfig ==
  /\ loader = "idle" /\ file # Bad
  /\ config' = file /\ missed' = FALSE
  /\ loader' = "read"
  /\ UNCHANGED <<file, writes, watched, event, watcher, backup, changed, programVars, stopped>>

\* It watches the file only after it has read it.
LoadWatches ==
  /\ loader = "read"
  /\ loader' = "done" /\ watched' = TRUE /\ watcher' = "waiting"
  /\ UNCHANGED <<file, writes, config, event, missed, backup, changed, programVars, stopped>>

\* Registering "*" is registering for every key.
RegisterCallback(k) ==
  /\ Free /\ k \notin registered
  /\ registered' = registered \cup {k}
  /\ UNCHANGED <<fileVars, config, loader, watcher, backup, changed, sections, told, stopped>>

\* GetString, GetInt, GetDuration and GetBool: the program reads a value.
Get(k) ==
  /\ Free /\ k \in registered
  /\ told' = [told EXCEPT ![k] = config[k]]
  /\ UNCHANGED <<fileVars, config, loader, watcher, backup, changed, registered,
                 sections, stopped>>

Stop ==
  /\ loader = "done" /\ ~stopped
  /\ stopped' = TRUE /\ watched' = FALSE
  /\ UNCHANGED <<file, writes, config, event, missed, loader, watcher, backup, changed,
                 programVars>>

(***************************************************************************)
(* watchConfigChanges and handleConfigChange                               *)
(***************************************************************************)

\* Mutant: the file is read before the backup is made.
HandleConfigChangeLate ==
  /\ watcher = "waiting" /\ event
  /\ event' = FALSE
  /\ watcher' = "backed up"
  /\ backup' = IF file = Bad THEN config ELSE file
  /\ UNCHANGED <<file, writes, watched, missed, config, loader, changed, programVars, stopped>>

HandleConfigChange ==
  /\ watcher = "waiting" /\ event
  /\ event' = FALSE
  /\ watcher' = "backed up"
  /\ backup' = config
  /\ UNCHANGED <<file, writes, watched, missed, config, loader, changed, programVars, stopped>>

\* ReadInConfig, without the lock; on an error the old values stay.
ReadInConfig ==
  /\ watcher = "backed up"
  /\ IF file = Bad
     THEN watcher' = "waiting" /\ UNCHANGED config
     ELSE watcher' = "loaded" /\ config' = file
  /\ UNCHANGED <<fileVars, loader, backup, changed, programVars, stopped>>

\* With mu held: the keys that the new configuration has with another value.
DetectChanges ==
  /\ watcher = "loaded"
  /\ watcher' = "calling"
  /\ changed' = {k \in Key : config[k] # Absent /\ config[k] # backup[k]}
  /\ UNCHANGED <<fileVars, config, loader, backup, programVars, stopped>>

\* Mutant: "server.*" and "client.*" stand for the keys that begin so.
SectionCallsByPrefix(k) == sections

\* The callbacks of ConfigManager are registered under "server.*" and "client.*",
\* which are compared with the key as they are, and so never called.
SectionCalls(k) == sections /\ k \in {"server.*", "client.*"}

\* The callbacks of a key. One of ConfigManager's would read the configuration
\* through getters, and wait for the lock its caller holds.
CallBack(k) ==
  /\ watcher = "calling" /\ k \in changed
  /\ ~SectionCalls(k)
  /\ changed' = changed \ {k}
  /\ told' = IF k \in registered THEN [told EXCEPT ![k] = config[k]] ELSE told
  /\ UNCHANGED <<fileVars, config, loader, watcher, backup, registered, sections, stopped>>

HandledChange ==
  /\ watcher = "calling" /\ changed = {}
  /\ watcher' = "waiting"
  /\ UNCHANGED <<fileVars, config, loader, backup, changed, programVars, stopped>>

WatcherEnds ==
  /\ watcher = "waiting" /\ stopped
  /\ watcher' = "ended"
  /\ UNCHANGED <<fileVars, config, loader, backup, changed, programVars, stopped>>

WatcherStep ==
  \/ HandleConfigChange \/ ReadInConfig \/ DetectChanges
  \/ \E k \in Key : CallBack(k)
  \/ HandledChange \/ WatcherEnds

Next ==
  \/ \E contents \in Contents \cup {Bad} : WriteFile(contents) \/ ReplaceFile(contents)
  \/ LoadConfig \/ LoadWatches \/ Stop
  \/ \E k \in Key : RegisterCallback(k) \/ Get(k)
  \/ WatcherStep

Spec == Init /\ [][Next]_vars

(***************************************************************************)
(* Properties                                                              *)
(***************************************************************************)

\* When the watcher is at rest, the program knows the current value of every key it
\* has registered for and read once, unless the key was removed from the file.
CallbacksCaughtUp ==
  watcher = "waiting" =>
    \A k \in registered : told[k] \notin {Absent, config[k]} => config[k] = Absent

\* In the end the configuration is what the file says: no write to the watched file
\* is overlooked while an earlier one is handled, and no callback stops the watcher.
ConfigFollowsFile ==
  <>[](loader = "done" /\ ~stopped /\ ~missed /\ file # Bad => config = file)
===============================================================================
