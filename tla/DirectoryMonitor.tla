-------------------------- MODULE DirectoryMonitor --------------------------
(***************************************************************************)
(* A watched directory and the detached worker of DirectoryChangeMonitor   *)
(* (src/src/ui/directory_change_monitor.cpp) that watches it.              *)
(*                                                                         *)
(* The system records changes in `recorded' from the first Arm of the      *)
(* directory handle until the handle is closed.  The worker takes the      *)
(* records as one batch, posts one message per record to the window and    *)
(* arms the handle again; a batch that does not fit, or a handle that      *)
(* cannot be armed, becomes one request to scan the directory.  Stop       *)
(* revokes the receiver, so a stopped worker posts nothing more, and       *)
(* messages already posted carry the generation they were posted under.    *)
(***************************************************************************)
EXTENDS Naturals, Sequences, SequencesExt, FiniteSets

CONSTANTS
    Files,       \* the media files the directory may hold
    MaxChanges,  \* bound on the changes made to the directory
    Environments \* the sets of Hazards a behaviour may be exposed to

\* create: files appear; modify: files are written to; recreate: a name comes
\* back; overflow: a batch does not fit or the handle cannot be armed again,
\* once; handoff, partial: the complete, the partial result of a scan cannot be
\* posted; throw: a scan fails; cancel: a scan of the directory is given up;
\* drop: a notification cannot be posted; unread: a file that is there cannot be
\* read, or a listing is incomplete; unloaded, unsaved: Music.library cannot be
\* loaded, or written.
Hazards == {"create", "modify", "recreate", "overflow", "handoff", "partial",
            "throw", "cancel", "drop", "unread", "unloaded", "unsaved"}

ASSUME MonitorAssumption ==
    /\ MaxChanges \in Nat
    /\ Environments \subseteq SUBSET Hazards

VARIABLES
    env,        \* the hazards of this behaviour, chosen at the start
    present,    \* the files in the directory
    content,    \* version of the tags last written to a file, 0 if never
    changes,    \* number of changes made so far
    watch,      \* worker: "closed", "announce", "waiting" or "rearm"
    monitoring, \* DirectoryChangeMonitor::control_ is set
    generation, \* Control::generation of the last Start
    recorded,   \* the system's buffer behind the directory handle
    messages    \* the message queue of the window

diskVars == <<present, content, changes>>
watchVars == <<watch, monitoring, generation>>
monitorVars == <<env, diskVars, watchVars, recorded, messages>>

Change(action, f) == [kind |-> "change", action |-> action, file |-> f,
                      generation |-> generation]
Rescan == [kind |-> "change", action |-> "rescan", generation |-> generation]

\* An existing file has been written twice, so that the library may have read
\* it before or after the last time.
MonitorInit ==
    /\ env \in Environments
    /\ content \in [Files -> {0, 2}]
    /\ present \in SUBSET {f \in Files : content[f] # 0}
    /\ changes = 0
    /\ watch = "closed"
    /\ monitoring = TRUE
    /\ generation = 1
    /\ recorded = <<>>
    /\ messages = <<>>

-----------------------------------------------------------------------------
(* The directory.                                                          *)

Written(f, action) ==
    /\ changes < MaxChanges
    /\ changes' = changes + 1
    /\ recorded' = IF watch = "closed" THEN recorded
                   ELSE Append(recorded, <<action, f>>)
    /\ UNCHANGED <<env, watchVars, messages>>

CreateFile(f) ==
    /\ f \notin present
    /\ IF content[f] = 0 THEN "create" \in env ELSE "recreate" \in env
    /\ present' = present \cup {f}
    /\ content' = [content EXCEPT ![f] = @ + 1]
    /\ Written(f, "added")

ModifyFile(f) ==
    /\ f \in present
    /\ "modify" \in env
    /\ content' = [content EXCEPT ![f] = @ + 1]
    /\ UNCHANGED present
    /\ Written(f, "modified")

RemoveFile(f) ==
    /\ f \in present
    /\ present' = present \ {f}
    /\ UNCHANGED content
    /\ Written(f, "removed")

-----------------------------------------------------------------------------
(* The worker.                                                             *)

\* A notification there is no memory or no room in the queue for is dropped.
Notify(m) ==
    \/ messages' = Append(messages, m)
    \/ "drop" \in env /\ UNCHANGED messages

\* The handle is opened and armed before the scan is asked for: what the scan
\* misses is recorded.
OpenWatch ==
    /\ monitoring
    /\ watch = "closed"
    /\ watch' = "announce"
    /\ UNCHANGED <<env, diskVars, monitoring, generation, recorded, messages>>

AnnounceScan ==
    /\ watch = "announce"
    /\ watch' = "waiting"
    /\ Notify(Rescan)
    /\ UNCHANGED <<env, diskVars, monitoring, generation, recorded>>

\* One completed read: every record of the batch is posted, but for those that
\* DropRecord took out.
ReadBatch ==
    /\ watch = "waiting"
    /\ recorded # <<>>
    /\ watch' = "rearm"
    /\ messages' = messages \o
           [i \in DOMAIN recorded |-> Change(recorded[i][1], recorded[i][2])]
    /\ recorded' = <<>>
    /\ UNCHANGED <<env, diskVars, monitoring, generation>>

\* A record of the batch whose notification is dropped.
DropRecord ==
    /\ watch = "waiting"
    /\ "drop" \in env
    /\ \E i \in DOMAIN recorded : recorded' = RemoveAt(recorded, i)
    /\ UNCHANGED <<env, diskVars, watchVars, messages>>

\* The batch was larger than the buffer: its records are gone.
ReadOverflow ==
    /\ watch = "waiting"
    /\ "overflow" \in env
    /\ recorded # <<>>
    /\ env' = env \ {"overflow"}
    /\ watch' = "rearm"
    /\ Notify(Rescan)
    /\ recorded' = <<>>
    /\ UNCHANGED <<diskVars, monitoring, generation>>

Rearm ==
    /\ watch = "rearm"
    /\ watch' = "waiting"
    /\ UNCHANGED <<env, diskVars, monitoring, generation, recorded, messages>>

\* The handle is closed, what it had recorded since the read is lost, and the
\* directory is opened again by the retry.
RearmFails ==
    /\ watch = "rearm"
    /\ "overflow" \in env
    /\ env' = env \ {"overflow"}
    /\ watch' = "closed"
    /\ recorded' = <<>>
    /\ Notify(Rescan)
    /\ UNCHANGED <<diskVars, monitoring, generation>>

WatchStep ==
    \/ OpenWatch \/ AnnounceScan \/ ReadBatch \/ DropRecord \/ ReadOverflow
    \/ Rearm \/ RearmFails

-----------------------------------------------------------------------------
(* What the window calls.                                                  *)

StartMonitor ==
    /\ watch' = "closed"
    /\ monitoring' = TRUE
    /\ generation' = generation + 1
    /\ recorded' = <<>>

StopMonitor ==
    /\ watch' = "closed"
    /\ monitoring' = FALSE
    /\ recorded' = <<>>
    /\ UNCHANGED generation

Accept(message) == monitoring /\ message.generation = generation
=============================================================================
