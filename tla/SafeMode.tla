------------------------------ MODULE SafeMode ------------------------------
(***************************************************************************)
(* The durable safety switch, safe_mode.py: one JSON file that processes   *)
(* (the API service and the command line of operators) read, change and    *)
(* replace without a lock.                                                 *)
(*                                                                         *)
(* engage, release and initialise read the file, decide, and write through *)
(* a staging file of one fixed name.  A process may die at every step and  *)
(* the file may be deleted.  The file system is external: an inode keeps   *)
(* its content for whoever has it open, whatever name it has by then.      *)
(***************************************************************************)
EXTENDS FiniteSets

CONSTANTS
  Processes,   \* who runs the service's functions
  Conditions,  \* the triggers somebody engages
  Acks,        \* what operator_ack may be
  Inodes,      \* files on disk
  NoFile       \* a name without a file

Unavailable == "SAFETY_STATE_UNAVAILABLE"
Operator    == "OPERATOR"

ASSUME SafeAssumption ==
  /\ Conditions \subseteq STRING \ {Unavailable}
  /\ Acks \subseteq BOOLEAN
  /\ NoFile \notin Inodes

VARIABLES
  path,      \* the inode of the safety file
  staging,   \* the inode of the staging file
  disk,      \* what inodes contain
  job,       \* what a process is doing
  asked,     \* history: somebody was allowed to leave SAFE_MODE
  mixed      \* history: somebody decided while somebody else had not yet written

vars == <<path, staging, disk, job, asked, mixed>>

Blobs == [state : {"NORMAL", "SAFE_MODE"}, triggers : SUBSET Conditions]
Torn  == [state |-> "torn", triggers |-> {}]   \* nothing, or not all of it, was written yet

Normal   == [state |-> "NORMAL", triggers |-> {}]
NoAnswer == [state |-> "SAFE_MODE", triggers |-> {Unavailable}]

Idle == [step |-> "idle", ack |-> FALSE, blob |-> Torn, fd |-> NoFile]

\* Somebody engaged it before, or there is no file.
Init ==
  /\ path \in Inodes \cup {NoFile}
  /\ staging = NoFile
  /\ \E t \in Conditions : disk = [i \in Inodes |-> [state |-> "SAFE_MODE", triggers |-> {t}]]
  /\ job = [p \in Processes |-> Idle]
  /\ asked = FALSE
  /\ mixed = FALSE

-----------------------------------------------------------------------------
\* Mutant: a file that does not parse says nothing against trading.
Seen_Optimistic ==
  IF path = NoFile THEN NoAnswer
  ELSE IF disk[path] = Torn THEN Normal ELSE disk[path]

\* read: only a file that says NORMAL is NORMAL.
Seen ==
  IF path = NoFile THEN NoAnswer
  ELSE IF disk[path] = Torn THEN NoAnswer ELSE disk[path]

Blocked == Seen.state = "SAFE_MODE"

\* Mutant: a new trigger takes the place of the old ones.
Engaged_Fresh(t) == [state |-> "SAFE_MODE", triggers |-> {t}]

Engaged(t) == [state |-> "SAFE_MODE", triggers |-> (Seen.triggers \ {Unavailable}) \cup {t}]

\* All triggers but OPERATOR.
Investigated(S) == S \ {Operator}

\* The file is read and the decision made.
Begin(p, blob, ack) ==
  /\ job[p].step = "idle"
  /\ job' = [job EXCEPT ![p] = [step |-> "decided", ack |-> ack, blob |-> blob, fd |-> NoFile]]
  /\ mixed' = (mixed \/ \E q \in Processes \ {p} : job[q].step # "idle")
  /\ UNCHANGED <<path, staging, disk>>

Engage(p, t) == Begin(p, Engaged(t), FALSE) /\ UNCHANGED asked

Release(p, ack) ==
  /\ Blocked
  /\ Investigated(Seen.triggers) # {} => ack
  /\ Begin(p, Normal, ack)
  /\ asked' = TRUE

Initialise(p, ack) ==
  /\ path = NoFile /\ ack
  /\ Begin(p, Normal, ack)
  /\ asked' = TRUE

-----------------------------------------------------------------------------
(* _write. *)

InUse == {path, staging} \cup {job[p].fd : p \in Processes}

\* Mutant: the safety file itself is opened for writing.
Opened_InPlace == {IF path = NoFile THEN i ELSE path : i \in Inodes \ InUse}

\* open(staging, "w"): the inode of that name, emptied, or a new one.
Opened == IF staging # NoFile THEN {staging} ELSE Inodes \ InUse

Open(p) ==
  /\ job[p].step = "decided"
  /\ \E i \in Opened :
       /\ staging' = i
       /\ disk' = [disk EXCEPT ![i] = Torn]
       /\ job' = [job EXCEPT ![p].step = "open", ![p].fd = i]
  /\ UNCHANGED <<path, asked, mixed>>

\* write, flush and fsync.  Over what another process wrote into the same inode in
\* the meantime, the longer text may show.
Fill(p) ==
  /\ job[p].step = "open"
  /\ LET i == job[p].fd IN
     \E b \in {job[p].blob} \cup (IF disk[i] = Torn THEN {} ELSE {Torn}) :
       disk' = [disk EXCEPT ![i] = b]
  /\ job' = [job EXCEPT ![p].step = "synced"]
  /\ UNCHANGED <<path, staging, asked, mixed>>

\* os.replace, which raises if another process has moved the staging file already.
Replace(p) ==
  /\ job[p].step = "synced"
  /\ IF staging = NoFile THEN UNCHANGED <<path, staging>>
     ELSE path' = staging /\ staging' = NoFile
  /\ job' = [job EXCEPT ![p] = Idle]
  /\ UNCHANGED <<disk, asked, mixed>>

Crash(p) ==
  /\ job[p].step # "idle"
  /\ job' = [job EXCEPT ![p] = Idle]
  /\ UNCHANGED <<path, staging, disk, asked, mixed>>

\* The file is deleted, by nobody's function.
Lose ==
  /\ path # NoFile
  /\ path' = NoFile
  /\ UNCHANGED <<staging, disk, job, asked, mixed>>

-----------------------------------------------------------------------------
Next ==
  \/ \E p \in Processes :
       \/ \E t \in Conditions : Engage(p, t)
       \/ \E ack \in Acks : Release(p, ack) \/ Initialise(p, ack)
       \/ Open(p) \/ Fill(p) \/ Replace(p) \/ Crash(p)
  \/ Lose

Spec == Init /\ [][Next]_vars

-----------------------------------------------------------------------------
(* Correctness. *)

\* Types; in particular no file says of itself that it could not be read (engage).
SafeTypeOK ==
  /\ path \in Inodes \cup {NoFile}
  /\ staging \in Inodes \cup {NoFile}
  /\ disk \in [Inodes -> Blobs \cup {Torn}]
  /\ job \in [Processes -> [step : {"idle", "decided", "open", "synced"}, ack : BOOLEAN,
                            blob : Blobs \cup {Torn}, fd : Inodes \cup {NoFile}]]
  /\ asked \in BOOLEAN /\ mixed \in BOOLEAN

\* Nothing but a decision to leave SAFE_MODE ever ends it: not a crash, not a lost or
\* half-written file, not writers getting in each other's way (SafeModeService.read,
\* "The only thing that reads as NORMAL is a file that says NORMAL").
BlockedUntilAsked == ~asked => Blocked

\* A process that dies while writing leaves the state as it was: as long as writers take
\* turns, the file is replaced as a whole or not at all (SafeModeService._write).
NeverTorn == ~mixed /\ path # NoFile => disk[path] # Torn

\* Conditions that somebody has to look at.
Standing == Investigated(Seen.triggers) \ {Unavailable}

\* "Refuses while an investigated trigger stands": such a trigger leaves the file
\* with an acknowledgement only (SafeModeService.release and engage).
TriggersStand ==
  \A t \in Standing :
    path' # NoFile => t \in Standing' \/ \E p \in Processes : job[p].ack /\ job'[p] = Idle
TriggersStandProperty == [][TriggersStand]_vars

\* As long as writers take turns, that is so wherever they die (SafeModeService.release
\* and engage).
TurnsKeepTriggersProperty == [][~mixed => TriggersStand]_vars
=============================================================================
