--------------------------- MODULE SafeModeProofs ---------------------------
(* Proofs about SafeMode: whatever writers, crashes and losses of the file do *)
(* to each other, nothing ends SAFE_MODE that nobody asked for.               *)
EXTENDS SafeMode, TLAPS

\* Until somebody is allowed to leave, NORMAL is neither on disk nor about to be.
Unasked ==
  ~asked => /\ \A i \in Inodes : disk[i].state # "NORMAL"
            /\ \A p \in Processes : job[p].blob.state # "NORMAL"

SafeInv == SafeTypeOK /\ Unasked

LEMMA SeenType ==
  ASSUME SafeTypeOK
  PROVE  Seen = NoAnswer \/ (path \in Inodes /\ Seen = disk[path] /\ Seen \in Blobs)
BY DEF SafeTypeOK, Seen

LEMMA EngagedType ==
  ASSUME SafeTypeOK, NEW t \in Conditions
  PROVE  Engaged(t) \in Blobs /\ Engaged(t).state = "SAFE_MODE"
<1>1. Seen.triggers \ {Unavailable} \subseteq Conditions
  BY SeenType DEF Blobs, NoAnswer
<1>2. QED
  BY <1>1 DEF Engaged, Blobs

LEMMA SafeInit == Init => SafeInv
<1> SUFFICES ASSUME Init PROVE SafeInv
  OBVIOUS
<1>1. mixed \in BOOLEAN
  BY DEF Init
<1>2. /\ path \in Inodes \cup {NoFile} /\ staging \in Inodes \cup {NoFile}
      /\ disk \in [Inodes -> Blobs \cup {Torn}] /\ asked = FALSE
      /\ \A i \in Inodes : disk[i].state = "SAFE_MODE"
  BY DEF Init, Blobs
<1>3. Idle \in [step : {"idle", "decided", "open", "synced"}, ack : BOOLEAN,
               blob : Blobs \cup {Torn}, fd : Inodes \cup {NoFile}]
  BY DEF Idle
<1>4. /\ job = [p \in Processes |-> Idle]
      /\ \A p \in Processes : job[p].blob.state # "NORMAL"
  BY DEF Init, Idle, Torn
<1>5. QED
  BY <1>1, <1>2, <1>3, <1>4 DEF SafeInv, SafeTypeOK, Unasked

\* A decision: the process now holds the blob it decided to write.
LEMMA SafeBegin ==
  ASSUME SafeInv, NEW p \in Processes, NEW b \in Blobs, NEW ack \in BOOLEAN,
         Begin(p, b, ack), asked' \in BOOLEAN, asked => asked',
         b.state = "NORMAL" => asked'
  PROVE  SafeInv'
<1>0. mixed' \in BOOLEAN
  <2>1. mixed' = (mixed \/ \E q \in Processes \ {p} : job[q].step # "idle")
    BY DEF Begin
  <2>2. QED
    BY <2>1, Zenon DEF SafeInv, SafeTypeOK
<1> DEFINE j == [step |-> "decided", ack |-> ack, blob |-> b, fd |-> NoFile]
<1>1. /\ job' = [job EXCEPT ![p] = j] /\ UNCHANGED <<path, staging, disk>>
      /\ j \in [step : {"idle", "decided", "open", "synced"}, ack : BOOLEAN,
                blob : Blobs \cup {Torn}, fd : Inodes \cup {NoFile}]
      /\ j.blob = b
  BY DEF Begin
<1> HIDE DEF j
<1>2. SafeTypeOK'
  BY <1>0, <1>1 DEF SafeInv, SafeTypeOK
<1>3. Unasked'
  BY <1>1 DEF SafeInv, SafeTypeOK, Unasked
<1>4. QED
  BY <1>2, <1>3 DEF SafeInv

LEMMA SafeNext == SafeInv /\ [Next]_vars => SafeInv'
<1> SUFFICES ASSUME SafeInv, [Next]_vars PROVE SafeInv'
  OBVIOUS
<1>0. SafeTypeOK
  BY DEF SafeInv
<1>1. ASSUME NEW p \in Processes, NEW t \in Conditions, Engage(p, t) PROVE SafeInv'
  BY <1>0, <1>1, EngagedType, SafeBegin DEF Engage, SafeTypeOK
<1>2. ASSUME NEW p \in Processes, NEW ack \in Acks, Release(p, ack) \/ Initialise(p, ack)
      PROVE  SafeInv'
  <2>1. Normal \in Blobs /\ ack \in BOOLEAN /\ Begin(p, Normal, ack) /\ asked' = TRUE
    BY <1>2, SafeAssumption DEF Release, Initialise, Normal, Blobs
  <2>2. QED
    BY <2>1, SafeBegin DEF SafeInv, SafeTypeOK
<1>3. ASSUME NEW p \in Processes, Open(p) PROVE SafeInv'
  <2>1. PICK i \in Opened : /\ staging' = i /\ disk' = [disk EXCEPT ![i] = Torn]
                            /\ job' = [job EXCEPT ![p].step = "open", ![p].fd = i]
                            /\ UNCHANGED <<path, asked, mixed>>
    BY <1>3 DEF Open
  <2>2. i \in Inodes
    BY <1>0, <2>1 DEF Opened, SafeTypeOK
  <2>3. SafeTypeOK'
    BY <1>0, <2>1, <2>2, ZenonT(60) DEF SafeTypeOK
  <2>4. Unasked'
    BY <1>0, <2>1, <2>2 DEF SafeInv, Unasked, SafeTypeOK, Torn
  <2>5. QED
    BY <2>3, <2>4 DEF SafeInv
<1>4. ASSUME NEW p \in Processes, Fill(p) PROVE SafeInv'
  <2> DEFINE i == job[p].fd
  <2>1. PICK b \in {job[p].blob, Torn} : disk' = [disk EXCEPT ![i] = b]
    BY <1>4 DEF Fill
  <2>2. job' = [job EXCEPT ![p].step = "synced"] /\ UNCHANGED <<path, staging, asked, mixed>>
    BY <1>4 DEF Fill
  <2>3. b \in Blobs \cup {Torn}
    BY <1>0, <2>1 DEF SafeTypeOK
  <2>4. SafeTypeOK'
    BY <1>0, <2>1, <2>2, <2>3 DEF SafeTypeOK
  <2>5. ~asked => b.state # "NORMAL"
    BY <2>1 DEF SafeInv, Unasked, Torn
  <2>6. Unasked'
    BY <1>0, <2>1, <2>2, <2>5 DEF SafeInv, Unasked, SafeTypeOK
  <2>7. QED
    BY <2>4, <2>6 DEF SafeInv
<1>5. ASSUME NEW p \in Processes, Replace(p) PROVE SafeInv'
  <2>1. /\ job' = [job EXCEPT ![p] = Idle] /\ UNCHANGED <<disk, asked, mixed>>
        /\ path' \in Inodes \cup {NoFile} /\ staging' \in Inodes \cup {NoFile}
    BY <1>0, <1>5 DEF Replace, SafeTypeOK
  <2>2. SafeTypeOK'
    BY <1>0, <2>1 DEF SafeTypeOK, Idle
  <2>3. Unasked'
    BY <1>0, <2>1 DEF SafeInv, Unasked, SafeTypeOK, Idle, Torn
  <2>4. QED
    BY <2>2, <2>3 DEF SafeInv
<1>6. ASSUME NEW p \in Processes, Crash(p) PROVE SafeInv'
  <2>1. SafeTypeOK'
    BY <1>0, <1>6 DEF Crash, SafeTypeOK, Idle
  <2>2. Unasked'
    BY <1>0, <1>6 DEF Crash, SafeInv, Unasked, SafeTypeOK, Idle, Torn
  <2>3. QED
    BY <2>1, <2>2 DEF SafeInv
<1>7. CASE Lose
  BY <1>7 DEF Lose, SafeInv, SafeTypeOK, Unasked
<1>8. CASE UNCHANGED vars
  BY <1>8 DEF vars, SafeInv, SafeTypeOK, Unasked
<1>9. QED
  BY <1>1, <1>2, <1>3, <1>4, <1>5, <1>6, <1>7, <1>8 DEF Next

LEMMA SafeInvariance == Spec => []SafeInv
BY SafeInit, SafeNext, PTL DEF Spec

\* The tables of safe_mode.py hold what they should; no file says of itself that it
\* could not be read.
THEOREM SafeTypeCorrect == Spec => []SafeTypeOK
BY SafeInvariance, PTL DEF SafeInv

\* SAFE_MODE is not left by accident, with any number of processes reading, writing
\* and dying (safe_mode.SafeModeService).
THEOREM NotLeftByAccident == Spec => []BlockedUntilAsked
<1>1. SafeInv => BlockedUntilAsked
  <2> SUFFICES ASSUME SafeInv, ~asked PROVE Seen.state = "SAFE_MODE"
    BY DEF BlockedUntilAsked, Blocked
  <2>1. CASE Seen = NoAnswer
    BY <2>1 DEF NoAnswer
  <2>2. CASE path \in Inodes /\ Seen = disk[path] /\ Seen \in Blobs
    BY <2>2 DEF SafeInv, Unasked, Blobs
  <2>3. QED
    BY <2>1, <2>2, SeenType DEF SafeInv
<1>2. QED
  BY <1>1, SafeInvariance, PTL

-----------------------------------------------------------------------------
(* Writers that take turns *)

\* The staging file is never the safety file, whatever writers do.
Staged == staging # NoFile => staging # path

\* What a writer is about to put in place: its own text, in a file of its own, without
\* losing a trigger that nobody acknowledged.
Writing(p) ==
  /\ job[p].blob \in Blobs
  /\ job[p].ack \/ Standing \subseteq job[p].blob.triggers
  /\ job[p].step # "decided" => job[p].fd = staging /\ staging \in Inodes
  /\ job[p].step = "open" => disk[staging] = Torn
  /\ job[p].step = "synced" => disk[staging] = job[p].blob

Alone ==
  /\ \A p, q \in Processes : job[p].step # "idle" /\ job[q].step # "idle" => p = q
  /\ \A p \in Processes : job[p].step # "idle" => Writing(p)

TurnsInv == SafeTypeOK /\ Staged /\ NeverTorn /\ (~mixed => Alone)

LEMMA TornIsNoBlob == Torn \notin Blobs
BY DEF Torn, Blobs

\* What is seen of a file that nobody touches is the same.
LEMMA SeenStays ==
  ASSUME path' = path, path # NoFile => disk'[path] = disk[path]
  PROVE  Seen' = Seen /\ Standing' = Standing
BY DEF Seen, Standing

LEMMA LostIsEmpty ==
  ASSUME path' = NoFile
  PROVE  Standing' = {}
BY DEF Standing, Seen, NoAnswer, Investigated

LEMMA TurnsInit == Init => TurnsInv
<1> SUFFICES ASSUME Init PROVE TurnsInv
  OBVIOUS
<1>1. SafeTypeOK
  BY SafeInit DEF SafeInv
<1>2. PICK t \in Conditions : disk = [i \in Inodes |-> [state |-> "SAFE_MODE", triggers |-> {t}]]
  BY DEF Init
<1>3. \A i \in Inodes : disk[i].state = "SAFE_MODE"
  BY <1>2
<1>4. \A i \in Inodes : disk[i] # Torn
  BY <1>3 DEF Torn
<1>5. job = [p \in Processes |-> Idle] /\ staging = NoFile /\ path \in Inodes \cup {NoFile}
  BY DEF Init
<1>6. \A p \in Processes : job[p].step = "idle"
  BY <1>5 DEF Idle
<1>7. QED
  BY <1>1, <1>4, <1>5, <1>6 DEF TurnsInv, Staged, NeverTorn, Alone

\* A decision taken alone keeps the triggers it read, or is acknowledged.
LEMMA TurnsBegin ==
  ASSUME TurnsInv, SafeTypeOK', NEW p \in Processes, NEW b \in Blobs, NEW ack \in BOOLEAN,
         Begin(p, b, ack), ack \/ Standing \subseteq b.triggers
  PROVE  TurnsInv' /\ Standing' = Standing
<1> DEFINE j == [step |-> "decided", ack |-> ack, blob |-> b, fd |-> NoFile]
<1>1. /\ job' = [job EXCEPT ![p] = j] /\ UNCHANGED <<path, staging, disk>>
      /\ j.step = "decided" /\ j.blob = b /\ j.ack = ack
  BY DEF Begin
<1>2. ~mixed' => ~mixed /\ \A q \in Processes \ {p} : job[q].step = "idle"
  BY DEF Begin
<1> HIDE DEF j
<1>3. Seen' = Seen /\ Standing' = Standing
  BY <1>1, SeenStays
<1>4. \A q \in Processes : job'[q] = IF q = p THEN j ELSE job[q]
  BY <1>1 DEF TurnsInv, SafeTypeOK
<1>5. ~mixed' => Alone'
  <2> SUFFICES ASSUME ~mixed' PROVE Alone'
    OBVIOUS
  <2>1. \A q \in Processes \ {p} : job'[q].step = "idle"
    BY <1>2, <1>4
  <2>2. Writing(p)'
    BY <1>1, <1>3, <1>4 DEF Writing
  <2>3. QED
    BY <2>1, <2>2 DEF Alone
<1>6. Staged' /\ NeverTorn'
  BY <1>1, <1>2 DEF TurnsInv, Staged, NeverTorn
<1>7. QED
  BY <1>3, <1>5, <1>6 DEF TurnsInv

\* One step, and what it does to the triggers.
LEMMA TurnsNext == TurnsInv /\ SafeTypeOK' /\ [Next]_vars => TurnsInv' /\ (~mixed => TriggersStand)
<1> SUFFICES ASSUME TurnsInv, SafeTypeOK', [Next]_vars PROVE TurnsInv' /\ (~mixed => TriggersStand)
  OBVIOUS
<1>0. SafeTypeOK /\ Staged /\ NeverTorn /\ (~mixed => Alone)
  BY DEF TurnsInv
<1>a. (\A t \in Standing : t \in Standing') => TriggersStand
  BY DEF TriggersStand
<1>1. ASSUME NEW p \in Processes, NEW t \in Conditions, Engage(p, t) PROVE TurnsInv' /\ TriggersStand
  <2>1. Standing \subseteq Engaged(t).triggers
    BY DEF Standing, Investigated, Engaged
  <2>2. QED
    BY <1>0, <1>1, <1>a, <2>1, EngagedType, TurnsBegin DEF Engage
<1>2. ASSUME NEW p \in Processes, NEW ack \in Acks, Release(p, ack) \/ Initialise(p, ack)
      PROVE  TurnsInv' /\ TriggersStand
  <2>1. Normal \in Blobs /\ ack \in BOOLEAN /\ Begin(p, Normal, ack)
    BY <1>2, SafeAssumption DEF Release, Initialise, Normal, Blobs
  <2>2. ack \/ Standing \subseteq Normal.triggers
    <3>1. CASE Release(p, ack)
      BY <3>1 DEF Release, Standing
    <3>2. CASE Initialise(p, ack)
      BY <3>2 DEF Initialise
    <3>3. QED
      BY <1>2, <3>1, <3>2
  <2>3. QED
    BY <2>1, <2>2, <1>a, TurnsBegin
<1>3. ASSUME NEW p \in Processes, Open(p) PROVE TurnsInv' /\ TriggersStand
  <2>1. PICK i \in Opened : /\ staging' = i /\ disk' = [disk EXCEPT ![i] = Torn]
                            /\ job' = [job EXCEPT ![p].step = "open", ![p].fd = i]
                            /\ UNCHANGED <<path, asked, mixed>>
    BY <1>3 DEF Open
  <2>2. i \in Inodes /\ i # path /\ job[p].step = "decided"
    BY <1>0, <1>3, <2>1 DEF Opened, InUse, SafeTypeOK, Staged, Open
  <2>3. Standing' = Standing /\ Staged' /\ NeverTorn' /\ disk'[i] = Torn
    <3>1. \A x \in Inodes : disk'[x] = IF x = i THEN Torn ELSE disk[x]
      BY <1>0, <2>1, <2>2 DEF SafeTypeOK
    <3>2. path # NoFile => disk'[path] = disk[path]
      BY <1>0, <2>2, <3>1 DEF SafeTypeOK
    <3>3. QED
      BY <1>0, <2>1, <2>2, <3>1, <3>2, SeenStays DEF Staged, NeverTorn
  <2>4. \A q \in Processes : /\ job'[q].step = IF q = p THEN "open" ELSE job[q].step
                             /\ job'[q].blob = job[q].blob /\ job'[q].ack = job[q].ack
                             /\ q = p => job'[q].fd = i
    BY <1>0, <2>1 DEF SafeTypeOK
  <2>5. ~mixed' => Alone'
    <3> SUFFICES ASSUME ~mixed PROVE Alone'
      BY <2>1
    <3>1. \A q \in Processes : q # p => job'[q].step = "idle"
      BY <1>0, <2>2, <2>4 DEF Alone
    <3>2. Writing(p)
      BY <1>0, <2>2 DEF Alone
    <3>3. /\ job'[p].step = "open" /\ job'[p].fd = i /\ staging' = i /\ i \in Inodes
          /\ job'[p].blob = job[p].blob /\ job'[p].ack = job[p].ack
      BY <2>1, <2>2, <2>4
    <3>4. Writing(p)'
      BY <2>3, <3>2, <3>3 DEF Writing
    <3>5. QED
      BY <3>1, <3>4 DEF Alone
  <2>6. QED
    BY <2>3, <2>5, <1>a DEF TurnsInv
<1>4. ASSUME NEW p \in Processes, Fill(p) PROVE TurnsInv' /\ (~mixed => TriggersStand)
  <2> DEFINE i == job[p].fd
  <2>1. PICK b : /\ disk' = [disk EXCEPT ![i] = b]
                 /\ b = job[p].blob \/ disk[i] # Torn
    BY <1>4 DEF Fill
  <2>2. /\ job' = [job EXCEPT ![p].step = "synced"] /\ UNCHANGED <<path, staging, asked, mixed>>
        /\ job[p].step = "open"
    BY <1>4 DEF Fill
  <2>3. \A q \in Processes : /\ job'[q].step = IF q = p THEN "synced" ELSE job[q].step
                             /\ job'[q].blob = job[q].blob /\ job'[q].ack = job[q].ack
                             /\ job'[q].fd = job[q].fd
    BY <1>0, <2>2 DEF SafeTypeOK
  <2>4. ~mixed => Alone' /\ NeverTorn' /\ Standing' = Standing
    <3> SUFFICES ASSUME ~mixed PROVE Alone' /\ NeverTorn' /\ Standing' = Standing
      OBVIOUS
    <3>1. \A q \in Processes : q # p => job'[q].step = "idle"
      BY <1>0, <2>2, <2>3 DEF Alone
    <3>2. Writing(p)
      BY <1>0, <2>2 DEF Alone
    <3>3. i = staging /\ staging \in Inodes /\ b = job[p].blob /\ staging # path
      BY <1>0, <2>1, <2>2, <3>2, SafeAssumption DEF Writing, Staged
    <3>4. \A x \in Inodes : disk'[x] = IF x = staging THEN b ELSE disk[x]
      BY <1>0, <2>1, <3>3 DEF SafeTypeOK
    <3>5. path # NoFile => disk'[path] = disk[path]
      BY <1>0, <3>3, <3>4 DEF SafeTypeOK
    <3>6. Standing' = Standing /\ NeverTorn'
      BY <1>0, <2>2, <3>5, SeenStays DEF NeverTorn
    <3>7. Writing(p)'
      BY <2>2, <2>3, <3>2, <3>3, <3>4, <3>6 DEF Writing
    <3>8. QED
      BY <3>1, <3>6, <3>7 DEF Alone
  <2>5. Staged' /\ (mixed => NeverTorn')
    BY <1>0, <2>2 DEF Staged, NeverTorn
  <2>6. QED
    BY <2>2, <2>4, <2>5, <1>a DEF TurnsInv
<1>5. ASSUME NEW p \in Processes, Replace(p) PROVE TurnsInv' /\ (~mixed => TriggersStand)
  <2>1. /\ job' = [job EXCEPT ![p] = Idle] /\ UNCHANGED <<disk, asked, mixed>>
        /\ job[p].step = "synced"
        /\ IF staging = NoFile THEN UNCHANGED <<path, staging>>
           ELSE path' = staging /\ staging' = NoFile
    BY <1>5 DEF Replace
  <2>2. job'[p] = Idle /\ job'[p].step = "idle" /\ \A q \in Processes : q # p => job'[q] = job[q]
    BY <1>0, <2>1 DEF SafeTypeOK, Idle
  <2>3. Staged'
    BY <1>0, <2>1 DEF Staged
  <2>4. ~mixed => Alone' /\ NeverTorn' /\ TriggersStand
    <3> SUFFICES ASSUME ~mixed PROVE Alone' /\ NeverTorn' /\ TriggersStand
      OBVIOUS
    <3>1. \A q \in Processes : job'[q].step = "idle"
      BY <1>0, <2>1, <2>2 DEF Alone
    <3>2. Writing(p)
      BY <1>0, <2>1 DEF Alone
    <3>3. /\ path' = staging /\ staging # NoFile /\ disk'[path'] = job[p].blob
          /\ job[p].blob # Torn
      BY <2>1, <3>2, SafeAssumption, TornIsNoBlob DEF Writing
    <3>4. Seen' = job[p].blob
      BY <3>3 DEF Seen
    <3>5. job[p].ack \/ \A t \in Standing : t \in Standing'
      BY <3>2, <3>4 DEF Writing, Standing, Investigated
    <3>6. TriggersStand
      BY <2>2, <3>5, <1>a DEF TriggersStand
    <3>7. QED
      BY <3>1, <3>3, <3>6 DEF Alone, NeverTorn
  <2>5. mixed => NeverTorn'
    BY <2>1 DEF NeverTorn
  <2>6. QED
    BY <2>1, <2>3, <2>4, <2>5 DEF TurnsInv
<1>6. ASSUME NEW p \in Processes, Crash(p) PROVE TurnsInv' /\ TriggersStand
  <2>1. /\ job' = [job EXCEPT ![p] = Idle] /\ UNCHANGED <<path, staging, disk, asked, mixed>>
    BY <1>6 DEF Crash
  <2>2. \A q \in Processes : IF q = p THEN job'[q].step = "idle" ELSE job'[q] = job[q]
    BY <1>0, <2>1 DEF SafeTypeOK, Idle
  <2>3. Standing' = Standing /\ Staged' /\ NeverTorn'
    BY <1>0, <2>1, SeenStays DEF Staged, NeverTorn
  <2>4. Alone => Alone'
    <3> SUFFICES ASSUME Alone PROVE Alone'
      OBVIOUS
    <3>1. \A q \in Processes : q # p /\ Writing(q) => Writing(q)'
      BY <2>1, <2>2, <2>3 DEF Writing
    <3>2. QED
      BY <2>2, <3>1 DEF Alone
  <2>5. QED
    BY <1>0, <2>1, <2>3, <2>4, <1>a DEF TurnsInv
<1>7. ASSUME Lose PROVE TurnsInv' /\ TriggersStand
  <2>1. path' = NoFile /\ UNCHANGED <<staging, disk, job, asked, mixed>>
    BY <1>7 DEF Lose
  <2>2. Standing' = {}
    BY <2>1, LostIsEmpty
  <2>3. Alone => Alone'
    BY <2>1, <2>2 DEF Alone, Writing
  <2>4. QED
    BY <1>0, <2>1, <2>3 DEF TurnsInv, Staged, NeverTorn, TriggersStand
<1>8. ASSUME UNCHANGED vars PROVE TurnsInv' /\ TriggersStand
  <2>1. UNCHANGED <<path, staging, disk, job, asked, mixed>>
    BY <1>8 DEF vars
  <2>2. Standing' = Standing
    BY <2>1, SeenStays
  <2>3. Alone => Alone'
    BY <2>1, <2>2 DEF Alone, Writing
  <2>4. QED
    BY <1>0, <2>1, <2>2, <2>3, <1>a DEF TurnsInv, Staged, NeverTorn
<1>9. QED
  BY <1>1, <1>2, <1>3, <1>4, <1>5, <1>6, <1>7, <1>8 DEF Next

LEMMA TurnsInvariance == Spec => []TurnsInv
<1>1. Spec => []SafeTypeOK
  BY SafeTypeCorrect
<1>2. QED
  BY <1>1, TurnsInit, TurnsNext, PTL DEF Spec

\* Of writers that take turns none leaves half a file, wherever it dies: the staging
\* file is its own until it replaces the safety file (SafeModeService._write).
THEOREM WholeFiles == Spec => []NeverTorn
<1>1. TurnsInv => NeverTorn
  BY DEF TurnsInv
<1>2. QED
  BY <1>1, TurnsInvariance, PTL

\* Of writers that take turns none drops an investigated trigger without an
\* acknowledgement: what it writes is what it read, and more, however long it takes
\* (SafeModeService.engage, release and initialise).
THEOREM TurnsKeepTriggers == Spec => TurnsKeepTriggersProperty
<1>1. TurnsInv /\ SafeTypeOK' /\ [Next]_vars => [~mixed => TriggersStand]_vars
  BY TurnsNext
<1>2. QED
  BY <1>1, SafeTypeCorrect, TurnsInvariance, PTL DEF Spec, TurnsKeepTriggersProperty
=============================================================================
