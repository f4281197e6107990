---------------------------- MODULE ProcfsProofs ----------------------------
(***************************************************************************)
(* What the two collectors that poll /proc promise, proved for any number   *)
(* of pids, inodes and ports and any max_procs and max_sockets.             *)
(***************************************************************************)
EXTENDS SnapshotCollectors, FiniteSetTheorems, TLAPS

(***************************************************************************)
(* The process collector.  A process is known by its pid and its starttime, *)
(* and a starttime is never given out again: what was recorded of a process *)
(* can be compared with what runs under its pid now.  The events so far say *)
(* what the baseline holds (ToldIsBaseline); an image that was read twice   *)
(* is the one that runs, unless the process is dying, exec'd after the      *)
(* second read or could not be read then (ImageOK); and a pass, while       *)
(* nothing happens, has read the entries behind it as they are, those apart *)
(* whose stat failed (Undisturbed).                                         *)
(***************************************************************************)

Shows == {"none", "sh", "ls"}
ProcState == [start : Nat, cmdline : Shows, exe : Shows, settled : BOOLEAN]
Proc == [start : Nat, image : Shows \cup {"kthread"}, zombie : BOOLEAN]
InFiles == procPc \in {"cmdline", "exe"}

\* x was recorded of a process that has run under pid p; a kernel thread shows no image.
StateOK(x, p) ==
  /\ x.start <= starts
  /\ x.start = procs[p].start /\ procs[p].image = "kthread" => x.cmdline = "none" /\ x.exe = "none"

\* The process p runs an image the collector has had a fair look at.
Living(p) == Running(p) /\ ~procs[p].zombie /\ p \notin late /\ p \notin obscured

\* x, if it was settled of the process now running as p, has its image.
ImageOK(x, p) ==
  x.settled /\ x.start = procs[p].start /\ Living(p) =>
    x.cmdline = Shown(p) /\ x.exe = Shown(p)

\* x says what runs as p.
Matches(x, p) ==
  /\ x.start = procs[p].start
  /\ Living(p) => x.cmdline = Shown(p) /\ x.exe = Shown(p)

ProcTypes ==
  /\ procs \in [Pid -> Proc] /\ starts \in Nat
  /\ \A p \in Pid : procs[p].start <= starts /\ (Running(p) => procs[p].image # "none")
  /\ procPc \in {"idle", "stat", "cmdline", "exe"}
  /\ pids \subseteq Pid /\ reading \in ProcState
  /\ procSnapshot \in [Pid -> ProcState] /\ procBaseline \in [Pid -> ProcState]

Recorded ==
  \A p \in Pid :
    /\ StateOK(procBaseline[p], p) /\ ImageOK(procBaseline[p], p)
    /\ StateOK(procSnapshot[p], p) /\ ImageOK(procSnapshot[p], p)
    /\ procPc = "idle" \/ p \in pids \/ p \in unread => procSnapshot[p] = NoState
    /\ procPc # "idle" /\ p \in unread => p \notin pids
    /\ procSnapshot[p].settled => procBaseline[p].start = procSnapshot[p].start

\* The entry whose files are being read.
EntryRead ==
  InFiles =>
    /\ entry \in pids /\ StateOK(reading, entry)
    /\ reading.exe = "none" /\ ~reading.settled
    /\ Running(entry) /\ procBaseline[entry].start = procs[entry].start =>
         /\ reading.start = procs[entry].start /\ ~procBaseline[entry].settled
         /\ procPc = "exe" /\ Living(entry) => reading.cmdline = Shown(entry)

\* A process of the baseline that still runs is found again, if its stat can be read.
StillListed ==
  procPc # "idle" /\ procSource =>
    \A p \in Pid :
      Running(p) /\ procBaseline[p].start = procs[p].start =>
        p \in pids \/ p \in unread \/ procSnapshot[p].start = procs[p].start

\* The pass in progress, if nothing has happened since it began.
Undisturbed ==
  procPc # "idle" /\ procSource /\ procQuiet =>
    /\ \A p \in Pid : p \notin pids /\ p \notin unread => Matches(procSnapshot[p], p)
    /\ InFiles => reading.start = procs[entry].start
    /\ procPc = "exe" => reading.cmdline = Shown(entry) \/ entry \in obscured

\* What events can say of a state.
SameReport(x, y) ==
  x.start = y.start /\ (x.start > 0 => x.cmdline = y.cmdline /\ x.exe = y.exe)

ToldIsBaseline == \A p \in Pid : SameReport(procTold[p], procBaseline[p])

ProcInv ==
  /\ ProcTypes /\ Recorded /\ EntryRead /\ StillListed /\ Undisturbed /\ ToldIsBaseline
  /\ QuietPassKnowsProcesses

\* At first nothing is recorded.
LEMMA ProcInitially == Init => ProcInv
<1> SUFFICES ASSUME Init PROVE ProcInv
  OBVIOUS
<1>1. NoState \in ProcState /\ NoProc \in Proc
  BY DEF NoState, NoProc, ProcState, Proc, Shows
<1>2. PICK there \in SUBSET Pid, image \in {"sh", "kthread"} :
        procs = [p \in Pid |-> IF p \in there
                   THEN [start |-> 1, image |-> image, zombie |-> FALSE] ELSE NoProc]
  BY DEF Init
<1>3. \A p \in Pid : /\ procs[p] \in Proc /\ procs[p].start <= 1
                     /\ procs[p].start > 0 => procs[p].image # "none"
  BY <1>1, <1>2 DEF NoProc, Proc, Shows
<1>4. procs \in [Pid -> Proc]
  BY <1>2, <1>3
<1>5. ProcTypes
  BY <1>1, <1>3, <1>4 DEF Init, ProcTypes, Running
<1>6. Recorded /\ ToldIsBaseline
  <2>1. /\ procSnapshot = [p \in Pid |-> NoState] /\ procBaseline = procSnapshot
        /\ procTold = procSnapshot /\ starts = 1 /\ procPc = "idle"
    BY DEF Init
  <2>2. NoState.start = 0 /\ NoState.settled = FALSE /\ NoState.cmdline = "none"
        /\ NoState.exe = "none"
    BY DEF NoState
  <2>3. ToldIsBaseline
    BY <2>1, <2>2 DEF ToldIsBaseline, SameReport
  <2>4. QED
    BY <2>1, <2>2, <2>3 DEF Recorded, StateOK, ImageOK
<1>7. EntryRead /\ StillListed /\ Undisturbed /\ QuietPassKnowsProcesses
  BY DEF Init, EntryRead, InFiles, StillListed, Undisturbed, QuietPassKnowsProcesses
<1>8. QED
  BY <1>5, <1>6, <1>7 DEF ProcInv


\* Something happens to the processes.  Each pid keeps its process, loses it or gets one
\* with a new starttime; an image that changes under a recorded one makes the pid late.
LEMMA HostKeeps ==
  ASSUME ProcInv, HostStep, procs' \in [Pid -> Proc], starts' \in {starts, starts + 1},
         \A q \in Pid :
           /\ procs'[q].start <= starts' /\ (Running(q)' => procs'[q].image # "none")
           /\ \/ /\ procs'[q].start = procs[q].start
                 /\ procs'[q].image = "kthread" => procs[q].image = "kthread"
              \/ procs'[q].start = 0 /\ procs'[q].image # "kthread"
              \/ procs'[q].start > starts /\ procs'[q].image # "kthread"
           /\ Living(q)' =>
                \/ procs'[q].start > starts
                \/ /\ procs'[q].start = procs[q].start
                   /\ \/ Living(q) /\ Shown(q)' = Shown(q)
                      \/ ~ /\ procBaseline[q].start = procs[q].start
                           /\ procBaseline[q].settled \/ PastImage(q)
  PROVE  ProcInv'
<1>1. ProcTypes /\ Recorded /\ EntryRead /\ StillListed /\ ToldIsBaseline
  BY DEF ProcInv
<1>2. /\ procQuiet' = FALSE /\ procSource' = procSource
      /\ UNCHANGED <<procPc, pids, entry, reading, procSnapshot, procBaseline, procTold,
                     unread, obscured>>
  BY DEF HostStep, passVars, diffVars
<1>3. starts \in Nat /\ starts' \in Nat /\ starts <= starts'
      /\ \A q \in Pid : procs[q].start \in Nat /\ procs'[q].start \in Nat
  BY <1>1 DEF ProcTypes, Proc
<1>4. ASSUME NEW x \in ProcState, NEW q \in Pid, StateOK(x, q)
      PROVE  /\ x.start <= starts' /\ StateOK(x, q)'
             /\ x.start = procs'[q].start => ~(procs'[q].start > starts)
  <2>1. x.start \in Nat /\ x.start <= starts
    BY <1>4 DEF ProcState, StateOK
  <2>2. x.start <= starts' /\ (x.start = procs'[q].start => ~(procs'[q].start > starts))
    BY <1>3, <2>1
  <2>3. QED
    BY <1>4, <2>2 DEF StateOK
<1>5. \A q \in Pid : /\ procBaseline[q] \in ProcState /\ procSnapshot[q] \in ProcState
                     /\ StateOK(procBaseline[q], q) /\ StateOK(procSnapshot[q], q)
                     /\ ImageOK(procBaseline[q], q) /\ ImageOK(procSnapshot[q], q)
  BY <1>1 DEF ProcTypes, Recorded
<1>6. ProcTypes'
  BY <1>1, <1>2, <1>3 DEF ProcTypes
<1>7. Recorded'
  <2> SUFFICES ASSUME NEW q \in Pid
               PROVE  /\ StateOK(procBaseline[q], q)' /\ ImageOK(procBaseline[q], q)'
                      /\ StateOK(procSnapshot[q], q)' /\ ImageOK(procSnapshot[q], q)'
    BY <1>1, <1>2 DEF Recorded
  <2>1. StateOK(procBaseline[q], q)' /\ StateOK(procSnapshot[q], q)'
    BY <1>2, <1>4, <1>5 DEF StateOK
  <2>2. ImageOK(procBaseline[q], q)'
    BY <1>2, <1>4, <1>5 DEF ImageOK
  <2>3. procSnapshot[q].settled =>
          PastImage(q) /\ procBaseline[q].start = procSnapshot[q].start
    <3>1. procSnapshot[q].settled => procSnapshot[q] # NoState
      BY DEF NoState
    <3>2. QED
      BY <1>1, <3>1 DEF Recorded, PastImage
  <2>4. ImageOK(procSnapshot[q], q)'
    BY <1>2, <1>4, <1>5, <2>3 DEF ImageOK
  <2>5. QED
    BY <2>1, <2>2, <2>4
<1>8. EntryRead'
  <2> SUFFICES ASSUME InFiles PROVE EntryRead'
    BY <1>2 DEF EntryRead, InFiles
  <2>1. PICK e \in Pid : e = entry
    BY <1>1 DEF EntryRead, ProcTypes
  <2>2. e \in pids /\ StateOK(reading, e) /\ reading.exe = "none" /\ ~reading.settled
        /\ reading \in ProcState
    BY <1>1, <2>1 DEF EntryRead, ProcTypes
  <2>3. StateOK(reading, e)'
    BY <1>2, <1>4, <2>2 DEF StateOK
  <2>4. ASSUME Running(e)', procBaseline[e].start = procs'[e].start
        PROVE  /\ reading.start = procs'[e].start /\ ~procBaseline[e].settled
               /\ procPc = "exe" /\ Living(e)' => reading.cmdline = Shown(e)'
    <3>1. procs'[e].start > 0 /\ ~(procs'[e].start > starts)
      BY <1>4, <1>5, <2>4 DEF Running
    <3>2. procs'[e].start = procs[e].start
      BY <1>3, <3>1
    <3>3. Running(e) /\ procBaseline[e].start = procs[e].start
      BY <2>4, <3>1, <3>2 DEF Running
    <3>4. reading.start = procs'[e].start /\ ~procBaseline[e].settled
      BY <1>1, <2>1, <3>2, <3>3 DEF EntryRead
    <3>5. ASSUME procPc = "exe", Living(e)' PROVE reading.cmdline = Shown(e)'
      <4>1. PastImage(e)
        BY <2>1, <3>5 DEF PastImage
      <4>2. Living(e) /\ Shown(e)' = Shown(e)
        BY <3>1, <3>3, <3>5, <4>1
      <4>3. QED
        BY <1>1, <2>1, <3>3, <3>5, <4>2 DEF EntryRead
    <3>6. QED
      BY <3>4, <3>5
  <2>5. QED
    BY <1>2, <2>1, <2>2, <2>3, <2>4 DEF EntryRead, StateOK, Running, Living, Shown
<1>9. StillListed'
  <2> SUFFICES ASSUME procPc # "idle", procSource, NEW q \in Pid, Running(q)',
                      procBaseline[q].start = procs'[q].start
               PROVE  q \in pids \/ q \in unread \/ procSnapshot[q].start = procs'[q].start
    BY <1>2 DEF StillListed
  <2>1. procs'[q].start > 0 /\ ~(procs'[q].start > starts)
    BY <1>4, <1>5 DEF Running
  <2>2. procs'[q].start = procs[q].start
    BY <1>3, <2>1
  <2>3. QED
    BY <1>1, <2>1, <2>2 DEF StillListed, Running
<1>10. Undisturbed' /\ ToldIsBaseline' /\ QuietPassKnowsProcesses'
  BY <1>1, <1>2 DEF Undisturbed, ToldIsBaseline, QuietPassKnowsProcesses
<1>11. QED
  BY <1>6, <1>7, <1>8, <1>9, <1>10 DEF ProcInv

\* A fork, an exec, an exit, a reaping or an outage of /proc is such a step.
LEMMA HostSteps ==
  ASSUME ProcInv, (\E p \in Pid : Host(p)) \/ ProcChanges
  PROVE  ProcInv'
<1>1. /\ procs \in [Pid -> Proc] /\ starts \in Nat
      /\ \A q \in Pid : procs[q].start \in Nat /\ procs[q].start <= starts
                        /\ (Running(q) => procs[q].image # "none")
  BY DEF ProcInv, ProcTypes, Proc
<1>2. CASE ProcChanges
  <2>1. HostStep /\ procs' = procs /\ starts' = starts /\ late' = late /\ obscured' = obscured
    BY <1>2 DEF ProcChanges, HostStep, passVars
  <2>2. \A q \in Pid : Running(q)' = Running(q) /\ Living(q)' = Living(q)
                       /\ Shown(q)' = Shown(q)
    BY <2>1 DEF Running, Living, Shown
  <2>3. QED
    BY <1>1, <2>1, <2>2, HostKeeps
<1>3. ASSUME NEW p \in Pid, Host(p) PROVE ProcInv'
  <2>1. HostStep /\ obscured' = obscured
    BY <1>3 DEF Host, Fork, Exec, Exit, Reap, HostStep, passVars
  <2>2. ASSUME NEW r \in Proc, procs' = [procs EXCEPT ![p] = r], late' \ {p} = late \ {p}
        PROVE  /\ procs' \in [Pid -> Proc] /\ procs'[p] = r
               /\ \A q \in Pid \ {p} :
                    procs'[q] = procs[q] /\ Running(q)' = Running(q) /\ Living(q)' = Living(q)
                    /\ Shown(q)' = Shown(q)
    BY <1>1, <2>1, <2>2 DEF Running, Living, Shown
  <2>3. CASE Fork(p)
    <3> DEFINE r == [start |-> starts + 1, image |-> "sh", zombie |-> FALSE]
    <3>1. r \in Proc /\ r.start = starts + 1 /\ r.image = "sh"
      BY <1>1 DEF Proc, Shows
    <3>2. procs' = [procs EXCEPT ![p] = r] /\ late' = late \ {p} /\ starts' = starts + 1
      BY <2>3 DEF Fork
    <3> HIDE DEF r
    <3>3. procs'[p] = r
      BY <1>1, <3>2
    <3>4. procs'[p].start > starts /\ procs'[p].start <= starts'
      BY <1>1, <3>1, <3>2, <3>3
    <3>5. \A q \in Pid : procs[q].start <= starts'
      BY <1>1, <3>2
    <3>6. QED
      BY <1>1, <2>1, <2>2, <3>1, <3>2, <3>3, <3>4, <3>5, HostKeeps
  <2>4. CASE Reap(p)
    <3>1. NoProc \in Proc /\ NoProc.start = 0 /\ NoProc.image = "none"
      BY DEF NoProc, Proc, Shows
    <3>2. procs' = [procs EXCEPT ![p] = NoProc] /\ late' = late /\ starts' = starts
      BY <2>4 DEF Reap
    <3>3. procs'[p] = NoProc /\ procs'[p].start <= starts' /\ ~Running(p)' /\ ~Living(p)'
      BY <1>1, <3>1, <3>2 DEF Running, Living
    <3>4. QED
      BY <1>1, <2>1, <2>2, <3>1, <3>2, <3>3, HostKeeps
  <2>5. CASE Exit(p)
    <3> DEFINE r == [procs[p] EXCEPT !.zombie = TRUE]
    <3>1. r \in Proc /\ r.start = procs[p].start /\ r.image = procs[p].image /\ r.zombie
      BY <1>1 DEF Proc
    <3>2. procs' = [procs EXCEPT ![p] = r] /\ late' = late /\ starts' = starts
      BY <2>5 DEF Exit
    <3> HIDE DEF r
    <3>3. procs'[p] = r /\ ~Living(p)' /\ Running(p)' = Running(p)
      BY <1>1, <3>1, <3>2 DEF Running, Living
    <3>4. QED
      BY <1>1, <2>1, <2>2, <3>1, <3>2, <3>3, HostKeeps
  <2>6. CASE Exec(p)
    <3> DEFINE r == [procs[p] EXCEPT !.image = "ls"]
    <3>1. r \in Proc /\ r.start = procs[p].start /\ r.image = "ls"
      BY <1>1 DEF Proc, Shows
    <3>2. /\ procs' = [procs EXCEPT ![p] = r] /\ starts' = starts
          /\ late' \ {p} = late \ {p}
          /\ (/\ procBaseline[p].start = procs[p].start
              /\ procBaseline[p].settled \/ PastImage(p)) => p \in late'
      BY <2>6 DEF Exec
    <3> HIDE DEF r
    <3>3. procs'[p] = r
      BY <1>1, <3>2
    <3>4. Living(p)' => p \notin late'
      BY DEF Living
    <3>5. /\ procs'[p].start = procs[p].start /\ procs'[p].image = "ls"
          /\ procs'[p].start <= starts'
      BY <1>1, <3>1, <3>2, <3>3
    <3>6. QED
      BY <1>1, <2>1, <2>2, <3>1, <3>2, <3>4, <3>5, HostKeeps
  <2>7. QED
    BY <1>3, <2>3, <2>4, <2>5, <2>6 DEF Host
<1>4. QED
  BY <1>2, <1>3

\* While the host stands still, what is said of a state stays true; the less so of an image
\* that could not be read.
LEMMA HostStill ==
  ASSUME UNCHANGED hostVars, late' = late, obscured \subseteq obscured'
  PROVE  /\ procs' = procs /\ starts' = starts
         /\ \A x, p : /\ StateOK(x, p)' <=> StateOK(x, p)
                      /\ ImageOK(x, p) => ImageOK(x, p)'
                      /\ Matches(x, p) => Matches(x, p)'
         /\ \A p : /\ Running(p)' <=> Running(p)
                   /\ Living(p)' => Living(p)
                   /\ Shown(p)' = Shown(p)
BY DEF hostVars, StateOK, ImageOK, Matches, Running, Living, Shown

\* The listing: every process that runs is in it.
LEMMA ListKeeps ==
  ASSUME ProcInv, ListPids
  PROVE  ProcInv'
<1>1. ProcTypes /\ Recorded /\ ToldIsBaseline
  BY DEF ProcInv
<1>2. /\ procPc = "idle" /\ procPc' = "stat" /\ procSource' = procOk
      /\ pids' = (IF procOk THEN {p \in Pid : Running(p)} ELSE {})
      /\ unread' = {} /\ obscured' = obscured
      /\ UNCHANGED <<hostVars, late, procSnapshot, procBaseline, procTold, reading>>
  BY DEF ListPids
<1>3. /\ procs' = procs /\ starts' = starts
      /\ \A x, p : /\ StateOK(x, p)' <=> StateOK(x, p)
                   /\ ImageOK(x, p) => ImageOK(x, p)'
                   /\ Matches(x, p) => Matches(x, p)'
      /\ \A p : /\ Running(p)' <=> Running(p)
                /\ Living(p)' => Living(p)
                /\ Shown(p)' = Shown(p)
  BY <1>2, HostStill
<1>4. \A p \in Pid : procSnapshot[p] = NoState
  BY <1>1, <1>2 DEF Recorded
<1>5. ProcTypes'
  BY <1>1, <1>2, <1>3 DEF ProcTypes
<1>6. Recorded'
  BY <1>1, <1>2, <1>3, <1>4 DEF Recorded, StateOK, ImageOK, hostVars
<1>7. EntryRead' /\ QuietPassKnowsProcesses' /\ ToldIsBaseline'
  BY <1>1, <1>2 DEF EntryRead, InFiles, QuietPassKnowsProcesses, ToldIsBaseline
<1>8. StillListed' /\ Undisturbed'
  <2>1. \A p \in Pid : procOk /\ p \notin pids' => ~Running(p)
    BY <1>2
  <2>2. \A p \in Pid : ~Running(p) => procs[p].start = 0 /\ ~Living(p)
    BY <1>1 DEF ProcTypes, Proc, Running, Living
  <2>3. NoState.start = 0
    BY DEF NoState
  <2>4. StillListed'
    BY <1>2, <1>3, <2>1 DEF StillListed
  <2>5. \A p \in Pid : procOk /\ p \notin pids' => Matches(procSnapshot[p], p)
    BY <1>4, <2>1, <2>2, <2>3 DEF Matches
  <2>6. \A p \in Pid : Matches(procSnapshot[p], p) => Matches(procSnapshot[p], p)'
    BY <1>2, <1>3 DEF Matches
  <2>7. QED
    BY <1>2, <2>4, <2>5, <2>6 DEF Undisturbed, InFiles, Matches
<1>9. QED
  BY <1>5, <1>6, <1>7, <1>8 DEF ProcInv

\* The entry p is read, as x, or its stat cannot be read; its image may not be.
LEMMA RecordKeeps ==
  ASSUME ProcInv, NEW p \in pids, NEW x \in ProcState, Record(p, x), Reading, procPc # "idle",
         unread' = unread \/ (unread' = unread \cup {p} /\ x = NoState),
         obscured \subseteq obscured',
         StateOK(x, p), ImageOK(x, p)', x.settled => procBaseline[p].start = x.start,
         p \notin unread' /\ Running(p) /\ procBaseline[p].start = procs[p].start =>
           x.start = procs[p].start,
         p \notin unread' /\ procSource /\ procQuiet => Matches(x, p)'
  PROVE  ProcInv'
<1>1. ProcTypes /\ Recorded /\ StillListed /\ Undisturbed /\ ToldIsBaseline
  BY DEF ProcInv
<1>2. /\ procPc' = "stat" /\ pids' = pids \ {p} /\ reading' = NoState
      /\ procSnapshot' = [procSnapshot EXCEPT ![p] = x]
      /\ UNCHANGED <<hostVars, late, procBaseline, procTold, procSource, procQuiet>>
  BY DEF Record, Reading, diffVars
<1>3. /\ procs' = procs /\ starts' = starts
      /\ \A y, q : /\ StateOK(y, q)' <=> StateOK(y, q)
                   /\ ImageOK(y, q) => ImageOK(y, q)'
                   /\ Matches(y, q) => Matches(y, q)'
      /\ \A q : /\ Running(q)' <=> Running(q)
                /\ Living(q)' => Living(q)
                /\ Shown(q)' = Shown(q)
  BY <1>2, HostStill
<1>4. p \in Pid /\ \A q \in Pid : procSnapshot'[q] = IF q = p THEN x ELSE procSnapshot[q]
  BY <1>1, <1>2 DEF ProcTypes
<1>5. NoState \in ProcState
  BY DEF NoState, ProcState, Shows
<1>6. ProcTypes'
  <2>1. procSnapshot' \in [Pid -> ProcState] /\ pids' \subseteq Pid
    BY <1>1, <1>2 DEF ProcTypes
  <2>2. QED
    BY <1>1, <1>2, <1>3, <1>5, <2>1 DEF ProcTypes
<1>7. Recorded'
  <2> SUFFICES ASSUME NEW q \in Pid
               PROVE  /\ StateOK(procBaseline[q], q)' /\ ImageOK(procBaseline[q], q)'
                      /\ StateOK(procSnapshot[q], q)' /\ ImageOK(procSnapshot[q], q)'
                      /\ q \in pids' \/ q \in unread' => procSnapshot'[q] = NoState
                      /\ q \in unread' => q \notin pids'
                      /\ procSnapshot'[q].settled =>
                           procBaseline'[q].start = procSnapshot'[q].start
    BY <1>2 DEF Recorded
  <2>1. StateOK(procBaseline[q], q) /\ ImageOK(procBaseline[q], q)
        /\ StateOK(procSnapshot'[q], q)
    BY <1>1, <1>4 DEF Recorded
  <2>2. StateOK(procBaseline[q], q)' /\ ImageOK(procBaseline[q], q)'
        /\ StateOK(procSnapshot[q], q)'
    BY <1>2, <1>3, <2>1 DEF StateOK, ImageOK
  <2>3. ImageOK(procSnapshot[q], q)'
    <3>1. CASE q = p
      BY <1>4, <3>1 DEF ImageOK
    <3>2. CASE q # p
      BY <1>1, <1>3, <1>4, <3>2 DEF Recorded, ImageOK
    <3>3. QED
      BY <3>1, <3>2
  <2>4. q \in unread' => (q = p /\ x = NoState) \/ q \in unread
    OBVIOUS
  <2>5. QED
    BY <1>1, <1>2, <1>4, <2>2, <2>3, <2>4 DEF Recorded
<1>8. EntryRead' /\ QuietPassKnowsProcesses' /\ ToldIsBaseline'
  BY <1>1, <1>2 DEF EntryRead, InFiles, QuietPassKnowsProcesses, ToldIsBaseline
<1>9. StillListed'
  BY <1>1, <1>2, <1>3, <1>4 DEF StillListed
<1>10. Undisturbed'
  <2>1. ASSUME procSource, procQuiet, NEW q \in Pid, q \notin pids', q \notin unread'
        PROVE  Matches(procSnapshot[q], q)'
    <3>1. CASE q = p
      BY <1>4, <2>1, <3>1 DEF Matches
    <3>2. CASE q # p
      <4>1. Matches(procSnapshot[q], q)
        BY <1>1, <1>2, <2>1, <3>2 DEF Undisturbed
      <4>2. QED
        BY <1>3, <1>4, <3>2, <4>1 DEF Matches
    <3>3. QED
      BY <3>1, <3>2
  <2>2. QED
    BY <1>2, <2>1 DEF Undisturbed, InFiles
<1>11. QED
  BY <1>6, <1>7, <1>8, <1>9, <1>10 DEF ProcInv

\* The stat of an entry.
LEMMA StatKeeps ==
  ASSUME ProcInv, ReadStat
  PROVE  ProcInv'
<1>1. ProcTypes /\ Recorded /\ StillListed /\ Undisturbed /\ ToldIsBaseline
  BY DEF ProcInv
<1>2. PICK p \in pids :
        \/ ~Running(p) /\ Record(p, NoState) /\ unread' = unread
        \/ Running(p) /\ Record(p, NoState) /\ unread' = unread \cup {p}
        \/ Running(p) /\ Confirmed(p) /\ Record(p, Known(p)) /\ unread' = unread
        \/ /\ Running(p) /\ ~Confirmed(p)
           /\ procPc' = "cmdline" /\ entry' = p
           /\ reading' = [NoState EXCEPT !.start = procs[p].start]
           /\ UNCHANGED <<pids, procSnapshot, unread>>
  BY DEF ReadStat
<1>3. procPc = "stat" /\ Reading /\ p \in Pid /\ obscured' = obscured
  BY <1>1 DEF ReadStat, ProcTypes
<1>4. NoState \in ProcState /\ NoState.start = 0 /\ ~NoState.settled
      /\ NoState.cmdline = "none" /\ NoState.exe = "none"
  BY DEF NoState, ProcState, Shows
<1>5. procs[p] \in Proc /\ procs[p].start \in Nat /\ starts \in Nat /\ procs[p].start <= starts
  BY <1>1, <1>3 DEF ProcTypes, Proc
<1> DEFINE Still == \A x : /\ ImageOK(x, p) => ImageOK(x, p)'
                           /\ Matches(x, p) => Matches(x, p)'
<1>21. Still
  <2>1. UNCHANGED hostVars /\ late' = late
    BY <1>3 DEF Reading
  <2>2. QED
    BY <1>3, <2>1, HostStill
<1>6. CASE ~Running(p) /\ Record(p, NoState) /\ unread' = unread
  <2>1. procs[p].start = 0 /\ ~Living(p)
    BY <1>5, <1>6 DEF Running, Living
  <2>2. StateOK(NoState, p) /\ ImageOK(NoState, p) /\ Matches(NoState, p)
    BY <1>4, <1>5, <2>1 DEF StateOK, ImageOK, Matches
  <2>3. ImageOK(NoState, p)' /\ Matches(NoState, p)'
    BY <1>21, <2>2
  <2>4. QED
    BY <1>3, <1>4, <1>6, <2>2, <2>3, RecordKeeps
<1>22. CASE Running(p) /\ Record(p, NoState) /\ unread' = unread \cup {p}
  <2>1. StateOK(NoState, p) /\ ImageOK(NoState, p)
    BY <1>4, <1>5 DEF StateOK, ImageOK
  <2>2. ImageOK(NoState, p)'
    BY <1>21, <2>1
  <2>3. QED
    BY <1>3, <1>4, <1>22, <2>1, <2>2, RecordKeeps
<1>7. CASE Running(p) /\ Confirmed(p) /\ Record(p, Known(p)) /\ unread' = unread
  <2>1. Known(p) = procBaseline[p] /\ procBaseline[p] \in ProcState
    BY <1>1, <1>3 DEF Known, ProcTypes
  <2>2. procBaseline[p].start = procs[p].start /\ procBaseline[p].settled
    BY <1>7, <2>1 DEF Confirmed
  <2>3. StateOK(procBaseline[p], p) /\ ImageOK(procBaseline[p], p)
    BY <1>1, <1>3 DEF Recorded
  <2>4. Matches(procBaseline[p], p)
    BY <2>2, <2>3 DEF ImageOK, Matches
  <2>5. PICK x : x = procBaseline[p]
    OBVIOUS
  <2>6. ImageOK(x, p)' /\ Matches(x, p)'
    BY <1>21, <2>3, <2>4, <2>5
  <2>7. QED
    BY <1>3, <1>7, <2>1, <2>2, <2>3, <2>5, <2>6, RecordKeeps
<1>8. CASE /\ Running(p) /\ ~Confirmed(p)
           /\ procPc' = "cmdline" /\ entry' = p
           /\ reading' = [NoState EXCEPT !.start = procs[p].start]
           /\ UNCHANGED <<pids, procSnapshot, unread>>
  <2>1. UNCHANGED <<hostVars, late, procBaseline, procTold, procSource, procQuiet, obscured>>
    BY <1>3 DEF Reading, diffVars
  <2>2. /\ procs' = procs /\ starts' = starts
        /\ \A y, q : /\ StateOK(y, q)' <=> StateOK(y, q)
                     /\ ImageOK(y, q) => ImageOK(y, q)'
                     /\ Matches(y, q) => Matches(y, q)'
        /\ \A q : /\ Running(q)' <=> Running(q)
                  /\ Living(q)' => Living(q)
                  /\ Shown(q)' = Shown(q)
    BY <2>1, HostStill
  <2>3. PICK x : x = reading'
    OBVIOUS
  <2>4. x \in ProcState /\ x.start = procs[p].start /\ x.cmdline = "none"
        /\ x.exe = "none" /\ ~x.settled
    BY <1>5, <1>8, <2>3 DEF NoState, ProcState, Shows
  <2>5. StateOK(x, p)
    BY <1>5, <2>4 DEF StateOK
  <2>6. ProcTypes'
    BY <1>1, <1>8, <2>1, <2>2, <2>3, <2>4 DEF ProcTypes
  <2>7. Recorded'
    BY <1>1, <1>3, <1>8, <2>1, <2>2 DEF Recorded, StateOK, ImageOK
  <2>8. EntryRead'
    <3>1. procBaseline[p].start = procs[p].start => ~procBaseline[p].settled
      BY <1>8 DEF Confirmed, Known
    <3>2. QED
      BY <1>3, <1>8, <2>1, <2>2, <2>3, <2>4, <2>5, <3>1 DEF EntryRead, StateOK
  <2>9. StillListed' /\ QuietPassKnowsProcesses' /\ ToldIsBaseline'
    BY <1>1, <1>3, <1>8, <2>1, <2>2 DEF StillListed, QuietPassKnowsProcesses, ToldIsBaseline
  <2>10. Undisturbed'
    BY <1>1, <1>3, <1>8, <2>1, <2>2, <2>3, <2>4 DEF Undisturbed, Matches
  <2>11. QED
    BY <2>6, <2>7, <2>8, <2>9, <2>10 DEF ProcInv
<1>9. QED
  BY <1>2, <1>6, <1>22, <1>7, <1>8

\* The cmdline of the entry, or none though the process shows one.
LEMMA CmdlineKeeps ==
  ASSUME ProcInv, ReadCmdline
  PROVE  ProcInv'
<1>1. ProcTypes /\ Recorded /\ EntryRead /\ StillListed /\ Undisturbed /\ ToldIsBaseline
  BY DEF ProcInv
<1>2. /\ procPc = "cmdline" /\ procPc' = "exe" /\ UNCHANGED <<pids, entry, procSnapshot, unread>>
      /\ \/ /\ reading' = [reading EXCEPT !.cmdline = Shown(entry)]
            /\ obscured' = obscured \ {entry}
         \/ reading' = reading /\ obscured' = obscured \cup {entry}
      /\ UNCHANGED <<hostVars, late, procBaseline, procTold, procSource, procQuiet>>
  BY DEF ReadCmdline, Reading, diffVars
<1>3. PICK e \in Pid : e = entry
  BY <1>1, <1>2 DEF EntryRead, InFiles, ProcTypes
<1>4. /\ procs' = procs /\ starts' = starts
      /\ \A y, q : StateOK(y, q)' <=> StateOK(y, q)
      /\ \A q : (Running(q)' <=> Running(q)) /\ Shown(q)' = Shown(q)
      /\ \A q : q # e => (Living(q)' <=> Living(q))
  BY <1>2, <1>3 DEF hostVars, StateOK, Running, Living, Shown
<1>5. \A y, q : q # e => /\ ImageOK(y, q) => ImageOK(y, q)'
                         /\ Matches(y, q) => Matches(y, q)'
  BY <1>4 DEF ImageOK, Matches
<1>6. /\ e \in pids /\ StateOK(reading, e) /\ reading.exe = "none" /\ ~reading.settled
      /\ Running(e) /\ procBaseline[e].start = procs[e].start =>
           reading.start = procs[e].start /\ ~procBaseline[e].settled
      /\ reading \in ProcState
  BY <1>1, <1>2, <1>3 DEF EntryRead, InFiles, ProcTypes
<1>7. Shown(e) \in Shows /\ (procs[e].image = "kthread" => Shown(e) = "none")
  BY <1>1 DEF ProcTypes, Proc, Shown, Shows
<1>8. PICK x : x = reading'
  OBVIOUS
<1>9. /\ x \in ProcState /\ x.start = reading.start
      /\ x.cmdline = Shown(e) \/ (x.cmdline = reading.cmdline /\ e \in obscured')
      /\ x.exe = reading.exe /\ x.settled = reading.settled
  BY <1>2, <1>3, <1>6, <1>7, <1>8 DEF ProcState
<1>10. StateOK(x, e)
  BY <1>6, <1>7, <1>9 DEF StateOK
<1>11. ProcTypes'
  BY <1>1, <1>2, <1>4, <1>8, <1>9 DEF ProcTypes
<1>12. Recorded'
  <2> SUFFICES ASSUME NEW q \in Pid
               PROVE  ImageOK(procBaseline[q], q)' /\ ImageOK(procSnapshot[q], q)'
    BY <1>1, <1>2, <1>4 DEF Recorded, StateOK
  <2>1. CASE q # e
    BY <1>1, <1>2, <1>5, <2>1 DEF Recorded, ImageOK
  <2>2. CASE q = e
    <3>1. procSnapshot[e] = NoState /\ ~NoState.settled
      BY <1>1, <1>6 DEF Recorded, NoState
    <3>2. Living(e)' => Running(e)
      BY <1>4 DEF Living
    <3>3. QED
      BY <1>2, <1>4, <1>6, <2>2, <3>1, <3>2 DEF ImageOK
  <2>3. QED
    BY <2>1, <2>2
<1>13. EntryRead'
  <2>1. Living(e)' => e \notin obscured'
    BY DEF Living
  <2>2. InFiles' /\ entry' = e
    BY <1>2, <1>3 DEF InFiles
  <2>3. Living(e)' => x.cmdline = Shown(e)'
    BY <1>4, <1>9, <2>1
  <2>4. StateOK(x, e)'
    BY <1>4, <1>10
  <2>5. QED
    BY <1>2, <1>3, <1>4, <1>6, <1>8, <1>9, <2>2, <2>3, <2>4
       DEF EntryRead, StateOK, Running, Shown, Living
<1>14. StillListed' /\ QuietPassKnowsProcesses' /\ ToldIsBaseline'
  BY <1>1, <1>2, <1>4 DEF StillListed, QuietPassKnowsProcesses, ToldIsBaseline
<1>15. Undisturbed'
  <2> SUFFICES ASSUME procSource, procQuiet
               PROVE  /\ \A q \in Pid : q \notin pids /\ q \notin unread =>
                                          Matches(procSnapshot[q], q)'
                      /\ x.start = procs[e].start
                      /\ x.cmdline = Shown(e) \/ e \in obscured'
    BY <1>2, <1>3, <1>4, <1>8 DEF Undisturbed, Shown, Running
  <2>1. \A q \in Pid : q \notin pids /\ q \notin unread => Matches(procSnapshot[q], q)
    BY <1>1, <1>2 DEF Undisturbed
  <2>2. \A q \in Pid : q \notin pids /\ Matches(procSnapshot[q], q) => Matches(procSnapshot[q], q)'
    BY <1>2, <1>5, <1>6 DEF Matches
  <2>3. reading.start = procs[e].start
    BY <1>1, <1>2, <1>3 DEF Undisturbed, InFiles
  <2>4. QED
    BY <1>9, <2>1, <2>2, <2>3
<1>16. QED
  BY <1>11, <1>12, <1>13, <1>14, <1>15 DEF ProcInv

\* The exe of the entry, or none, completes it: settled if the instance is in the baseline.
LEMMA ExeKeeps ==
  ASSUME ProcInv, ReadExe
  PROVE  ProcInv'
<1>1. ProcTypes /\ Recorded /\ EntryRead /\ Undisturbed
  BY DEF ProcInv
<1>2. procPc = "exe" /\ Reading /\ unread' = unread /\ UNCHANGED hostVars /\ late' = late
  BY DEF ReadExe, Reading
<1>3. PICK e \in Pid : e = entry
  BY <1>1, <1>2 DEF EntryRead, InFiles, ProcTypes
<1>4. PICK exe \in {Shown(e), "none"} :
        /\ Record(e, Read(exe))
        /\ obscured \subseteq obscured' /\ (exe = Shown(e) \/ e \in obscured')
  BY <1>3 DEF ReadExe
<1>5. PICK x : x = Read(exe)
  OBVIOUS
<1>6. /\ e \in pids /\ StateOK(reading, e) /\ reading.exe = "none" /\ ~reading.settled
      /\ Running(e) /\ procBaseline[e].start = procs[e].start =>
           /\ reading.start = procs[e].start
           /\ Living(e) => reading.cmdline = Shown(e)
      /\ reading \in ProcState
  BY <1>1, <1>2, <1>3 DEF EntryRead, InFiles, ProcTypes
<1>7. procBaseline[e] \in ProcState /\ StateOK(procBaseline[e], e)
  BY <1>1 DEF ProcTypes, Recorded
<1>8. /\ exe \in Shows
      /\ procs[e].image = "kthread" => exe = "none"
      /\ Living(e) /\ Shown(e) = "none" => procs[e].image = "kthread"
  BY <1>1 DEF ProcTypes, Proc, Shown, Shows, Living
<1>9. \/ /\ procBaseline[e].start = reading.start
         /\ reading.cmdline = "none" /\ exe = "none"
         /\ x \in ProcState /\ x.start = procBaseline[e].start
         /\ x.cmdline = procBaseline[e].cmdline /\ x.exe = procBaseline[e].exe
      \/ /\ x \in ProcState /\ x.start = reading.start
         /\ x.cmdline = reading.cmdline /\ x.exe = exe
         /\ x.settled = (procBaseline[e].start = reading.start)
  <2>1. CASE procBaseline[e].start = reading.start /\ reading.cmdline = "none" /\ exe = "none"
    <3>1. x = [procBaseline[e] EXCEPT !.settled = TRUE]
      BY <1>3, <1>5, <2>1 DEF Read, Known
    <3>2. QED
      BY <1>7, <2>1, <3>1 DEF ProcState
  <2>2. CASE ~(procBaseline[e].start = reading.start /\ reading.cmdline = "none"
               /\ exe = "none")
    <3>1. x = [reading EXCEPT !.exe = exe, !.settled = (procBaseline[e].start = reading.start)]
      BY <1>3, <1>5, <2>2 DEF Read, Known
    <3>2. QED
      BY <1>6, <1>8, <3>1 DEF ProcState
  <2>3. QED
    BY <2>1, <2>2
<1>10. x \in ProcState /\ x.start = reading.start
       /\ (x.settled => procBaseline[e].start = x.start)
  BY <1>9
<1>11. StateOK(x, e)
  BY <1>6, <1>7, <1>8, <1>9 DEF StateOK
<1>12. /\ procs' = procs /\ Shown(e)' = Shown(e) /\ (Living(e)' => Living(e))
       /\ (Living(e)' => exe = Shown(e))
  <2>1. procs' = procs /\ Shown(e)' = Shown(e) /\ (Living(e)' => Living(e))
    BY <1>2, <1>4, HostStill
  <2>2. QED
    BY <1>4, <2>1 DEF Living
<1>13. ASSUME Living(e)', x.start = procs[e].start, reading.cmdline = Shown(e)
       PROVE  x.cmdline = Shown(e)' /\ x.exe = Shown(e)'
  <2>1. Living(e) /\ exe = Shown(e)
    BY <1>12, <1>13
  <2>2. QED
    BY <1>7, <1>8, <1>9, <1>12, <1>13, <2>1 DEF StateOK
<1>14. ImageOK(x, e)'
  <2> SUFFICES ASSUME x.settled, x.start = procs[e].start, Living(e)'
               PROVE  x.cmdline = Shown(e)' /\ x.exe = Shown(e)'
    BY <1>12 DEF ImageOK
  <2>1. Living(e) /\ Running(e) /\ procBaseline[e].start = procs[e].start
    BY <1>10, <1>12 DEF Living
  <2>2. QED
    BY <1>6, <1>13, <2>1
<1>15. ASSUME procSource, procQuiet PROVE Matches(x, e)'
  <2>1. reading.start = procs[e].start /\ (reading.cmdline = Shown(e) \/ e \in obscured)
    BY <1>1, <1>2, <1>3, <1>15 DEF Undisturbed, InFiles
  <2>2. Living(e)' => reading.cmdline = Shown(e)
    BY <1>12, <2>1 DEF Living
  <2>3. QED
    BY <1>10, <1>12, <1>13, <2>1, <2>2 DEF Matches
<1>16. Record(e, x)
  BY <1>4, <1>5
<1>17. QED
  BY <1>2, <1>4, <1>16, <1>6, <1>10, <1>11, <1>14, <1>15, RecordKeeps

\* What a reader of a diff believes of p is what the new snapshot holds.
LEMMA DiffIsRead ==
  ASSUME NEW old \in [Pid -> ProcState], NEW new \in [Pid -> ProcState], NEW p \in Pid,
         SameReport(procTold[p], old[p])
  PROVE  SameReport(ToldBy(Diff(old, new), p), new[p])
<1> DEFINE es == Diff(old, new)
           started == {e \in es : e.pid = p /\ e.action = "started"}
           stopped == {e \in es : e.pid = p /\ e.action = "stopped"}
           it == ProcEvent(p, "started", new[p])
           changed == old[p].start # new[p].start \/ ~SameImage(old[p], new[p])
<1>1. old[p].start \in Nat /\ new[p].start \in Nat
  BY DEF ProcState
<1>2. it.pid = p /\ it.action = "started" /\ SameReport(it, new[p])
  BY DEF ProcEvent, SameReport
<1>3. \A e \in started : e = it /\ new[p].start > 0 /\ changed
  BY DEF Diff, Listed, ProcEvent
<1>4. new[p].start > 0 /\ changed => it \in started
  BY <1>2 DEF Diff, Listed
<1>5. stopped # {} <=> old[p].start > 0 /\ old[p].start # new[p].start
  <2>1. \A e \in stopped : old[p].start > 0 /\ old[p].start # new[p].start
    BY DEF Diff, Listed, ProcEvent
  <2>2. old[p].start > 0 /\ old[p].start # new[p].start =>
          ProcEvent(p, "stopped", old[p]) \in stopped
    BY DEF Diff, Listed, ProcEvent
  <2>3. QED
    BY <2>1, <2>2
<1>6. ToldBy(es, p) =
        IF started # {}
        THEN LET e == CHOOSE e \in started : TRUE
             IN  [NoState EXCEPT !.start = e.start, !.cmdline = e.cmdline, !.exe = e.exe]
        ELSE IF stopped # {} THEN NoState ELSE procTold[p]
  BY DEF ToldBy
<1> HIDE DEF started, stopped, es, it
<1>7. CASE started # {}
  <2>1. (CHOOSE e \in started : TRUE) = it
    BY <1>3, <1>7
  <2>2. ToldBy(es, p) = [NoState EXCEPT !.start = it.start, !.cmdline = it.cmdline,
                                        !.exe = it.exe]
    BY <1>6, <1>7, <2>1
  <2>3. SameReport(ToldBy(es, p), it)
    BY <2>2 DEF SameReport, NoState
  <2>4. QED
    BY <1>2, <2>3 DEF SameReport, es
<1>8. CASE started = {} /\ stopped # {}
  <2>1. new[p].start = 0
    BY <1>1, <1>4, <1>5, <1>8
  <2>2. QED
    BY <1>6, <1>8, <2>1 DEF SameReport, NoState, es
<1>9. CASE started = {} /\ stopped = {}
  <2>1. old[p].start = new[p].start
    BY <1>1, <1>4, <1>5, <1>9
  <2>2. CASE new[p].start > 0
    <3>1. SameImage(old[p], new[p])
      BY <1>4, <1>9, <2>2
    <3>2. QED
      BY <1>6, <1>9, <2>1, <3>1 DEF SameReport, SameImage, es
  <2>3. CASE new[p].start = 0
    BY <1>6, <1>9, <2>1, <2>3 DEF SameReport, es
  <2>4. QED
    BY <1>1, <2>2, <2>3
<1>10. QED
  BY <1>7, <1>8, <1>9

\* The end of a pass: its snapshot is the baseline, and what the events say.
LEMMA PassKeeps ==
  ASSUME ProcInv, PassDone
  PROVE  ProcInv'
<1>1. ProcTypes /\ Recorded /\ Undisturbed /\ ToldIsBaseline
  BY DEF ProcInv
<1>2. /\ procPc = "stat" /\ procPc' = "idle" /\ procSnapshot' = [p \in Pid |-> NoState]
      /\ procBaseline' = procSnapshot
      /\ procTold' = IF procSeeded
           THEN [p \in Pid |-> ToldBy(Diff(procBaseline, procSnapshot), p)]
           ELSE [p \in Pid |-> [procSnapshot[p] EXCEPT !.settled = FALSE]]
      /\ UNCHANGED <<hostVars, late, pids, reading, procSource, procQuiet, unread, obscured>>
  BY DEF PassDone
<1>3. /\ procs' = procs /\ starts' = starts
      /\ \A x, p : /\ StateOK(x, p)' <=> StateOK(x, p)
                   /\ ImageOK(x, p) => ImageOK(x, p)'
                   /\ Matches(x, p) => Matches(x, p)'
      /\ \A p : /\ Running(p)' <=> Running(p)
                /\ Living(p)' => Living(p)
                /\ Shown(p)' = Shown(p)
  BY <1>2, HostStill
<1>4. NoState \in ProcState /\ NoState.start = 0 /\ ~NoState.settled
      /\ NoState.cmdline = "none" /\ NoState.exe = "none" /\ starts \in Nat
  BY <1>1 DEF NoState, ProcState, Shows, ProcTypes
<1>5. ProcTypes'
  BY <1>1, <1>2, <1>3, <1>4 DEF ProcTypes
<1>6. Recorded'
  <2> SUFFICES ASSUME NEW p \in Pid
               PROVE  /\ StateOK(procBaseline[p], p)' /\ ImageOK(procBaseline[p], p)'
                      /\ StateOK(procSnapshot[p], p)' /\ ImageOK(procSnapshot[p], p)'
                      /\ procSnapshot'[p] = NoState
                      /\ ~procSnapshot'[p].settled
    BY <1>2 DEF Recorded
  <2>1. procSnapshot'[p] = NoState /\ procBaseline'[p] = procSnapshot[p]
    BY <1>2
  <2>2. StateOK(procSnapshot[p], p) /\ ImageOK(procSnapshot[p], p)
        /\ StateOK(NoState, p) /\ ImageOK(NoState, p)
    BY <1>1, <1>4 DEF Recorded, StateOK, ImageOK
  <2>3. QED
    BY <1>3, <1>4, <2>1, <2>2 DEF StateOK, ImageOK
<1>7. EntryRead' /\ StillListed' /\ Undisturbed'
  BY <1>2 DEF EntryRead, InFiles, StillListed, Undisturbed
<1>8. ToldIsBaseline'
  <2> SUFFICES ASSUME NEW p \in Pid PROVE SameReport(procTold'[p], procSnapshot[p])
    BY <1>2 DEF ToldIsBaseline, SameReport
  <2>1. procSnapshot[p] \in ProcState
    BY <1>1 DEF ProcTypes
  <2>2. CASE procSeeded
    <3>1. procTold'[p] = ToldBy(Diff(procBaseline, procSnapshot), p)
      BY <1>2, <2>2
    <3>2. SameReport(procTold[p], procBaseline[p])
      BY <1>1 DEF ToldIsBaseline
    <3>3. procBaseline \in [Pid -> ProcState] /\ procSnapshot \in [Pid -> ProcState]
      BY <1>1 DEF ProcTypes
    <3>4. QED
      BY <3>1, <3>2, <3>3, DiffIsRead
  <2>3. CASE ~procSeeded
    <3>1. procTold'[p] = [procSnapshot[p] EXCEPT !.settled = FALSE]
      BY <1>2, <2>3
    <3>2. QED
      BY <2>1, <3>1 DEF SameReport, ProcState
  <2>4. QED
    BY <2>2, <2>3
<1>9. QuietPassKnowsProcesses'
  <2> SUFFICES ASSUME procQuiet, procSource, pids = {}, NEW p \in Pid
               PROVE  /\ procTold'[p].start = IF p \in unread THEN 0 ELSE procs[p].start
                      /\ p \notin unread /\ Living(p) =>
                           procTold'[p].cmdline = Shown(p) /\ procTold'[p].exe = Shown(p)
    BY <1>2, <1>3 DEF QuietPassKnowsProcesses, Living, Running, Shown
  <2>1. IF p \in unread THEN procSnapshot[p] = NoState ELSE Matches(procSnapshot[p], p)
    BY <1>1, <1>2 DEF Undisturbed, Recorded
  <2>2. SameReport(procTold'[p], procSnapshot[p])
    BY <1>2, <1>8 DEF ToldIsBaseline, SameReport
  <2>3. QED
    BY <1>4, <2>1, <2>2 DEF Matches, SameReport, Living, Running
<1>10. QED
  BY <1>5, <1>6, <1>7, <1>8, <1>9 DEF ProcInv

\* A process of the baseline that the complete pass did not find, and whose stat did not
\* fail, has gone.
LEMMA StoppedHasGone ==
  ASSUME ProcInv, PassDone, procSource, pids = {},
         NEW e \in procEvents', e.action = "stopped", e.pid \notin unread
  PROVE  procs[e.pid].start # e.start
<1>1. procPc = "stat" /\ procEvents' = IF procSeeded THEN Diff(procBaseline, procSnapshot) ELSE {}
  BY DEF PassDone
<1>2. PICK p \in Pid : /\ e = ProcEvent(p, "stopped", procBaseline[p])
                       /\ procBaseline[p].start > 0
                       /\ procBaseline[p].start # procSnapshot[p].start
  BY <1>1 DEF Diff, ProcEvent, Listed
<1>3. e.pid = p /\ e.start = procBaseline[p].start
  BY <1>2 DEF ProcEvent
<1>4. Running(p) /\ procBaseline[p].start = procs[p].start =>
        procSnapshot[p].start = procs[p].start
  BY <1>1, <1>3 DEF ProcInv, StillListed
<1>5. QED
  BY <1>2, <1>3, <1>4 DEF Running

\* Every step keeps the process collector's invariant.
LEMMA ProcNext == ProcInv /\ [CollectorsNext]_allVars => ProcInv'
<1> SUFFICES ASSUME ProcInv, [CollectorsNext]_allVars PROVE ProcInv'
  OBVIOUS
<1>1. CASE Next
  BY <1>1, HostSteps, ListKeeps, StatKeeps, CmdlineKeeps, ExeKeeps, PassKeeps DEF Next, Scan
<1>2. CASE UNCHANGED vars
  <2>1. /\ UNCHANGED <<hostVars, late>>
        /\ UNCHANGED <<procPc, pids, entry, reading, procSnapshot, procBaseline, procTold,
                       procSource, procQuiet, unread, obscured>>
    BY <1>2 DEF vars, passVars, diffVars
  <2>2. QED
    BY <2>1 DEF ProcInv, ProcTypes, Recorded, EntryRead, InFiles, StillListed, Undisturbed,
       ToldIsBaseline, QuietPassKnowsProcesses, StateOK, ImageOK, Matches, Living, Running,
       Shown, SameReport, hostVars
<1>3. QED
  BY <1>1, <1>2 DEF CollectorsNext, ProcessSteps, NetworkSteps, IntegritySteps, allVars

\* After a pass during which nothing happened the events describe the process table, those
\* processes apart whose stat failed and those images that could not be read, whatever the
\* pids, the images and max_procs.
THEOREM ProcessesKnown == Collectors => []QuietPassKnowsProcesses
<1>1. CollectorsInit => ProcInv
  BY ProcInitially DEF CollectorsInit
<1>2. ProcInv => QuietPassKnowsProcesses
  BY DEF ProcInv
<1>3. QED
  BY <1>1, <1>2, ProcNext, PTL DEF Collectors

\* A stop event means that the process left the process table, that its stat or the listing
\* of /proc could not be read or that the pass was cut at max_procs.
THEOREM StopsAreTrue == Collectors => StoppedMeansGone
<1>1. CollectorsInit => ProcInv
  BY ProcInitially DEF CollectorsInit
<1>2. ProcInv /\ [CollectorsNext]_allVars =>
        [procPc = "stat" /\ procPc' = "idle" =>
           \A e \in procEvents' : e.action = "stopped" =>
             procs[e.pid].start # e.start \/ ~procSource \/ pids # {} \/ e.pid \in unread]_vars
  <2> SUFFICES ASSUME ProcInv, [CollectorsNext]_allVars,
                      procPc = "stat", procPc' = "idle",
                      NEW e \in procEvents', e.action = "stopped", procSource, pids = {},
                      e.pid \notin unread
               PROVE  procs[e.pid].start # e.start
    OBVIOUS
  <2>1. Next
    BY DEF CollectorsNext, ProcessSteps, NetworkSteps, IntegritySteps, allVars, vars, passVars
  <2>2. PassDone
    BY <2>1 DEF Next, Host, Fork, Exec, Exit, Reap, ProcChanges, HostStep, passVars, Scan,
       ListPids, ReadStat, Record, ReadCmdline, ReadExe
  <2>3. QED
    BY <2>2, StoppedHasGone
<1>3. QED
  BY <1>1, <1>2, ProcNext, PTL DEF Collectors, StoppedMeansGone

(***************************************************************************)
(* The network collector.  A socket is known by its inode, and an inode is  *)
(* never used again: a row once read is still true of its socket, or the    *)
(* socket has begun to close (RowOK).  So the rows of two passes agree, and *)
(* the events so far say what the baseline holds.                           *)
(***************************************************************************)

Live == {"LISTEN", "ESTABLISHED"}
Sock == [table : Network!Table, port : Ports \cup {0}, own : BOOLEAN,
         state : Live \cup {"CLOSE_WAIT", "closed"}]
Row == [table : Network!Table, port : Ports \cup {0}, state : Live, inode : Network!Inode]

NetTypes ==
  /\ socks \in [Network!Inode -> Sock] /\ opened \in Nat
  /\ \A i \in Network!Inode : socks[i].state # "closed" => i <= opened
  /\ maxSockets \in Nat /\ tracked \subseteq Live /\ readable \subseteq Network!Table
  /\ netPc \in {"idle", "tcp", "tcp6"}

\* The row r is what its socket shows.
Current(r) ==
  LET sock == socks[r.inode] IN sock.table = r.table /\ sock.port = r.port /\ sock.state = r.state

\* The row r was read of a socket that has not been replaced.
RowOK(r) ==
  /\ r \in Row /\ r.inode <= opened
  /\ Current(r) \/ socks[r.inode].state \notin Live

NetRecorded ==
  /\ \A r \in netBaseline \cup rows : RowOK(r)
  /\ IsFiniteSet(rows)
  /\ \A o \in netBaseline, r \in rows : o.inode = r.inode => o = r
  /\ \A i \in own : /\ i \in Network!Inode /\ i <= opened
                    /\ socks[i].own \/ socks[i].state = "closed"
  /\ netTold = netBaseline

\* A socket of the baseline that is still open is read again from the first table.
NetStillListed ==
  netPc = "tcp6" =>
    /\ found \subseteq {"tcp"}
    /\ \A r \in rows : r.table = "tcp"
    /\ "tcp" \in found =>
         \A o \in netBaseline :
           o.table = "tcp" /\ socks[o.inode].state \in tracked /\ ~socks[o.inode].own =>
             o \in rows

\* The pass in progress, if nothing has happened since it began.
NetUndisturbed ==
  netQuiet =>
    /\ netPc # "idle" => own = Network!InodesOf({TRUE})
    /\ netPc = "tcp6" => rows = Network!Taken("tcp")

NetInv ==
  /\ NetTypes /\ NetRecorded /\ NetStillListed /\ NetUndisturbed
  /\ QuietPassKnowsSockets

\* At first there is no socket.
LEMMA NetInitially == Network!Init => NetInv
<1> SUFFICES ASSUME Network!Init PROVE NetInv
  OBVIOUS
<1>1. Network!NoSocket \in Sock /\ Network!NoSocket.state = "closed"
  BY DEF Network!NoSocket, Sock, Network!Table
<1>2. NetTypes
  BY <1>1, SocketAssumption DEF Network!Init, NetTypes, Live
<1>3. NetRecorded /\ NetStillListed /\ NetUndisturbed /\ QuietPassKnowsSockets
  BY FS_EmptySet DEF Network!Init, NetRecorded, NetStillListed, NetUndisturbed,
         QuietPassKnowsSockets,
     Network!QuietPassKnowsSockets
<1>4. QED
  BY <1>2, <1>3 DEF NetInv

\* What a pass takes of a table: the tracked sockets there that are not Sentinel's.
LEMMA TakenRows ==
  ASSUME NetTypes, NEW t \in Network!Table
  PROVE  /\ \A r \in Network!Taken(t) : /\ RowOK(r) /\ Current(r)
                                        /\ r.table = t /\ t \in readable
                                        /\ r.state \in tracked /\ r.inode \notin own
         /\ \A r \in Row : /\ Current(r) /\ r.table = t /\ t \in readable
                           /\ r.state \in tracked /\ r.inode \notin own
                           => r \in Network!Taken(t)
<1>1. \A i \in Network!Inode : socks[i] \in Sock
  BY DEF NetTypes
<1>2. ASSUME NEW r \in Network!Taken(t)
      PROVE  /\ RowOK(r) /\ Current(r) /\ r.table = t /\ t \in readable
             /\ r.state \in tracked /\ r.inode \notin own
  <2>1. PICK i \in Network!InodesOf(BOOLEAN) :
          /\ socks[i].table = t
          /\ r = [table |-> t, port |-> socks[i].port, state |-> socks[i].state, inode |-> i]
    BY <1>2 DEF Network!Taken, Network!TableRows
  <2>2. t \in readable /\ r.state \in tracked /\ r.inode \notin own
    BY <1>2 DEF Network!Taken, Network!OwnRow
  <2>3. i \in Network!Inode /\ socks[i].state # "closed"
    BY DEF Network!InodesOf
  <2>4. r.table = t /\ r.port = socks[i].port /\ r.state = socks[i].state /\ r.inode = i
    BY <2>1
  <2>5. r \in Row
    BY <1>1, <2>1, <2>2, <2>3, <2>4 DEF NetTypes, Row, Sock
  <2>6. i <= opened
    BY <2>3 DEF NetTypes
  <2>7. QED
    BY <2>1, <2>2, <2>4, <2>5, <2>6 DEF RowOK, Current
<1>3. ASSUME NEW r \in Row, Current(r), r.table = t, t \in readable, r.state \in tracked,
             r.inode \notin own
      PROVE  r \in Network!Taken(t)
  <2>1. PICK i \in Network!Inode : i = r.inode
    BY DEF Row
  <2>2. socks[i].table = t /\ socks[i].port = r.port /\ socks[i].state = r.state
        /\ socks[i].state # "closed" /\ socks[i].own \in BOOLEAN
    BY <1>1, <1>3, <2>1 DEF Current, Row, Sock, Live
  <2>3. r = [table |-> t, port |-> socks[i].port, state |-> socks[i].state, inode |-> i]
    BY <1>3, <2>1, <2>2 DEF Row
  <2>4. i \in Network!InodesOf(BOOLEAN)
    BY <2>2 DEF Network!InodesOf
  <2>5. r \in Network!TableRows(t)
    BY <2>2, <2>3, <2>4 DEF Network!TableRows
  <2>6. QED
    BY <1>3, <2>5 DEF Network!Taken, Network!OwnRow
<1>4. QED
  BY <1>2, <1>3

\* Something happens to the sockets: each keeps its state, begins to close or is gone.
LEMMA NetHostKeeps ==
  ASSUME NetInv, Network!NetStep, NetTypes', opened' >= opened,
         \A i \in Network!Inode : i <= opened =>
           \/ socks'[i] = socks[i]
           \/ socks'[i].state = "closed"
           \/ /\ socks[i].state # "closed" /\ socks'[i].state \notin Live
              /\ socks'[i].own = socks[i].own
  PROVE  NetInv'
<1>1. NetTypes /\ NetRecorded /\ NetStillListed
  BY DEF NetInv
<1>2. /\ netQuiet' = FALSE
      /\ UNCHANGED <<tracked, netPc, own, rows, found, netBaseline, netTold>>
  BY DEF Network!NetStep, Network!netDiff
<1>3. opened \in Nat /\ opened' \in Nat /\ Network!Inode \subseteq Nat /\ tracked \subseteq Live
  BY <1>1 DEF NetTypes, Network!Inode
<1>4. ASSUME NEW r, RowOK(r) PROVE RowOK(r)'
  <2>1. r \in Row /\ r.inode \in Network!Inode /\ r.inode <= opened
        /\ (Current(r) \/ socks[r.inode].state \notin Live)
    BY <1>4 DEF RowOK, Row
  <2>2. r.inode <= opened'
    <3>1. PICK n \in Nat : n = r.inode /\ n <= opened
      BY <1>3, <2>1
    <3>2. n <= opened'
      BY <1>3, <3>1
    <3>3. QED
      BY <3>1, <3>2
  <2>3. socks'[r.inode] = socks[r.inode] \/ socks'[r.inode].state \notin Live
    BY <2>1 DEF Live
  <2>4. QED
    BY <2>1, <2>2, <2>3 DEF RowOK, Current
<1>5. NetRecorded'
  <2>1. \A i \in own : /\ i \in Network!Inode /\ i <= opened'
                       /\ socks'[i].own \/ socks'[i].state = "closed"
    <3> TAKE i \in own
    <3>1. i \in Network!Inode /\ i <= opened /\ (socks[i].own \/ socks[i].state = "closed")
      BY <1>1 DEF NetRecorded
    <3>2. PICK n \in Nat : n = i /\ n <= opened
      BY <1>3, <3>1 DEF Network!Inode
    <3>3. n <= opened'
      BY <1>3, <3>2
    <3>4. QED
      BY <1>3, <3>1, <3>2, <3>3
  <2>2. QED
    BY <1>1, <1>2, <1>4, <2>1 DEF NetRecorded
<1>6. NetStillListed'
  <2> SUFFICES ASSUME netPc = "tcp6", "tcp" \in found, NEW o \in netBaseline, o.table = "tcp",
                      socks'[o.inode].state \in tracked, ~socks'[o.inode].own
               PROVE  o \in rows
    BY <1>1, <1>2 DEF NetStillListed
  <2>1. o.inode \in Network!Inode /\ o.inode <= opened
    BY <1>1 DEF NetRecorded, RowOK, Row
  <2>2. socks'[o.inode] = socks[o.inode]
    BY <1>3, <2>1 DEF Live
  <2>3. QED
    BY <1>1, <2>2 DEF NetStillListed
<1>7. NetUndisturbed' /\ QuietPassKnowsSockets'
  BY <1>2 DEF NetUndisturbed, QuietPassKnowsSockets, Network!QuietPassKnowsSockets
<1>8. QED
  BY <1>5, <1>6, <1>7 DEF NetInv

\* A socket opened, closing or closed, and a table that comes or goes, are such steps.
LEMMA NetHostSteps ==
  ASSUME NetInv,
         \/ Network!OpenSocket
         \/ \E i \in Network!Inode : Network!BeginClose(i) \/ Network!CloseSocket(i)
         \/ \E t \in Network!Table : Network!TableChanges(t)
  PROVE  NetInv'
<1>1. NetTypes /\ opened \in Nat /\ Network!Inode \subseteq Nat
      /\ socks \in [Network!Inode -> Sock]
  BY DEF NetInv, NetTypes, Network!Inode
<1>2. CASE Network!OpenSocket
  <2>1. PICK s \in Sock : socks' = [socks EXCEPT ![opened + 1] = s]
    <3>1. PICK t \in Network!Table, p \in Ports, s \in Live, o \in BOOLEAN :
            socks' = [socks EXCEPT ![opened + 1] =
                        [table |-> t, port |-> p, state |-> s, own |-> o]]
      BY <1>2 DEF Network!OpenSocket, Live
    <3>2. [table |-> t, port |-> p, state |-> s, own |-> o] \in Sock
      BY DEF Sock
    <3>3. QED
      BY <3>1, <3>2
  <2>2. opened' = opened + 1 /\ readable' = readable /\ Network!NetStep
    BY <1>2 DEF Network!OpenSocket
  <2>3. maxSockets' = maxSockets /\ tracked' = tracked /\ netPc' = netPc
    BY <2>2 DEF Network!NetStep
  <2>4. opened' >= opened /\ opened' \in Nat
        /\ \A i \in Network!Inode : i <= opened => i # opened + 1 /\ i <= opened'
    BY <1>1, <2>2
  <2>5. \A i \in Network!Inode : i <= opened => socks'[i] = socks[i]
    BY <1>1, <2>1, <2>4
  <2>6. NetTypes'
    <3>1. socks' \in [Network!Inode -> Sock]
      BY <1>1, <2>1
    <3>2. ASSUME NEW i \in Network!Inode, socks'[i].state # "closed" PROVE i <= opened'
      <4>1. CASE i = opened + 1
        BY <1>1, <2>2, <4>1
      <4>2. CASE i # opened + 1
        <5>1. socks'[i] = socks[i]
          BY <1>1, <2>1, <4>2
        <5>2. QED
          BY <1>1, <2>4, <3>2, <5>1 DEF NetTypes
      <4>3. QED
        BY <4>1, <4>2
    <3>3. QED
      BY <1>1, <2>2, <2>3, <2>4, <3>1, <3>2 DEF NetTypes
  <2>7. QED
    BY <2>2, <2>4, <2>5, <2>6, NetHostKeeps
<1>3. ASSUME NEW j \in Network!Inode, Network!BeginClose(j) \/ Network!CloseSocket(j)
      PROVE  NetInv'
  <2>1. PICK s \in Sock : /\ socks' = [socks EXCEPT ![j] = s]
                          /\ \/ s.state = "closed"
                             \/ /\ socks[j].state # "closed" /\ s.state \notin Live
                                /\ s.own = socks[j].own
    <3>1. CASE Network!BeginClose(j)
      <4> DEFINE s == [socks[j] EXCEPT !.state = "CLOSE_WAIT"]
      <4>1. s \in Sock /\ s.state = "CLOSE_WAIT" /\ s.own = socks[j].own
        BY <1>1 DEF Sock
      <4>2. socks' = [socks EXCEPT ![j] = s] /\ socks[j].state = "ESTABLISHED"
        BY <3>1 DEF Network!BeginClose
      <4> HIDE DEF s
      <4>3. QED
        BY <4>1, <4>2 DEF Live
    <3>2. CASE Network!CloseSocket(j)
      <4>1. Network!NoSocket \in Sock /\ Network!NoSocket.state = "closed"
        BY DEF Network!NoSocket, Sock, Network!Table
      <4>2. QED
        BY <3>2, <4>1 DEF Network!CloseSocket
    <3>3. QED
      BY <1>3, <3>1, <3>2
  <2>2. UNCHANGED <<opened, readable>> /\ Network!NetStep
    BY <1>3 DEF Network!BeginClose, Network!CloseSocket
  <2>3. maxSockets' = maxSockets /\ tracked' = tracked /\ netPc' = netPc
    BY <2>2 DEF Network!NetStep
  <2>4. \A i \in Network!Inode :
          \/ socks'[i] = socks[i]
          \/ socks'[i].state = "closed"
          \/ /\ socks[i].state # "closed" /\ socks'[i].state \notin Live
             /\ socks'[i].own = socks[i].own
    BY <1>1, <2>1
  <2>5. NetTypes' /\ opened' >= opened
    BY <1>1, <2>1, <2>2, <2>3, <2>4 DEF NetTypes
  <2>6. QED
    BY <2>2, <2>4, <2>5, NetHostKeeps
<1>4. ASSUME NEW t \in Network!Table, Network!TableChanges(t) PROVE NetInv'
  <2>1. /\ UNCHANGED <<socks, opened>> /\ Network!NetStep
        /\ readable' \subseteq readable \cup {t}
    BY <1>4 DEF Network!TableChanges
  <2>2. maxSockets' = maxSockets /\ tracked' = tracked /\ netPc' = netPc
    BY <2>1 DEF Network!NetStep
  <2>3. NetTypes' /\ opened' >= opened
    BY <1>1, <2>1, <2>2 DEF NetTypes
  <2>4. QED
    BY <2>1, <2>3, NetHostKeeps
<1>5. QED
  BY <1>2, <1>3, <1>4

\* Rows of different sockets are finitely many.
LEMMA TakenFinite ==
  ASSUME NetTypes, NEW t \in Network!Table
  PROVE  IsFiniteSet(Network!Taken(t))
<1> DEFINE S == Network!Taken(t)
           f == [r \in S |-> r.inode]
<1>1. \A r \in S : r \in Row /\ Current(r)
  BY TakenRows DEF RowOK
<1> HIDE DEF S
<1>2. f \in [S -> Network!Inode]
  BY <1>1 DEF Row
<1>3. ASSUME NEW r \in S, NEW s \in S, f[r] = f[s] PROVE r = s
  <2>1. r.inode = s.inode /\ r \in Row /\ s \in Row
    BY <1>1, <1>3
  <2>2. r.table = s.table /\ r.port = s.port /\ r.state = s.state
    BY <1>1, <2>1 DEF Current
  <2>3. QED
    BY <2>1, <2>2 DEF Row
<1>4. IsFiniteSet(Network!Inode)
  BY SocketAssumption, FS_Interval DEF Network!Inode
<1> HIDE DEF f
<1>5. f \in Injection(S, Network!Inode)
  BY <1>2, <1>3 DEF Injection, IsInjective
<1>6. QED
  BY <1>4, <1>5, FS_Injection DEF S

\* The instance counts as its context does.
LEMMA SameCardinality == \A S : Network!Cardinality(S) = Cardinality(S)
BY DEF Network!Cardinality, Cardinality

\* max_sockets: nothing is cut of rows that fit, and of rows that do not, no listener as
\* long as the listeners fit.
LEMMA KeptRows ==
  ASSUME NEW S, IsFiniteSet(S), maxSockets \in Nat, \A r \in S : r.inode \in Nat
  PROVE  /\ Network!Kept(S) \subseteq S
         /\ Cardinality(S) \in Nat
         /\ Cardinality(S) <= maxSockets => Network!Kept(S) = S
         /\ Cardinality({r \in S : r.state = "LISTEN"}) <= maxSockets =>
              {r \in S : r.state = "LISTEN"} \subseteq Network!Kept(S)
<1> DEFINE L == {r \in S : r.state = "LISTEN"}
<1>1. Cardinality(S) \in Nat /\ Network!Kept(S) \subseteq S
  BY FS_CardinalityType DEF Network!Kept
<1>2. \A r \in S : r \notin Network!Ahead(S, r)
  BY DEF Network!Ahead, Network!Before
<1>3. ASSUME NEW T \in SUBSET S, NEW r \in T, Network!Ahead(S, r) \subseteq T,
             Cardinality(T) <= maxSockets
      PROVE  r \in Network!Kept(S)
  <2>1. IsFiniteSet(T) /\ Cardinality(T) \in Nat
    BY FS_Subset, FS_CardinalityType
  <2>2. Network!Ahead(S, r) \in SUBSET T /\ Network!Ahead(S, r) # T
    BY <1>2, <1>3
  <2>3. /\ Cardinality(Network!Ahead(S, r)) <= Cardinality(T)
        /\ Cardinality(T) # Cardinality(Network!Ahead(S, r))
        /\ IsFiniteSet(Network!Ahead(S, r))
    BY <2>1, <2>2, FS_Subset
  <2>4. Cardinality(Network!Ahead(S, r)) \in Nat
    BY <2>3, FS_CardinalityType
  <2>5. Cardinality(Network!Ahead(S, r)) < maxSockets
    BY <1>3, <2>1, <2>3, <2>4
  <2>6. QED
    BY <1>3, <2>5, SameCardinality DEF Network!Kept
<1>4. ASSUME Cardinality(S) <= maxSockets PROVE Network!Kept(S) = S
  <2>1. \A r \in S : Network!Ahead(S, r) \subseteq S
    BY DEF Network!Ahead
  <2>2. \A r \in S : r \in Network!Kept(S)
    BY <1>3, <1>4, <2>1
  <2>3. QED
    BY <1>1, <2>2
<1>5. ASSUME Cardinality(L) <= maxSockets PROVE L \subseteq Network!Kept(S)
  <2>1. \A r \in L : Network!Ahead(S, r) \subseteq L
    BY DEF Network!Ahead, Network!Before
  <2>2. L \in SUBSET S
    OBVIOUS
  <2> HIDE DEF L
  <2>3. QED
    BY <1>3, <1>5, <2>1, <2>2
<1>6. QED
  BY <1>1, <1>4, <1>5

\* The own inodes of a pass.
LEMMA OwnKeeps ==
  ASSUME NetInv, Network!ReadOwn
  PROVE  NetInv'
<1>1. NetTypes /\ NetRecorded
  BY DEF NetInv
<1>2. /\ netPc' = "tcp"
      /\ \/ own' = Network!InodesOf({TRUE})
         \/ own' = {} /\ netQuiet' = FALSE
      /\ UNCHANGED <<socks, opened, readable, maxSockets, tracked, rows, netBaseline, netTold>>
  BY DEF Network!ReadOwn, Network!netHost
<1>3. NetTypes'
  BY <1>1, <1>2 DEF NetTypes
<1>4. \A i \in Network!InodesOf({TRUE}) : i \in Network!Inode /\ i <= opened /\ socks[i].own
  BY <1>1 DEF Network!InodesOf, NetTypes
<1>5. \A r : RowOK(r)' <=> RowOK(r)
  BY <1>2 DEF RowOK, Current
<1>6. NetRecorded'
  BY <1>1, <1>2, <1>4, <1>5 DEF NetRecorded
<1>7. NetStillListed' /\ QuietPassKnowsSockets'
  BY <1>2 DEF NetStillListed, QuietPassKnowsSockets, Network!QuietPassKnowsSockets
<1>8. NetUndisturbed'
  BY <1>2 DEF NetUndisturbed, Network!InodesOf
<1>9. QED
  BY <1>3, <1>6, <1>7, <1>8 DEF NetInv

\* The first table.
LEMMA TcpKeeps ==
  ASSUME NetInv, Network!ReadTcp
  PROVE  NetInv'
<1>1. NetTypes /\ NetRecorded /\ NetUndisturbed
  BY DEF NetInv
<1>2. /\ netPc = "tcp" /\ netPc' = "tcp6" /\ rows' = Network!Taken("tcp")
      /\ found' = readable \cap {"tcp"}
      /\ UNCHANGED <<socks, opened, readable, maxSockets, tracked, own, netBaseline, netTold,
                     netQuiet>>
  BY DEF Network!ReadTcp, Network!netHost, Network!netDiff
<1>3. "tcp" \in Network!Table
  BY DEF Network!Table
<1>4. /\ \A r \in Network!Taken("tcp") : RowOK(r) /\ Current(r) /\ r.table = "tcp"
      /\ \A r \in Row : /\ Current(r) /\ r.table = "tcp" /\ "tcp" \in readable
                        /\ r.state \in tracked /\ r.inode \notin own
                        => r \in Network!Taken("tcp")
      /\ IsFiniteSet(Network!Taken("tcp"))
  BY <1>1, <1>3, TakenRows, TakenFinite
<1>5. \A r : RowOK(r)' <=> RowOK(r)
  BY <1>2 DEF RowOK, Current
<1>6. NetTypes'
  BY <1>1, <1>2 DEF NetTypes
<1>7. NetRecorded'
  <2>1. ASSUME NEW o \in netBaseline, NEW r \in Network!Taken("tcp"), o.inode = r.inode
        PROVE  o = r
    <3>1. RowOK(o) /\ RowOK(r) /\ Current(r)
      BY <1>1, <1>4 DEF NetRecorded
    <3>2. o \in Row /\ r \in Row /\ socks[o.inode].state \in Live
      BY <2>1, <3>1 DEF RowOK, Current, Row
    <3>3. o.table = r.table /\ o.port = r.port /\ o.state = r.state
      BY <2>1, <3>1, <3>2 DEF RowOK, Current
    <3>4. QED
      BY <2>1, <3>2, <3>3 DEF Row
  <2>2. QED
    BY <1>1, <1>2, <1>4, <1>5, <2>1 DEF NetRecorded
<1>8. NetStillListed'
  <2>1. ASSUME "tcp" \in readable, NEW o \in netBaseline, o.table = "tcp",
               socks[o.inode].state \in tracked, ~socks[o.inode].own
        PROVE  o \in Network!Taken("tcp")
    <3>1. RowOK(o) /\ socks[o.inode].state \in Live /\ socks[o.inode].state # "closed"
      BY <1>1, <2>1 DEF NetRecorded, NetTypes, Live
    <3>2. o \in Row /\ Current(o) /\ o.state \in tracked
      BY <2>1, <3>1 DEF RowOK, Current
    <3>3. o.inode \notin own
      BY <1>1, <2>1, <3>1 DEF NetRecorded
    <3>4. QED
      BY <1>4, <2>1, <3>2, <3>3
  <2>2. QED
    BY <1>2, <1>4, <2>1 DEF NetStillListed
<1>9. NetUndisturbed'
  <2>1. \A T : Network!InodesOf(T)' = Network!InodesOf(T)
    BY <1>2 DEF Network!InodesOf
  <2>2. Network!TableRows("tcp")' = Network!TableRows("tcp")
    BY <1>2, <2>1 DEF Network!TableRows
  <2>3. Network!Taken("tcp")' = Network!Taken("tcp")
    BY <1>2, <2>2 DEF Network!Taken, Network!OwnRow
  <2>4. QED
    BY <1>1, <1>2, <2>1, <2>3 DEF NetUndisturbed
<1>10. QuietPassKnowsSockets'
  BY <1>2 DEF QuietPassKnowsSockets, Network!QuietPassKnowsSockets
<1>11. QED
  BY <1>6, <1>7, <1>8, <1>9, <1>10 DEF NetInv

\* What a reader of a diff believes to be open is the new snapshot.
LEMMA NetDiffIsRead ==
  ASSUME NEW old, NEW new, \A o \in old, n \in new : o.inode = n.inode => o = n
  PROVE  {r \in old : Network!Event("closed", r) \notin Network!Diff(old, new)}
           \cup {e.row : e \in {e \in Network!Diff(old, new) : e.action = "opened"}} = new
<1> DEFINE D == Network!Diff(old, new)
<1>1. \A r \in old, n \in new : Network!SocketKey(r) = Network!SocketKey(n) => r = n
  <2> SUFFICES ASSUME NEW r \in old, NEW n \in new, Network!SocketKey(r) = Network!SocketKey(n)
               PROVE  r.inode = n.inode
    OBVIOUS
  <2>1. Network!SocketKey(r).inode = r.inode /\ Network!SocketKey(n).inode = n.inode
    BY DEF Network!SocketKey
  <2>2. QED
    BY <2>1
<1>2. \A r \in old : Network!SocketKey(r) \in Network!Keys(new) => r \in new
  BY <1>1 DEF Network!Keys
<1>3. \A r \in new : Network!SocketKey(r) \in Network!Keys(old) => r \in old
  BY <1>1 DEF Network!Keys
<1>4. \A r \in old : Network!SocketKey(r) \in Network!Keys(old)
  BY DEF Network!Keys
<1>5. \A r \in new : Network!SocketKey(r) \in Network!Keys(new)
  BY DEF Network!Keys
<1>6. \A a, r : Network!Event(a, r).action = a /\ Network!Event(a, r).row = r
  BY DEF Network!Event
<1>7. \A r \in old :
        Network!Event("closed", r) \in D <=> Network!SocketKey(r) \notin Network!Keys(new)
  <2> TAKE r \in old
  <2>1. ASSUME Network!Event("closed", r) \in D
        PROVE  Network!SocketKey(r) \notin Network!Keys(new)
    <3>1. PICK s : /\ Network!SocketKey(s) \notin Network!Keys(new)
                   /\ Network!Event("closed", r) = Network!Event("closed", s)
      BY <1>6, <2>1 DEF Network!Diff
    <3>2. r = s
      BY <1>6, <3>1
    <3>3. QED
      BY <3>1, <3>2
  <2>2. QED
    BY <2>1 DEF Network!Diff
<1>8. \A e \in D : e.action = "opened" =>
        e.row \in new /\ Network!SocketKey(e.row) \notin Network!Keys(old)
  BY <1>6 DEF Network!Diff
<1>9. \A r \in new : Network!SocketKey(r) \notin Network!Keys(old) =>
        Network!Event("opened", r) \in D
  BY DEF Network!Diff
<1> HIDE DEF D
<1>10. {r \in old : Network!Event("closed", r) \notin D}
         \cup {e.row : e \in {e \in D : e.action = "opened"}} = new
  BY <1>2, <1>3, <1>4, <1>5, <1>6, <1>7, <1>8, <1>9
<1>11. QED
  BY <1>10 DEF D

\* The own inodes being known, the two tables give what is to be reported.
LEMMA TablesAreVisible ==
  ASSUME NetTypes, own = Network!InodesOf({TRUE})
  PROVE  Network!Taken("tcp") \cup Network!Taken("tcp6") = Network!Visible
<1>1. \A t : \A r \in Network!TableRows(t) : r.inode \in own <=> socks[r.inode].own
  <2> SUFFICES ASSUME NEW t, NEW r \in Network!TableRows(t)
               PROVE  r.inode \in own <=> socks[r.inode].own
    OBVIOUS
  <2>1. PICK i \in Network!InodesOf(BOOLEAN) : r.inode = i
    BY DEF Network!TableRows
  <2>2. i \in Network!Inode /\ socks[i].state # "closed" /\ socks[i].own \in BOOLEAN
    BY DEF Network!InodesOf
  <2>3. i \in own <=> socks[i].own
    BY <2>2 DEF Network!InodesOf
  <2>4. QED
    BY <2>1, <2>3
<1>2. readable \subseteq {"tcp", "tcp6"}
  BY DEF NetTypes, Network!Table
<1>3. QED
  BY <1>1, <1>2 DEF Network!Taken, Network!OwnRow, Network!Visible

\* The second table completes the pass.
LEMMA Tcp6Shape ==
  ASSUME NetInv, Network!ReadTcp6
  PROVE  \E all :
           /\ all = rows \cup Network!Taken("tcp6") /\ IsFiniteSet(all)
           /\ \A r \in all : RowOK(r)
           /\ \A o \in netBaseline, n \in all : o.inode = n.inode => o = n
           /\ netBaseline' = Network!Kept(all) /\ netTold' = Network!Kept(all)
           /\ netEvents' = IF netSeeded THEN Network!Diff(netBaseline, Network!Kept(all)) ELSE {}
           /\ netCut' = (Cardinality(all) > maxSockets)
           /\ Cardinality(all) \in Nat
           /\ Network!Kept(all) \subseteq all
           /\ Cardinality(all) <= maxSockets => Network!Kept(all) = all
           /\ Cardinality({r \in all : r.state = "LISTEN"}) <= maxSockets =>
                {r \in all : r.state = "LISTEN"} \subseteq Network!Kept(all)
<1>1. PICK all : all = rows \cup Network!Taken("tcp6")
  OBVIOUS
<1>2. NetTypes /\ NetRecorded /\ "tcp6" \in Network!Table
  BY DEF NetInv, Network!Table
<1>3. /\ \A r \in Network!Taken("tcp6") : RowOK(r) /\ Current(r)
      /\ IsFiniteSet(Network!Taken("tcp6"))
  BY <1>2, TakenRows, TakenFinite
<1>4. IsFiniteSet(all) /\ \A r \in all : RowOK(r)
  BY <1>1, <1>2, <1>3, FS_Union DEF NetRecorded
<1>5. ASSUME NEW o \in netBaseline, NEW n \in all, o.inode = n.inode PROVE o = n
  <2>1. CASE n \in rows
    BY <1>2, <1>5, <2>1 DEF NetRecorded
  <2>2. CASE n \in Network!Taken("tcp6")
    <3>1. RowOK(o) /\ RowOK(n) /\ Current(n)
      BY <1>2, <1>3, <2>2 DEF NetRecorded
    <3>2. o \in Row /\ n \in Row /\ socks[o.inode].state \in Live
      BY <1>5, <3>1 DEF RowOK, Current, Row
    <3>3. o.table = n.table /\ o.port = n.port /\ o.state = n.state
      BY <1>5, <3>1, <3>2 DEF RowOK, Current
    <3>4. QED
      BY <1>5, <3>2, <3>3 DEF Row
  <2>3. QED
    BY <1>1, <2>1, <2>2
<1>6. \A r \in all : r.inode \in Nat
  BY <1>4 DEF RowOK, Row, Network!Inode
<1>7. maxSockets \in Nat
  BY <1>2 DEF NetTypes
<1>8. /\ Network!Kept(all) \subseteq all
      /\ Cardinality(all) \in Nat
      /\ Cardinality(all) <= maxSockets => Network!Kept(all) = all
      /\ Cardinality({r \in all : r.state = "LISTEN"}) <= maxSockets =>
           {r \in all : r.state = "LISTEN"} \subseteq Network!Kept(all)
  BY <1>4, <1>6, <1>7, KeptRows
<1>9. /\ netBaseline' = Network!Kept(all)
      /\ netEvents' = IF netSeeded THEN Network!Diff(netBaseline, Network!Kept(all)) ELSE {}
      /\ netTold' = IF netSeeded
           THEN {r \in netTold : Network!Event("closed", r) \notin netEvents'}
                \cup {e.row : e \in {e \in netEvents' : e.action = "opened"}}
           ELSE Network!Kept(all)
      /\ netCut' = (Cardinality(all) > maxSockets)
  BY <1>1, SameCardinality DEF Network!ReadTcp6
<1>10. netTold' = Network!Kept(all)
  <2>1. netTold = netBaseline
    BY <1>2 DEF NetRecorded
  <2>2. \A o \in netBaseline, n \in Network!Kept(all) : o.inode = n.inode => o = n
    BY <1>5, <1>8
  <2>3. {r \in netBaseline : Network!Event("closed", r)
                               \notin Network!Diff(netBaseline, Network!Kept(all))}
          \cup {e.row : e \in {e \in Network!Diff(netBaseline, Network!Kept(all)) :
                                 e.action = "opened"}} = Network!Kept(all)
    BY <2>2, NetDiffIsRead
  <2>4. QED
    BY <1>9, <2>1, <2>3
<1>11. QED
  BY <1>1, <1>4, <1>5, <1>8, <1>9, <1>10

\* The snapshot it makes is the baseline, and after a quiet pass what is to be reported.
LEMMA Tcp6Keeps ==
  ASSUME NetInv, Network!ReadTcp6
  PROVE  NetInv'
<1>1. NetTypes /\ NetUndisturbed
  BY DEF NetInv
<1>2. PICK all :
        /\ all = rows \cup Network!Taken("tcp6") /\ IsFiniteSet(all)
        /\ \A r \in all : RowOK(r)
        /\ netBaseline' = Network!Kept(all) /\ netTold' = Network!Kept(all)
        /\ Network!Kept(all) \subseteq all
        /\ Cardinality(all) <= maxSockets => Network!Kept(all) = all
        /\ Cardinality({r \in all : r.state = "LISTEN"}) <= maxSockets =>
             {r \in all : r.state = "LISTEN"} \subseteq Network!Kept(all)
  BY Tcp6Shape
<1>3. /\ netPc = "tcp6" /\ netPc' = "idle" /\ own' = {} /\ rows' = {}
      /\ UNCHANGED <<socks, opened, readable, maxSockets, tracked, netQuiet>>
  BY DEF Network!ReadTcp6, Network!netHost
<1>4. NetTypes'
  BY <1>1, <1>3 DEF NetTypes
<1>5. \A r : RowOK(r)' <=> RowOK(r)
  BY <1>3 DEF RowOK, Current
<1>6. NetRecorded'
  BY <1>2, <1>3, <1>5, FS_EmptySet DEF NetRecorded
<1>7. NetStillListed' /\ NetUndisturbed'
  BY <1>3 DEF NetStillListed, NetUndisturbed
<1>8. QuietPassKnowsSockets'
  <2> SUFFICES ASSUME netQuiet
               PROVE  /\ netTold' \subseteq Network!Visible'
                      /\ Cardinality(Network!Listeners') <= maxSockets =>
                           Network!Listeners' \subseteq netTold'
                      /\ Cardinality(Network!Visible') <= maxSockets =>
                           netTold' = Network!Visible'
    BY <1>3, SameCardinality DEF QuietPassKnowsSockets, Network!QuietPassKnowsSockets
  <2>1. own = Network!InodesOf({TRUE}) /\ rows = Network!Taken("tcp")
    BY <1>1, <1>3 DEF NetUndisturbed
  <2>2. all = Network!Visible
    BY <1>1, <1>2, <2>1, TablesAreVisible
  <2>3. \A T : Network!InodesOf(T)' = Network!InodesOf(T)
    BY <1>3 DEF Network!InodesOf
  <2>4. \A t : Network!TableRows(t)' = Network!TableRows(t)
    BY <1>3, <2>3 DEF Network!TableRows
  <2>5. Network!Visible' = all
    BY <1>3, <2>2, <2>4 DEF Network!Visible
  <2>6. Network!Listeners' = {r \in all : r.state = "LISTEN"}
    BY <2>5 DEF Network!Listeners
  <2>7. QED
    BY <1>2, <2>5, <2>6
<1>9. QED
  BY <1>4, <1>6, <1>7, <1>8 DEF NetInv

\* A socket of the baseline that a pass did not find and cannot excuse has gone.
LEMMA ClosedHasGone ==
  ASSUME NetInv, Network!ReadTcp6, NEW e \in netEvents', e.action = "closed"
  PROVE  LET sock == socks[e.row.inode] IN
         sock.state \notin tracked \/ sock.own \/ sock.table \notin found' \/ netCut'
<1>1. NetTypes /\ NetRecorded /\ NetStillListed
  BY DEF NetInv
<1>2. PICK all :
        /\ all = rows \cup Network!Taken("tcp6")
        /\ netEvents' = IF netSeeded THEN Network!Diff(netBaseline, Network!Kept(all)) ELSE {}
        /\ netCut' = (Cardinality(all) > maxSockets)
        /\ Cardinality(all) \in Nat
        /\ Cardinality(all) <= maxSockets => Network!Kept(all) = all
  BY Tcp6Shape
<1>3. netPc = "tcp6" /\ found' = found \cup (readable \cap {"tcp6"})
  BY DEF Network!ReadTcp6
<1>4. PICK o \in netBaseline :
        /\ Network!SocketKey(o) \notin Network!Keys(Network!Kept(all))
        /\ e.row = o
  BY <1>2 DEF Network!Diff, Network!Event
<1> SUFFICES ASSUME socks[o.inode].state \in tracked, ~socks[o.inode].own,
                    socks[o.inode].table \in found', ~netCut'
             PROVE  FALSE
  BY <1>4
<1>5. o \notin Network!Kept(all)
  BY <1>4 DEF Network!Keys
<1>6. Network!Kept(all) = all
  <2>1. maxSockets \in Nat
    BY <1>1 DEF NetTypes
  <2>2. ~(Cardinality(all) > maxSockets)
    BY <1>2, Zenon
  <2>3. PICK c \in Nat : c = Cardinality(all)
    BY <1>2
  <2>4. ~(c > maxSockets)
    BY <2>2, <2>3
  <2>5. c <= maxSockets
    BY <2>1, <2>4
  <2>6. QED
    BY <1>2, <2>3, <2>5
<1>7. RowOK(o) /\ socks[o.inode].state \in Live /\ socks[o.inode].state # "closed"
  BY <1>1 DEF NetRecorded, NetTypes, Live
<1>8. o \in Row /\ Current(o) /\ o.state \in tracked /\ o.table \in found'
      /\ o.table \in {"tcp", "tcp6"}
  BY <1>7 DEF RowOK, Current, Row, Network!Table
<1>9. o.inode \notin own
  BY <1>1, <1>7 DEF NetRecorded
<1>10. CASE o.table = "tcp"
  <2>1. "tcp" \in found
    BY <1>3, <1>8, <1>10
  <2>2. o \in rows
    BY <1>1, <1>3, <1>10, <2>1 DEF NetStillListed
  <2>3. QED
    BY <1>2, <1>5, <1>6, <2>2
<1>11. CASE o.table = "tcp6"
  <2>1. "tcp6" \in readable
    BY <1>1, <1>3, <1>8, <1>11 DEF NetStillListed
  <2>2. o \in Network!Taken("tcp6")
    BY <1>1, <1>8, <1>9, <1>11, <2>1, TakenRows DEF Network!Table
  <2>3. QED
    BY <1>2, <1>5, <1>6, <2>2
<1>12. QED
  BY <1>8, <1>10, <1>11

\* Every step keeps the network collector's invariant.
LEMMA NetNext == NetInv /\ [CollectorsNext]_allVars => NetInv'
<1> SUFFICES ASSUME NetInv, [CollectorsNext]_allVars PROVE NetInv'
  OBVIOUS
<1>1. CASE Network!Next
  BY <1>1, NetHostSteps, OwnKeeps, TcpKeeps, Tcp6Keeps DEF Network!Next, Network!Scan
<1>2. CASE UNCHANGED netVars
  <2>1. \A r : RowOK(r)' <=> RowOK(r)
    BY <1>2 DEF RowOK, Current, netVars
  <2>2. \A T : Network!InodesOf(T)' = Network!InodesOf(T)
    BY <1>2 DEF Network!InodesOf, netVars
  <2>3. \A t : Network!TableRows(t)' = Network!TableRows(t)
    BY <1>2, <2>2 DEF Network!TableRows, netVars
  <2>4. Network!Taken("tcp")' = Network!Taken("tcp")
    BY <1>2, <2>3 DEF Network!Taken, Network!OwnRow, netVars
  <2>5. Network!Visible' = Network!Visible
    BY <1>2, <2>3 DEF Network!Visible, netVars
  <2>6. Network!Listeners' = Network!Listeners
    BY <2>5 DEF Network!Listeners
  <2>7. QuietPassKnowsSockets'
    BY <1>2, <2>5, <2>6
       DEF NetInv, QuietPassKnowsSockets, Network!QuietPassKnowsSockets, netVars
  <2>8. NetTypes' /\ NetRecorded' /\ NetStillListed' /\ NetUndisturbed'
    BY <1>2, <2>1, <2>2, <2>4
       DEF NetInv, NetTypes, NetRecorded, NetStillListed, NetUndisturbed, netVars
  <2>9. QED
    BY <2>7, <2>8 DEF NetInv
<1>3. QED
  BY <1>1, <1>2 DEF CollectorsNext, ProcessSteps, NetworkSteps, IntegritySteps, allVars

\* After a pass during which nothing happened the events describe the sockets, and no
\* flood of connections hides a listener, whatever max_sockets and the ports.
THEOREM SocketsKnown == Collectors => []QuietPassKnowsSockets
<1>1. CollectorsInit => NetInv
  BY NetInitially DEF CollectorsInit
<1>2. NetInv => QuietPassKnowsSockets
  BY DEF NetInv
<1>3. QED
  BY <1>1, <1>2, NetNext, PTL DEF Collectors

\* A close event means that the socket left its tracked state, that it is Sentinel's own,
\* that its table could not be read or that the pass was cut at max_sockets.
THEOREM ClosesAreTrue == Collectors => ClosedMeansGone
<1>1. CollectorsInit => NetInv
  BY NetInitially DEF CollectorsInit
<1>2. NetInv /\ [CollectorsNext]_allVars =>
        [netPc = "tcp6" /\ netPc' = "idle" =>
           \A e \in netEvents' : e.action = "closed" =>
             LET sock == socks[e.row.inode] IN
             sock.state \notin tracked \/ sock.own \/ sock.table \notin found' \/ netCut'
        ]_(Network!netVars)
  <2> SUFFICES ASSUME NetInv, [CollectorsNext]_allVars,
                      netPc = "tcp6", netPc' = "idle",
                      NEW e \in netEvents', e.action = "closed"
               PROVE  LET sock == socks[e.row.inode] IN
                      sock.state \notin tracked \/ sock.own \/ sock.table \notin found' \/ netCut'
    OBVIOUS
  <2>1. Network!Next
    BY DEF CollectorsNext, ProcessSteps, NetworkSteps, IntegritySteps, allVars, netVars
  <2>2. Network!ReadTcp6
    BY <2>1 DEF Network!Next, Network!OpenSocket, Network!BeginClose, Network!CloseSocket,
       Network!TableChanges, Network!NetStep, Network!Scan, Network!ReadOwn, Network!ReadTcp
  <2>3. QED
    BY <2>2, ClosedHasGone
<1>3. QED
  BY <1>1, <1>2, NetNext, PTL DEF Collectors, ClosedMeansGone, Network!ClosedMeansGone
=============================================================================
