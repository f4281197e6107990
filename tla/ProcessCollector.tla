-------------------------- MODULE ProcessCollector --------------------------
(***************************************************************************)
(* The process collector (collectors/process.py): one pass over /proc, file *)
(* by file in a worker thread, beside processes that fork, exec, exit and   *)
(* are reaped; the settling second read; the diff into start and stop       *)
(* events.  The poll loop around it is Pipeline's Collector.                *)
(*                                                                          *)
(* iterdir() promises no order, so a pass takes the entries as they come.   *)
(* Starttimes are numbered in the order processes start.  An image stands   *)
(* for what cmdline and exe show of it; a kernel thread shows neither.      *)
(***************************************************************************)
EXTENDS Naturals, FiniteSets

CONSTANTS
  Pid,
  ProcLimits,  \* the values of max_procs to try
  MaxStarts,   \* bound: processes ever started
  MaxExecs,    \* bound: execs
  MaxOutages,  \* bound: changes of whether /proc can be listed, and reads that fail
  MaxMisreads  \* bound: of these, reads of a process's files that fail though it runs

ASSUME ProcessAssumption ==
  /\ ProcLimits \subseteq Nat \ {0} /\ MaxStarts \in Nat /\ MaxExecs \in Nat
  /\ MaxOutages \in Nat /\ MaxMisreads \in Nat

NoEntry == "none"
NoProc == [start |-> 0, image |-> "none", zombie |-> FALSE]
NoState == [start |-> 0, cmdline |-> "none", exe |-> "none", settled |-> FALSE]

VARIABLES
  procs,       \* the process table: pid -> process, or NoProc
  procOk,      \* whether /proc can be listed
  starts, execs, outages,
  maxProcs,    \* max_procs
  procPc,      \* "idle", "stat", "cmdline", "exe"
  pids,        \* pids of this pass still to read
  entry,       \* the one whose files are being read
  reading,     \* what it has shown so far
  misreads,
  unread,      \* pids whose stat could not be read in this pass
  obscured,    \* pids whose cmdline or exe could not be read when the image was last looked at
  procSnapshot, procBaseline,
  procSeeded, procSource,   \* _seeded, source_available
  procEvents,  \* the events of the last pass
  procTold,    \* pid -> what the events so far say runs under it
  late,        \* pids whose process exec'd after its second read of the image
  procQuiet    \* whether nothing happened on the host since the last pass began

hostVars == <<procs, procOk, starts, execs, outages, maxProcs>>
passVars == <<procPc, pids, entry, reading, procSnapshot, misreads, unread, obscured>>
diffVars == <<procBaseline, procSeeded, procEvents, procTold>>
vars == <<hostVars, passVars, diffVars, procSource, late, procQuiet>>

Running(p) == procs[p].start > 0
Listed(table) == {p \in Pid : table[p].start > 0}
-----------------------------------------------------------------------------
(* The host. *)

HostStep == procQuiet' = FALSE /\ UNCHANGED <<maxProcs, passVars, diffVars, procSource>>

\* fork: the child shows its parent's image until it execs.
Fork(p) ==
  /\ ~Running(p) /\ starts < MaxStarts
  /\ starts' = starts + 1
  /\ procs' = [procs EXCEPT ![p] = [start |-> starts + 1, image |-> "sh", zombie |-> FALSE]]
  /\ late' = late \ {p}
  /\ UNCHANGED <<procOk, execs, outages>>
  /\ HostStep

\* Has this pass gone too far into p's entry to see a new image whole?
PastImage(p) ==
  procPc # "idle" /\ (p \in pids => procPc = "exe" /\ p = entry)

\* exec in place: the known limitation once the second read has been made.
Exec(p) ==
  /\ Running(p) /\ ~procs[p].zombie /\ procs[p].image = "sh" /\ execs < MaxExecs
  /\ procs' = [procs EXCEPT ![p].image = "ls"]
  /\ execs' = execs + 1
  /\ late' = IF /\ procBaseline[p].start = procs[p].start
                /\ procBaseline[p].settled \/ PastImage(p)
             THEN late \cup {p} ELSE late
  /\ UNCHANGED <<procOk, starts, outages>>
  /\ HostStep

Exit(p) ==
  /\ Running(p) /\ ~procs[p].zombie /\ procs[p].image # "kthread"
  /\ procs' = [procs EXCEPT ![p].zombie = TRUE]
  /\ UNCHANGED <<procOk, starts, execs, outages, late>>
  /\ HostStep

Reap(p) ==
  /\ procs[p].zombie
  /\ procs' = [procs EXCEPT ![p] = NoProc]
  /\ UNCHANGED <<procOk, starts, execs, outages, late>>
  /\ HostStep

ProcChanges ==
  /\ outages + misreads < MaxOutages
  /\ outages' = outages + 1 /\ procOk' = ~procOk
  /\ UNCHANGED <<procs, starts, execs, late>>
  /\ HostStep
-----------------------------------------------------------------------------
(* One pass. *)

Init ==
  /\ \E there \in SUBSET Pid, image \in {"sh", "kthread"} :
       procs = [p \in Pid |-> IF p \in there
                  THEN [start |-> 1, image |-> image, zombie |-> FALSE] ELSE NoProc]
  /\ maxProcs \in ProcLimits
  /\ procOk = TRUE /\ starts = 1 /\ execs = 0 /\ outages = 0
  /\ procPc = "idle" /\ pids = {} /\ entry = NoEntry /\ reading = NoState
  /\ misreads = 0 /\ unread = {} /\ obscured = {}
  /\ procSnapshot = [p \in Pid |-> NoState] /\ procBaseline = procSnapshot
  /\ procSeeded = FALSE /\ procSource = TRUE
  /\ procEvents = {} /\ procTold = procSnapshot
  /\ late = {} /\ procQuiet = FALSE

\* _iter_pids: the listing, or nothing and the source marked as gone.
ListPids ==
  /\ procPc = "idle"
  /\ procPc' = "stat"
  /\ pids' = IF procOk THEN {p \in Pid : Running(p)} ELSE {}
  /\ procSource' = procOk
  /\ procEvents' = {} /\ unread' = {}
  /\ procQuiet' = TRUE
  /\ UNCHANGED <<hostVars, entry, reading, procSnapshot, misreads, obscured, procBaseline,
                 procSeeded, procTold, late>>

Capped == Cardinality(Listed(procSnapshot)) >= maxProcs

\* The entry p is read: on to the next one.
Record(p, state) ==
  /\ procPc' = "stat" /\ pids' = pids \ {p} /\ entry' = NoEntry /\ reading' = NoState
  /\ procSnapshot' = [procSnapshot EXCEPT ![p] = state]

Reading == UNCHANGED <<hostVars, diffVars, procSource, late, procQuiet>>

Known(p) == procBaseline[p]

\* Faulty variant: the first reading of the image is final.
Confirmed_AtOnce(p) == Known(p).start = procs[p].start

\* Seen and confirmed before: only the stat is read.
Confirmed(p) == Known(p).start = procs[p].start /\ Known(p).settled

\* A file of a process that runs cannot be read for the moment, or not by Sentinel.
Misread ==
  /\ misreads < MaxMisreads /\ outages + misreads < MaxOutages
  /\ misreads' = misreads + 1

\* _read_proc, the stat: the process vanished, its stat cannot be read or is malformed, it is
\* known, or it is read further.
ReadStat ==
  /\ procPc = "stat" /\ ~Capped
  /\ \E p \in pids :
       \/ /\ ~Running(p)
          /\ Record(p, NoState) /\ UNCHANGED <<misreads, unread>>
       \/ /\ Running(p) /\ Misread
          /\ Record(p, NoState) /\ unread' = unread \cup {p}
       \/ /\ Running(p) /\ Confirmed(p)
          /\ Record(p, Known(p)) /\ UNCHANGED <<misreads, unread>>
       \/ /\ Running(p) /\ ~Confirmed(p)
          /\ procPc' = "cmdline" /\ entry' = p
          /\ reading' = [NoState EXCEPT !.start = procs[p].start]
          /\ UNCHANGED <<pids, procSnapshot, misreads, unread>>
  /\ UNCHANGED obscured
  /\ Reading

\* What /proc/<pid>/cmdline and exe show who can read them: nothing of a zombie or a kernel
\* thread, the new process if the pid was reused since the stat.
Shown(p) ==
  IF ~Running(p) \/ procs[p].zombie \/ procs[p].image = "kthread" THEN "none"
  ELSE procs[p].image

\* _read_cmdline: what is shown, or nothing if the file cannot be read.
ReadCmdline ==
  /\ procPc = "cmdline"
  /\ procPc' = "exe"
  /\ \/ /\ reading' = [reading EXCEPT !.cmdline = Shown(entry)]
        /\ obscured' = obscured \ {entry} /\ UNCHANGED misreads
     \/ /\ Shown(entry) # "none" /\ Misread
        /\ obscured' = obscured \cup {entry} /\ UNCHANGED reading
  /\ UNCHANGED <<pids, entry, procSnapshot, unread>>
  /\ Reading

\* Faulty variant: an entry that shows no image is taken for a process that has gone.
Read_Imageless(exe) ==
  IF reading.cmdline = "none" /\ exe = "none" THEN NoState
  ELSE [reading EXCEPT !.exe = exe, !.settled = Known(entry).start = reading.start]

\* The state of the entry: an empty re-read keeps the first one; the second
\* sighting of an instance settles it.
Read(exe) ==
  LET same == Known(entry).start = reading.start IN
  IF same /\ reading.cmdline = "none" /\ exe = "none" THEN [Known(entry) EXCEPT !.settled = TRUE]
  ELSE [reading EXCEPT !.exe = exe, !.settled = same]

\* _read_exe: the link's target, or nothing if it cannot be read.
ReadExe ==
  /\ procPc = "exe"
  /\ \/ Record(entry, Read(Shown(entry))) /\ UNCHANGED <<misreads, obscured>>
     \/ /\ Shown(entry) # "none" /\ Misread
        /\ Record(entry, Read("none")) /\ obscured' = obscured \cup {entry}
  /\ UNCHANGED unread
  /\ Reading
-----------------------------------------------------------------------------
(* The diff. *)

ProcEvent(p, action, state) ==
  [pid |-> p, action |-> action, start |-> state.start, cmdline |-> state.cmdline,
   exe |-> state.exe]

SameImage(old, new) == old.cmdline = new.cmdline /\ old.exe = new.exe

\* _diff: a pid reused is a stop and a start, a new image another start.
Diff(old, new) ==
  {ProcEvent(p, "started", new[p]) : p \in
     {p \in Listed(new) : old[p].start # new[p].start \/ ~SameImage(old[p], new[p])}}
  \cup
  {ProcEvent(p, "stopped", old[p]) : p \in {p \in Listed(old) : old[p].start # new[p].start}}

\* What a reader of the events believes of p after the events es.
ToldBy(es, p) ==
  LET of(action) == {e \in es : e.pid = p /\ e.action = action}
      state(e) == [NoState EXCEPT !.start = e.start, !.cmdline = e.cmdline, !.exe = e.exe]
  IN  IF of("started") # {} THEN state(CHOOSE e \in of("started") : TRUE)
      ELSE IF of("stopped") # {} THEN NoState
      ELSE procTold[p]

\* The pass is over, every entry read or max_procs of them: diff, and keep the
\* snapshot.  The first one is the baseline.
PassDone ==
  /\ procPc = "stat" /\ (pids = {} \/ Capped)
  /\ procPc' = "idle" /\ procSnapshot' = [p \in Pid |-> NoState]
  /\ procBaseline' = procSnapshot /\ procSeeded' = TRUE
  /\ procEvents' = IF procSeeded THEN Diff(procBaseline, procSnapshot) ELSE {}
  /\ procTold' = IF procSeeded THEN [p \in Pid |-> ToldBy(procEvents', p)]
                 ELSE [p \in Pid |-> [procSnapshot[p] EXCEPT !.settled = FALSE]]
  /\ UNCHANGED <<hostVars, pids, entry, reading, misreads, unread, obscured, procSource, late,
                 procQuiet>>

Host(p) == Fork(p) \/ Exec(p) \/ Exit(p) \/ Reap(p)
Scan == ListPids \/ ReadStat \/ ReadCmdline \/ ReadExe \/ PassDone

Next == (\E p \in Pid : Host(p)) \/ ProcChanges \/ Scan

Spec == Init /\ [][Next]_vars
-----------------------------------------------------------------------------
\* After a pass during which nothing happened, the events describe the process table:
\* every process whose stat could be read and no other, under its own starttime though its
\* pid was reused, and with the image it runs, though it was first seen between fork and
\* exec, halfway through an exec, dying, or when its files could not be read.  Only an exec
\* after the second read of an image (the module's "known limitations") and an image that
\* could not be read when it was last looked at go unseen.
QuietPassKnowsProcesses ==
  (procPc = "idle" /\ procQuiet /\ procSource /\ pids = {}) =>
    \A p \in Pid :
      /\ procTold[p].start = IF p \in unread THEN 0 ELSE procs[p].start
      /\ Running(p) /\ ~procs[p].zombie /\ p \notin late \cup obscured \cup unread =>
           procTold[p].cmdline = Shown(p) /\ procTold[p].exe = Shown(p)

\* A process reported as stopped has left the process table, zombies and kernel
\* threads included, or the report is explained: /proc could not be listed (and
\* source_available says so), the pass was cut at max_procs, or the stat of this very
\* process could not be read.  A process whose other files cannot be read never stops.
StoppedMeansGone ==
  [][procPc = "stat" /\ procPc' = "idle" =>
       \A e \in procEvents' : e.action = "stopped" =>
         procs[e.pid].start # e.start \/ ~procSource \/ pids # {} \/ e.pid \in unread]_vars
=============================================================================
