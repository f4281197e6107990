--------------------------- MODULE FileIntegrity ---------------------------
(***************************************************************************)
(* The file-integrity collector (collectors/integrity.py): scans of the    *)
(* watched files, one lstat and one read at a time in a worker thread,     *)
(* beside whoever writes, replaces, chmods and removes them; the stat      *)
(* cache that reuses digests; the diff of two snapshots into events.       *)
(*                                                                         *)
(* Time is a fine clock.  The kernel stamps ctime from a coarse one, so    *)
(* two changes within Gran ticks share a ctime.  Size and mtime are left   *)
(* out: a writer can restore both, and this one always does.  A digest is  *)
(* the content itself.  os.walk() promises no order, so a scan takes the   *)
(* files as they come.                                                     *)
(***************************************************************************)
EXTENDS Naturals, FiniteSets

CONSTANTS
    Hosts,       \* the hosts to try: [inodes : the watched paths, each with the inode number of
                 \*   its first file, cap : max_files, time, changes, faults : bounds on the
                 \*   clock, the changes made and the calls that fail]
    Unhashable,  \* the paths the collector may never open, or too large to hash
    Gran,        \* ticks of the kernel's timestamp clock
    RacyWindow,  \* _RACY_WINDOW_NS
    PollEvery    \* poll_interval

Paths == UNION {DOMAIN h.inodes : h \in Hosts}
Contents == {"a", "b"}
Inodes == 1..(Cardinality(Paths) + 1)

ASSUME WindowAssumption ==
    /\ Gran \in Nat \ {0} /\ RacyWindow \in Nat /\ PollEvery \in Nat
    /\ RacyWindow >= Gran /\ PollEvery >= Gran

ASSUME HostAssumption == \A h \in Hosts : \A p \in DOMAIN h.inodes : h.inodes[p] \in Inodes

Missing == [content |-> "absent", ctime |-> 0, inode |-> 0, mode |-> 0]
NoFile == [sha |-> "absent", ctime |-> 0, inode |-> 0, mode |-> 0, cacheable |-> FALSE]
NoPath == "none"

VARIABLES
    fs,        \* path -> the file there, or Missing
    rootOk,    \* whether the watched root is there
    now, changes, faults,
    host,      \* the host of this behaviour
    baseline, seeded, missing,
    pc,        \* "idle", "scan", "hash", "closed"
    began,     \* when the scan in progress began
    todo,      \* listed files still to look at
    hashing,   \* the file being hashed
    snapshot,
    due,       \* when the poll interval is over
    stopping, final,
    unseen,    \* files there that the last scan could not list or lstat
    unhashed,  \* files whose content could not be read since the last event about it
    last,      \* the events of the last diff
    ids,       \* the ids of all events before them
    told,      \* path -> what the events so far, on top of the first baseline, say of it
    gone,      \* path -> whether it was ever away since the last diff
    capped,    \* whether the last snapshot diffed was cut at max_files
    blind,     \* whether some snapshot diffed left out files that were there
    quiet      \* whether nothing changed since the last complete scan began

fsVars   == <<fs, rootOk, changes>>
scanVars == <<pc, began, todo, hashing, snapshot, final, missing, faults, unseen, unhashed>>
fileDiffVars == <<baseline, seeded, last, ids, told, capped, blind, due>>
integrityVars == <<fsVars, now, host, scanVars, fileDiffVars, stopping, gone, quiet>>

\* current_time(): the kernel's coarse clock.
StampOf(t) == t - (t % Gran)
Stamp == StampOf(now)

Exists(p) == fs[p] # Missing
----------------------------------------------------------------------------
(* The host. *)

Tick ==
    /\ now < host.time /\ pc # "closed"
    /\ now' = now + 1
    /\ UNCHANGED <<fsVars, host, scanVars, fileDiffVars, stopping, gone, quiet>>

Change(p, f) ==
    /\ changes < host.changes /\ pc # "closed"
    /\ fs' = [fs EXCEPT ![p] = f]
    /\ changes' = changes + 1
    /\ gone' = [gone EXCEPT ![p] = @ \/ f = Missing]
    /\ quiet' = FALSE
    /\ UNCHANGED <<rootOk, now, host, scanVars, fileDiffVars, stopping>>

WriteFile(p) ==
    /\ Exists(p)
    /\ \E c \in Contents \ {fs[p].content} :
        Change(p, [fs[p] EXCEPT !.content = c, !.ctime = Stamp])

Chmod(p) == Exists(p) /\ Change(p, [fs[p] EXCEPT !.mode = 1 - @, !.ctime = Stamp])

Unlink(p) == Exists(p) /\ Change(p, Missing)

\* Created, or renamed over the file there; an inode number may come back.
PutNew(p) ==
    \E i \in Inodes \ {fs[q].inode : q \in Paths} :
        Change(p, [content |-> "b", ctime |-> Stamp, mode |-> 0, inode |-> i])

RootChanges ==
    /\ changes < host.changes /\ pc # "closed"
    /\ rootOk' = ~rootOk
    /\ changes' = changes + 1
    /\ quiet' = FALSE
    /\ UNCHANGED <<fs, now, host, scanVars, fileDiffVars, stopping, gone>>

RequestStop ==
    /\ ~stopping
    /\ stopping' = TRUE
    /\ UNCHANGED <<fsVars, now, host, scanVars, fileDiffVars, gone, quiet>>
----------------------------------------------------------------------------
(* Scanning. *)

IntegrityInit ==
    /\ host \in Hosts
    /\ \E there \in SUBSET DOMAIN host.inodes :
        fs = [p \in Paths |-> IF p \in there
                THEN [content |-> "a", ctime |-> 0, mode |-> 0, inode |-> host.inodes[p]]
                ELSE Missing]
    /\ rootOk = TRUE /\ now = 0 /\ changes = 0 /\ faults = 0
    /\ baseline = [p \in Paths |-> NoFile] /\ seeded = FALSE /\ missing = FALSE
    /\ pc = "idle" /\ began = 0 /\ todo = {} /\ hashing = NoPath /\ snapshot = baseline /\ due = 0
    /\ stopping = FALSE /\ final = FALSE /\ unseen = {} /\ unhashed = {}
    /\ last = {} /\ ids = {} /\ told = baseline /\ capped = FALSE /\ blind = FALSE
    /\ gone = [p \in Paths |-> FALSE] /\ quiet = FALSE

\* A call on the file system fails, though what it is about is there.
Fault == faults < host.faults /\ faults' = faults + 1

There == {p \in Paths : Exists(p)}

\* _drain_once starts a scan: after the poll interval, or at once as the final catch-up.
\* _iter_files marks a root it cannot lstat as missing; os.walk() lists what is below one it
\* can, and passes in silence over a directory it cannot list.
ScanStart ==
    /\ pc = "idle"
    /\ now >= due \/ stopping
    /\ pc' = "scan" /\ final' = stopping
    /\ began' = now
    /\ snapshot' = [p \in Paths |-> NoFile]
    /\ missing' = ~rootOk
    /\ \/ /\ rootOk
          /\ todo' = There /\ unseen' = {} /\ UNCHANGED faults
       \/ /\ rootOk /\ Fault
          /\ todo' \in (SUBSET There) \ {There} /\ unseen' = There \ todo'
       \/ /\ ~rootOk
          /\ todo' = {} /\ unseen' = {} /\ UNCHANGED faults
    /\ quiet' = TRUE
    /\ UNCHANGED <<fsVars, hashing, now, host, fileDiffVars, stopping, gone, unhashed>>

Found(s) == {p \in Paths : s[p] # NoFile}

Full == Cardinality(Found(snapshot)) >= host.cap

RecordFile(p, state) ==
    /\ todo' = todo \ {p}
    /\ snapshot' = [snapshot EXCEPT ![p] = state]
    /\ UNCHANGED <<fsVars, now, host, began, final, missing, fileDiffVars, stopping, gone, quiet>>

\* Faulty variant: no allowance for the coarse clock.
Cacheable_NoWindow(ctime) == ctime < began

Cacheable(ctime) == ctime + RacyWindow < began

SameStat(s, t) == s.ctime = t.ctime /\ s.inode = t.inode

Stat(p) ==
    [sha |-> "none", ctime |-> fs[p].ctime, inode |-> fs[p].inode, mode |-> fs[p].mode,
     cacheable |-> Cacheable(fs[p].ctime)]

CacheHit(p) == baseline[p].cacheable /\ SameStat(baseline[p], Stat(p))

\* _snapshot_file: lstat, and the previous digest where the stat cache allows it.
Lstat ==
    /\ pc = "scan" /\ ~Full
    /\ \E p \in todo :
        \/ /\ ~Exists(p)
           /\ RecordFile(p, NoFile) /\ UNCHANGED <<pc, hashing, faults, unseen>>
        \/ /\ Exists(p) /\ Fault
           /\ RecordFile(p, NoFile) /\ unseen' = unseen \cup {p} /\ UNCHANGED <<pc, hashing>>
        \/ /\ Exists(p) /\ CacheHit(p)
           /\ RecordFile(p, [Stat(p) EXCEPT !.sha = baseline[p].sha])
           /\ UNCHANGED <<pc, hashing, faults, unseen>>
        \/ /\ Exists(p) /\ ~CacheHit(p) /\ p \in Unhashable
           /\ RecordFile(p, Stat(p)) /\ UNCHANGED <<pc, hashing, faults, unseen>>
        \/ /\ Exists(p) /\ ~CacheHit(p) /\ p \notin Unhashable
           /\ RecordFile(p, Stat(p)) /\ pc' = "hash" /\ hashing' = p /\ UNCHANGED <<faults, unseen>>
    /\ UNCHANGED unhashed

\* _hash_file: the content now, if this is still the file the lstat saw and it can be read.
Hash ==
    /\ pc = "hash"
    /\ pc' = "scan" /\ hashing' = NoPath
    /\ \/ /\ RecordFile(hashing, IF fs[hashing].inode = snapshot[hashing].inode
                                 THEN [snapshot[hashing] EXCEPT !.sha = fs[hashing].content]
                                 ELSE snapshot[hashing])
          /\ UNCHANGED <<faults, unhashed>>
       \/ RecordFile(hashing, snapshot[hashing]) /\ Fault /\ unhashed' = unhashed \cup {hashing}
    /\ UNCHANGED unseen

ScanOver ==
    /\ pc' = IF final THEN "closed" ELSE "idle"
    /\ began' = 0 /\ todo' = {} /\ snapshot' = [p \in Paths |-> NoFile]
    /\ UNCHANGED <<hashing, final, missing, faults, unseen>>

\* The stop deadline passed before the next file: the scan is discarded.
ScanInterrupted ==
    /\ pc = "scan" /\ todo # {} /\ stopping
    /\ quiet' = FALSE
    /\ ScanOver
    /\ UNCHANGED <<fsVars, now, host, fileDiffVars, stopping, gone, unhashed>>
----------------------------------------------------------------------------
(* Diffing. *)

\* By digest, or by ctime where there is none (the clock's origin stands for a real time:
\* the code's test for a ctime of 0 never applies).
ContentChanged(old, new) ==
    IF "none" \notin {old.sha, new.sha} THEN old.sha # new.sha ELSE old.ctime # new.ctime

AttributesChanged(old, new) == old.mode # new.mode

\* Faulty variant: the content alone.
Fingerprint_ContentOnly(s) == [sha |-> s.sha, ctime |-> 0, inode |-> 0, mode |-> 0]

Fingerprint(s) == [sha |-> s.sha, ctime |-> s.ctime, inode |-> s.inode, mode |-> 0]
AttrsSeed(s) == [sha |-> "attrs", ctime |-> s.ctime, inode |-> 0, mode |-> s.mode]

Event(p, action, seed) == [path |-> p, action |-> action, seed |-> seed]

Rewritten(old, new) == {p \in Found(old) \cap Found(new) : ContentChanged(old[p], new[p])}
Chmodded(old, new) == {p \in Found(old) \cap Found(new) : AttributesChanged(old[p], new[p])}

FileDiff(old, new) ==
    {Event(p, "created", Fingerprint(new[p])) : p \in Found(new) \ Found(old)}
    \cup {Event(p, "modified", Fingerprint(new[p])) : p \in Rewritten(old, new)}
    \cup {Event(p, "attributes", AttrsSeed(new[p])) : p \in Chmodded(old, new)}
    \cup {Event(p, "deleted", Fingerprint(old[p])) : p \in Found(old) \ Found(new)}

\* What a reader of the events knows of path p after events es.
FileToldBy(es, p) ==
    LET said(action) == \E e \in es : e.path = p /\ e.action = action IN
    IF said("deleted") THEN NoFile
    ELSE IF said("created") THEN snapshot[p]
    ELSE [told[p] EXCEPT
            !.sha = IF said("modified") THEN snapshot[p].sha ELSE @,
            !.ctime = IF said("modified") THEN snapshot[p].ctime ELSE @,
            !.mode = IF said("attributes") THEN snapshot[p].mode ELSE @]

\* Faulty variant: a scan the stop deadline cut short counts as complete.
ScanComplete_OnStop == todo = {} \/ Full \/ stopping

\* Every file was visited, or max_files of them.
ScanComplete == todo = {} \/ Full

\* A snapshot is ready; the first snapshot is the baseline.
ScanDone ==
    /\ pc = "scan" /\ ScanComplete
    /\ ScanOver
    /\ due' = now + PollEvery
    /\ baseline' = snapshot /\ seeded' = TRUE
    /\ ids' = ids \cup last
    /\ last' = IF seeded THEN FileDiff(baseline, snapshot) ELSE {}
    /\ told' = IF seeded THEN [p \in Paths |-> FileToldBy(last', p)] ELSE snapshot
    /\ capped' = (Full /\ todo # {}) /\ blind' = (blind \/ missing \/ capped' \/ unseen # {})
    /\ unhashed' = {p \in unhashed :
                     seeded /\ \A e \in last' : e.path = p => e.action = "attributes"}
    /\ gone' = [p \in Paths |-> ~Exists(p)]
    /\ UNCHANGED <<fsVars, now, host, stopping, quiet>>

Collect == ScanStart \/ Lstat \/ Hash \/ ScanInterrupted \/ ScanDone

IntegrityNext ==
    \/ Tick \/ RootChanges \/ RequestStop
    \/ \E p \in DOMAIN host.inodes : WriteFile(p) \/ Chmod(p) \/ Unlink(p) \/ PutNew(p)
    \/ Collect

IntegritySpec == IntegrityInit /\ [][IntegrityNext]_integrityVars
----------------------------------------------------------------------------
\* After a scan during which nothing changed, what the events say is what the scan could see
\* on disk: every file it could list and lstat and no other, its mode, the content of a
\* hashable file and the last ctime of an unhashable one.  The stat cache, a change between
\* lstat and read and a clock too coarse to tell two changes apart never hide a change for
\* good; only a failed read does, of a file changed twice within one tick of that clock.
QuietScanTellsAll ==
    (pc \in {"idle", "closed"} /\ seeded /\ quiet /\ ~missing /\ ~capped) =>
        \A p \in Paths :
            IF ~Exists(p) \/ p \in unseen THEN told[p].sha = "absent"
            ELSE /\ told[p].mode = fs[p].mode
                 /\ IF p \in Unhashable THEN told[p].ctime = fs[p].ctime
                    ELSE p \notin unhashed => told[p].sha \in {fs[p].content, "none"}

\* A file is reported deleted only if it was away at some moment since the last diff, or the
\* report is explained: the root was away (and source_available says so), the scan was cut at
\* max_files, or this very file could not be listed or lstat'ed.  An interrupted scan never
\* makes one, nor does a file whose content cannot be read.
DeletedMeansGone ==
    [][pc = "scan" /\ last' # last =>
        \A e \in last' : e.action = "deleted" =>
            gone[e.path] \/ missing \/ capped' \/ e.path \in unseen]_integrityVars

\* source_available is "False while any watched path is missing or unreadable" (integrity.py):
\* a scan that missed files which were there says so.  It does not hold: only a root that
\* cannot be lstat'ed counts as missing, while os.walk() passes over a directory it cannot
\* list and _snapshot_file over a file it cannot lstat.
UnreadableIsReported ==
    (pc \in {"idle", "closed"} /\ unseen # {}) => missing

\* A transition seen by an undisturbed scan never has the event id of an earlier one, though
\* contents, modes and inode numbers come back: the dedup window, which goes by the id, does
\* not drop it.
TransitionsDistinct ==
    (pc \in {"idle", "closed"} /\ quiet /\ ~blind) => last \cap ids = {}

=============================================================================
