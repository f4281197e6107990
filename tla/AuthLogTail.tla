---------------------------- MODULE AuthLogTail ----------------------------
(***************************************************************************)
(* The auth-log collector (collectors/authlog.py): a tail -F loop over one *)
(* path, beside the syslog daemon and logrotate that write, rename,        *)
(* recreate and truncate the file while the worker thread reads it.        *)
(*                                                                         *)
(* Bytes are abstracted to pieces: line n is written as Parts[n] pieces,   *)
(* the last of which carries the newline.  A file is a sequence of pieces, *)
(* an offset counts pieces, and so do MaxRead (_MAX_READ) and MaxLine      *)
(* (_MAX_LINE_LEN).  What a line says is its Kind: the timestamp and the   *)
(* identity of its record, and how many records it stands for.             *)
(***************************************************************************)
EXTENDS Naturals, Sequences, FiniteSets, SequencesExt

CONSTANTS
    Kind,         \* Kind[n] = [ts, key, count] of line n; count 0: not an sshd auth line
    Parts,        \* Parts[n] = pieces line n is written in
    MaxRead,      \* pieces one read returns at most
    MaxLine,      \* pieces a parseable line has at most
    MaxFiles,     \* bound: inodes the path may name in turn
    MaxTruncations, \* bound: truncations in place
    Outages       \* the ways the path may be out of reach: a subset of {"file", "dir"}

ASSUME BoundsAssumption ==
    /\ DOMAIN Kind \subseteq Nat \ {0} /\ DOMAIN Parts = DOMAIN Kind
    /\ \A n \in DOMAIN Kind : Kind[n].count \in Nat /\ Parts[n] \in Nat \ {0}
    /\ MaxRead \in Nat \ {0} /\ MaxLine \in Nat \ {0}
    /\ MaxFiles \in Nat \ {0, 1} /\ MaxTruncations \in Nat

NoFile == 0
Inodes == 1..MaxFiles

VARIABLES
    \* the log as the daemon and logrotate leave it
    files,      \* inode -> its pieces
    path,       \* the inode the path names, or NoFile
    wfile,      \* the inode the daemon has open
    last,       \* the last piece written
    access,     \* "ok"; "file": open is refused; "dir": open and stat are refused
    truncs,     \* truncations so far
    \* AuthLogCollector
    handle, pos, buf, discarding, skip, seenTs, seen, source,
    \* where the poll stands
    pc,         \* "idle", "open", "read", "follow", "emit", "raised", "closed"
    kept,       \* lines the callers of the present _read_new_lines hold
    batch,      \* lines of the present _read_new_lines
    nested,     \* whether the present _read_new_lines was called by _follow_rotation
    stopping, final,
    \* history
    emitted,    \* records put on the queue
    upto,       \* inode -> the offset read from it
    history,    \* lines skipped by start_at_end
    dropped,    \* lines lost by a poll that ended in an exception
    regrown,    \* whether the open file was truncated and regrew unseen
    owed        \* lines the final pass has to deliver

logVars  == <<files, path, wfile, last, access, truncs>>
tailVars == <<handle, pos, buf, discarding, skip, source>>
outVars  == <<seenTs, seen, emitted>>
pollVars == <<pc, kept, batch, nested, final>>
histVars == <<upto, history, dropped, regrown>>
stopVars == <<stopping, owed>>
vars == <<logVars, tailVars, outVars, pollVars, histVars, stopVars>>
----------------------------------------------------------------------------
Piece == [line : DOMAIN Kind, part : Nat \ {0}, end : BOOLEAN]

\* A line as read is the sequence of its pieces; it is whole when it is what was written.
Whole(l) ==
    /\ l[Len(l)].end
    /\ \A i \in DOMAIN l : l[i].line = l[1].line /\ l[i].part = i

LinesOf(ps) == {p.line : p \in ToSet(ps)}

\* The complete lines of a run of pieces, and the partial line after them.
Ends(ps) == {i \in DOMAIN ps : ps[i].end}
LastEnd(ps) == IF Ends(ps) = {} THEN 0 ELSE CHOOSE i \in Ends(ps) : \A j \in Ends(ps) : j <= i
EndsInOrder(ps) ==
    CHOOSE ends \in [1..Cardinality(Ends(ps)) -> Ends(ps)] :
        \A i, j \in DOMAIN ends : i < j => ends[i] < ends[j]
Complete(ps) ==
    LET ends == EndsInOrder(ps)
    IN  [i \in DOMAIN ends |->
            SubSeq(ps, (IF i = 1 THEN 1 ELSE ends[i - 1] + 1), ends[i])]
Rest(ps) == SubSeq(ps, LastEnd(ps) + 1, Len(ps))

\* How many records parse_auth_records makes of a line: none for an over-long line, for one
\* whose header is cut off, for a repeat summary without its closing bracket, or for
\* anything that is not an sshd auth record.
RecordCount(l) ==
    LET count == Kind[l[1].line].count IN
    IF Len(l) > MaxLine \/ l[1].part # 1 \/ (count > 1 /\ ~Whole(l)) THEN 0 ELSE count

\* What tells records of one timestamp apart; the text of a cut line is another one.
Key(l) == <<Kind[l[1].line].key, ~Whole(l)>>
Keys == {Kind[n].key : n \in DOMAIN Kind} \X BOOLEAN

\* Faulty variant: a repeat summary's records are not told apart.
Occurrence_NoIndex(count, i) == count

\* The occurrence of the i-th record of a line, given the identical ones already seen.
Occurrence(count, i) == count + i - 1

\* parse_auth_records and _number on one line: its records are put on the queue, numbered
\* past the identical ones of the same timestamp.
Number(l) ==
    LET n     == l[1].line
        known == IF Kind[n].ts = seenTs THEN seen ELSE [k \in Keys |-> 0]
        count == RecordCount(l)
        rec(i) == [line |-> n, rec |-> i, cut |-> ~Whole(l),
                   id |-> [ts |-> Kind[n].ts, key |-> Key(l),
                           occurrence |-> Occurrence(known[Key(l)], i)]]
    IN  IF count = 0
        THEN UNCHANGED outVars
        ELSE /\ seenTs' = Kind[n].ts
             /\ seen' = [known EXCEPT ![Key(l)] = @ + count]
             /\ emitted' = emitted \o [i \in 1..count |-> rec(i)]
----------------------------------------------------------------------------
(* The daemon and logrotate. *)

\* What happens to the log after the collector has closed it does not matter.
LogOnly == pc # "closed" /\ UNCHANGED <<tailVars, outVars, pollVars>>

NextPiece ==
    LET n == IF last.end THEN last.line + 1 ELSE last.line
        p == IF last.end THEN 1 ELSE last.part + 1
    IN  [line |-> n, part |-> p, end |-> p = Parts[n]]

WritePiece ==
    /\ ~last.end \/ last.line + 1 \in DOMAIN Kind
    /\ files' = [files EXCEPT ![wfile] = Append(@, NextPiece)]
    /\ last' = NextPiece
    /\ regrown' = (regrown \/ (wfile = handle /\ Len(files'[wfile]) = pos))
    /\ LogOnly /\ UNCHANGED <<path, wfile, access, truncs, upto, history, dropped, stopVars>>

RenameAway ==
    /\ path \notin {NoFile, MaxFiles} /\ wfile = path
    /\ path' = NoFile
    /\ LogOnly /\ UNCHANGED <<files, wfile, last, access, truncs, histVars, stopVars>>

Create ==
    /\ path = NoFile
    /\ path' = wfile + 1
    /\ LogOnly /\ UNCHANGED <<files, wfile, last, access, truncs, histVars, stopVars>>

\* The daemon reopens the path between two lines.
Reopen ==
    /\ path \notin {NoFile, wfile} /\ last.end
    /\ wfile' = path
    /\ LogOnly /\ UNCHANGED <<files, path, last, access, truncs, histVars, stopVars>>

Truncate(n) ==
    /\ truncs < MaxTruncations /\ path # NoFile /\ n < Len(files[path])
    /\ files' = [files EXCEPT ![path] = SubSeq(@, 1, n)]
    /\ upto' = [upto EXCEPT ![path] = IF n < @ THEN n ELSE @]
    /\ truncs' = truncs + 1
    /\ owed' = {}
    /\ LogOnly /\ UNCHANGED <<path, wfile, last, access, history, dropped, regrown, stopping>>

SetAccess ==
    /\ access' \in ({"ok"} \cup Outages) \ {access}
    /\ LogOnly /\ UNCHANGED <<files, path, wfile, last, truncs, histVars, stopVars>>

----------------------------------------------------------------------------
(* The collector. *)

Init ==
    /\ files = [f \in Inodes |-> <<>>] /\ path \in {NoFile, 1} /\ wfile = 1
    /\ last = [line |-> 0, part |-> 1, end |-> TRUE] /\ access = "ok" /\ truncs = 0
    /\ handle = NoFile /\ pos = 0 /\ buf = <<>> /\ discarding = FALSE /\ skip \in BOOLEAN
    /\ seenTs = 0 /\ seen = [k \in Keys |-> 0] /\ source = TRUE /\ emitted = <<>>
    /\ pc = "idle" /\ kept = <<>> /\ batch = <<>> /\ nested = FALSE /\ final = FALSE
    /\ upto = [f \in Inodes |-> 0] /\ history = {} /\ dropped = {} /\ regrown = FALSE
    /\ stopping = FALSE /\ owed = {}

\* The auth lines that end after offset n of file f.
LinesAfter(f, n) ==
    {files[f][i].line : i \in {i \in n + 1 .. Len(files[f]) : files[f][i].end}}

AuthLine(n) == Parts[n] <= MaxLine /\ Kind[n].count > 0

\* request_stop.  What one read of the open file reaches by then is owed.
Stop ==
    /\ ~stopping
    /\ stopping' = TRUE
    /\ owed' = IF /\ handle # NoFile /\ pc # "follow" /\ truncs = 0
                  /\ Len(files[handle]) - pos \in 0..MaxRead
               THEN {n \in LinesAfter(handle, pos) : AuthLine(n)} ELSE {}
    /\ UNCHANGED <<logVars, tailVars, outVars, pollVars, histVars>>

TailOnly == UNCHANGED <<logVars, stopVars>>

\* Faulty variant: no final pass.
Poll_NoFinalPass ==
    /\ pc = "idle"
    /\ pc' = IF stopping THEN "closed" ELSE IF handle = NoFile THEN "open" ELSE "read"
    /\ final' = stopping
    /\ TailOnly /\ UNCHANGED <<tailVars, outVars, kept, batch, nested, histVars>>

\* _drain_once begins: once more after stop was seen, as the final pass.
Poll ==
    /\ pc = "idle"
    /\ pc' = IF handle = NoFile THEN "open" ELSE "read"
    /\ final' = stopping
    /\ TailOnly /\ UNCHANGED <<tailVars, outVars, kept, batch, nested, histVars>>

\* Faulty variant: only a missing file is reported.
OpenFails_Unreported ==
    /\ pc = "open"
    /\ access # "ok" \/ path = NoFile
    /\ skip' = (skip /\ (access = "dir" \/ path # NoFile))
    /\ source' = (source /\ access # "ok")
    /\ pc' = "emit"
    /\ TailOnly
    /\ UNCHANGED <<handle, pos, buf, discarding, outVars, kept, batch, nested, final, histVars>>

OpenFails ==
    /\ pc = "open"
    /\ access # "ok" \/ path = NoFile
    /\ skip' = (skip /\ (access = "dir" \/ path # NoFile))
    /\ source' = FALSE
    /\ pc' = "emit"
    /\ TailOnly
    /\ UNCHANGED <<handle, pos, buf, discarding, outVars, kept, batch, nested, final, histVars>>

OpenFile ==
    /\ pc = "open"
    /\ access = "ok" /\ path # NoFile
    /\ handle' = path
    /\ skip' = FALSE
    /\ LET end == Len(files[path]) IN
        /\ pos' = IF skip THEN end ELSE pos
        /\ discarding' = IF skip /\ end > 0 THEN ~files[path][end].end ELSE discarding
        /\ history' = IF skip THEN history \cup LinesOf(files[path]) ELSE history
    /\ upto' = [upto EXCEPT ![path] = pos']
    /\ pc' = "read"
    /\ TailOnly /\ UNCHANGED <<buf, source, outVars, kept, batch, nested, final, dropped, regrown>>

Overlong(ps) == Len(ps) > MaxLine

\* handle.read and _split.
Read ==
    /\ pc = "read"
    /\ LET size  == Len(files[handle])
           chunk == SubSeq(files[handle], pos + 1,
                           IF size < pos + MaxRead THEN size ELSE pos + MaxRead)
           all   == buf \o chunk
           done  == Complete(all)
           first == discarding /\ done # <<>>
           over  == Overlong(Rest(all))
       IN  /\ pos' = pos + Len(chunk)
           /\ batch' = batch \o (IF first THEN Tail(done) ELSE done)
           /\ buf' = IF over THEN <<>> ELSE Rest(all)
           /\ discarding' = (over \/ (discarding /\ ~first))
           /\ pc' = IF Len(chunk) < MaxRead THEN "follow" ELSE "emit"
           /\ upto' = [upto EXCEPT ![handle] = IF size < pos' THEN @ ELSE pos']
    /\ TailOnly
    /\ UNCHANGED <<handle, skip, source, outVars, kept, nested, final, history, dropped, regrown>>

\* _follow_rotation when path.stat() raises another error than FileNotFoundError: the lines
\* of this call go with the exception, those of its callers are kept.
FollowFails ==
    /\ pc = "follow" /\ access = "dir"
    /\ batch' = <<>>
    /\ dropped' = dropped \cup UNION {LinesOf(l) : l \in ToSet(batch)}
    /\ source' = FALSE
    /\ pc' = IF nested THEN "emit" ELSE "raised"
    /\ TailOnly
    /\ UNCHANGED <<handle, pos, buf, discarding, skip, outVars, kept, nested, final, upto,
                   history, regrown>>

\* Faulty variant: rotation is looked for by size only.
SameFile_NoInode == TRUE

\* The path names the open file, or nothing yet.
SameFile == path \in {NoFile, handle}

FollowSame ==
    /\ pc = "follow" /\ access # "dir"
    /\ SameFile /\ (path # NoFile => Len(files[path]) >= pos)
    /\ pc' = "emit"
    /\ TailOnly /\ UNCHANGED <<tailVars, outVars, kept, batch, nested, final, histVars>>

FlushPartial == IF discarding \/ buf = <<>> THEN <<>> ELSE <<buf>>

\* Faulty variant: the switch forgets the lines just read from the old file.
OldFileLines_TailOnly == FlushPartial

\* What the file that was rotated away gave this call.
OldFileLines == batch \o FlushPartial

FollowRotated ==
    /\ pc = "follow" /\ access # "dir"
    /\ ~SameFile
    /\ kept' = kept \o OldFileLines
    /\ batch' = <<>> /\ nested' = TRUE
    /\ buf' = <<>> /\ discarding' = FALSE /\ handle' = NoFile /\ pos' = 0
    /\ pc' = "open"
    /\ TailOnly /\ UNCHANGED <<skip, source, outVars, final, histVars>>

FollowTruncated ==
    /\ pc = "follow" /\ access # "dir"
    /\ SameFile /\ path # NoFile /\ Len(files[path]) < pos
    /\ pos' = 0 /\ buf' = <<>> /\ discarding' = FALSE
    /\ seen' = [k \in Keys |-> 0]
    /\ upto' = [upto EXCEPT ![handle] = 0]
    /\ pc' = "emit"
    /\ TailOnly
    /\ UNCHANGED <<handle, skip, source, seenTs, emitted, kept, batch, nested, final, history,
                   dropped, regrown>>

\* Faulty variant: the new file's lines come before the old one's.
PollLines_Swapped == batch \o kept

PollLines == kept \o batch

\* _drain_once goes through the lines; every put may suspend it.
EmitLine ==
    /\ pc = "emit" /\ PollLines # <<>>
    /\ Number(Head(PollLines))
    /\ kept' = Tail(PollLines) /\ batch' = <<>>
    /\ source' = (source \/ handle # NoFile)
    /\ TailOnly /\ UNCHANGED <<handle, pos, buf, discarding, skip, pc, nested, final, histVars>>

\* The end of _drain_once, and _close after the final pass.
EndPoll ==
    /\ pc = "raised" \/ (pc = "emit" /\ PollLines = <<>>)
    /\ source' = (source \/ (pc = "emit" /\ handle # NoFile))
    /\ nested' = FALSE
    /\ pc' = IF final THEN "closed" ELSE "idle"
    /\ handle' = IF final THEN NoFile ELSE handle
    /\ TailOnly /\ UNCHANGED <<pos, buf, discarding, skip, outVars, kept, batch, final, histVars>>

Collect ==
    \/ Poll \/ OpenFails \/ OpenFile \/ Read
    \/ FollowFails \/ FollowSame \/ FollowRotated \/ FollowTruncated
    \/ EmitLine \/ EndPoll

Next ==
    \/ WritePiece \/ RenameAway \/ Create \/ Reopen \/ SetAccess
    \/ \E n \in 0..1 : Truncate(n)
    \/ Stop
    \/ Collect

\* The collector's task and worker thread keep running; nothing is assumed of the log.
Spec == Init /\ [][Next]_vars /\ WF_vars(Collect)
----------------------------------------------------------------------------
\* The line that ends at offset i of a file is on its own line there, complete.
StandsAlone(ps, i) ==
    LET n == ps[i].part IN
    /\ i >= n /\ Whole(SubSeq(ps, i - n + 1, i))
    /\ i = n \/ ps[i - n].end

EmittedLines == {emitted[i].line : i \in DOMAIN emitted}

Waiting == UNION {LinesOf(l) : l \in ToSet(PollLines)} \cup LinesOf(buf)

\* Every auth line the collector has read past, in whichever file, was emitted or is still
\* in hand: rotation, a truncation seen, an outage or a line split over two reads never
\* swallows one.  The exceptions are named: the history start_at_end skips, an over-long
\* line, a poll ended by a failing stat, and a file that was truncated and regrew past the
\* offset between two polls.
ReadIsEmitted ==
    ~regrown =>
        \A f \in Inodes : \A i \in 1..upto[f] :
            LET p == files[f][i] IN
            (p.end /\ AuthLine(p.line) /\ StandsAlone(files[f], i))
                => p.line \in EmittedLines \cup Waiting \cup history \cup dropped

\* As long as nothing is truncated, records are emitted in the order their lines were
\* written, each once, across rotations and outages.
EmittedInOrder ==
    truncs = 0 =>
        \A i, j \in DOMAIN emitted : i < j =>
            \/ emitted[i].line < emitted[j].line
            \/ emitted[i].line = emitted[j].line /\ emitted[i].rec < emitted[j].rec

\* The lines of one timestamp follow one another.
TimesDoNotReturn ==
    \A i, j, k \in DOMAIN Kind :
        i < j /\ j < k /\ Kind[i].ts = Kind[k].ts => Kind[j].ts = Kind[i].ts

\* As long as nothing is truncated and the log's timestamps do not come back, no two records
\* share an id, not even identical ones of one second on two sides of a rotation or a repeat
\* summary: the dedup window, which goes by the id, collapses none of them.
DistinctIds ==
    truncs = 0 /\ TimesDoNotReturn =>
        \A i, j \in DOMAIN emitted : emitted[i].id = emitted[j].id => i = j

\* The final pass after a stop request delivers what was in the open file by then, when one
\* read reaches it.
FinalPassCatchesUp ==
    pc = "closed" => owed \subseteq EmittedLines \cup history \cup dropped

\* A poll that ends without an open file leaves source_available false: a collector that
\* cannot see its file never looks like a quiet host.
BlindIsReported ==
    [][(pc # "idle" /\ pc' = "idle") => (source' => handle' # NoFile)]_vars

\* Once the path stays readable and no stop is requested, the collector gets back to the
\* end of the file the path names, with nothing left in hand, and back again after whatever
\* was written, rotated or truncated since it was last there.
CatchesUp ==
    <>[](access = "ok" /\ path # NoFile /\ ~stopping)
        => []<>(/\ handle = path /\ handle # NoFile /\ pos = Len(files[handle])
                /\ PollLines = <<>>)

\* The module's documentation: no line is skipped or cut in half by a rotation.
NoLineSkippedByRotation ==
    (pc = "idle" /\ handle = path /\ handle # NoFile /\ pos = Len(files[path]) /\ ~skip) =>
        /\ \A f \in Inodes : \A i \in DOMAIN files[f] :
              (upto[f] > 0 /\ files[f][i].end) => files[f][i].line \in EmittedLines \cup history
        /\ \A i \in DOMAIN emitted : ~emitted[i].cut

=============================================================================
