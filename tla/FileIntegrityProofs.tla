------------------------ MODULE FileIntegrityProofs ------------------------
(***************************************************************************)
(* Theorems about FileIntegrity, for every set of watched files, every      *)
(* clock granularity, racy window and poll interval, and any number of      *)
(* changes.                                                                 *)
(***************************************************************************)
EXTENDS SnapshotCollectors, TLAPS

File == [content : Contents, ctime : Nat, inode : Inodes, mode : {0, 1}]
State ==
  [sha : Contents \cup {"none"}, ctime : Nat, inode : Inodes, mode : {0, 1},
   cacheable : BOOLEAN]
Snapshot == [Paths -> State \cup {NoFile}]

Busy == pc \in {"scan", "hash"}
Hashing(p) == pc = "hash" /\ hashing = p

Types ==
  /\ host \in Hosts
  /\ fs \in [Paths -> File \cup {Missing}]
  /\ now \in Nat /\ began \in Nat /\ due \in Nat
  /\ pc \in {"idle", "scan", "hash", "closed"}
  /\ baseline \in Snapshot /\ snapshot \in Snapshot /\ told \in Snapshot
  /\ todo \subseteq Paths
  /\ pc = "hash" =>
       hashing \in Paths \ Unhashable /\ hashing \notin todo /\ snapshot[hashing].sha = "none"
  /\ \A p \in Unhashable \cap Paths :
       {baseline[p].sha, snapshot[p].sha, told[p].sha} \subseteq {"none", "absent"}

\* Nothing is dated after the clock, and two scans but the final one lie so far apart that
\* a change during the second has a later date than all the first has seen.
Times ==
  /\ began <= now
  /\ \A p \in Paths :
       /\ fs[p].ctime <= Stamp
       /\ snapshot[p].ctime <= now
       /\ baseline[p] # NoFile => baseline[p].ctime + PollEvery <= due
       /\ Busy /\ ~final /\ baseline[p] # NoFile => baseline[p].ctime < StampOf(began)

\* A cached digest vouches for a file only while it is the content of that file: a later
\* change has a later date.
Vouches(s, p) ==
  s.cacheable =>
    /\ s.ctime + RacyWindow < now
    /\ Exists(p) /\ SameStat(s, fs[p]) => s.sha \in {fs[p].content, "none"}

Cached == \A p \in Paths : Vouches(baseline[p], p) /\ Vouches(snapshot[p], p)

Shows(s, f) ==
  /\ s # NoFile
  /\ s.ctime = f.ctime /\ s.inode = f.inode /\ s.mode = f.mode
  /\ s.sha \in {f.content, "none"}

\* A file that did not change since the scan began is in the snapshot as it is, and one that
\* could not be listed or lstat'ed is not.
Faithful ==
  Busy =>
    \A p \in Paths :
      /\ /\ ~missing /\ p \notin todo /\ p \notin unseen
         /\ Exists(p) /\ (quiet \/ fs[p].ctime < StampOf(began))
         => Shows(snapshot[p], fs[p])
      /\ quiet /\ snapshot[p] # NoFile => Exists(p)
      /\ p \in unseen => p \notin todo /\ snapshot[p] = NoFile

\* Replaced or removed since the scan began.
Replaced(p) == ~quiet /\ (Exists(p) => fs[p].ctime >= StampOf(began))

\* A hashable file is without a digest because it was without one, because it changed between
\* the lstat and the read, or because it could not be read.
NoDigest ==
  /\ pc = "hash" => fs[hashing].inode = snapshot[hashing].inode \/ Replaced(hashing)
  /\ Busy =>
       \A p \in Paths \ Unhashable :
         snapshot[p].sha = "none" /\ ~Hashing(p) =>
           \/ baseline[p].sha = "none" /\ baseline[p].ctime = snapshot[p].ctime
           \/ ~quiet /\ snapshot[p].ctime >= StampOf(began)
           \/ Replaced(p)
           \/ p \in unhashed

\* The events have not told of the content, and the next scan will see a change.
Behind(p) ==
  /\ baseline[p].sha = "none" /\ baseline[p].ctime < Stamp
  /\ Exists(p) => fs[p].ctime > baseline[p].ctime

ToldHash(p) ==
  \/ told[p].sha \in {baseline[p].sha, "none"}
  \/ pc # "closed" /\ Behind(p)
  \/ pc = "closed" /\ ~quiet
  \/ p \in unhashed

\* What the events say is the last snapshot, up to digests that could not be had.
Told ==
  seeded =>
    \A p \in Paths :
      /\ told[p] = NoFile <=> baseline[p] = NoFile
      /\ told[p].mode = baseline[p].mode
      /\ p \in Unhashable => told[p].ctime = baseline[p].ctime
      /\ p \notin Unhashable => ToldHash(p)
      /\ /\ Busy /\ p \notin Unhashable /\ p \notin unhashed
         /\ told[p].sha \notin {baseline[p].sha, "none"} /\ snapshot[p] # NoFile
         => snapshot[p].ctime > baseline[p].ctime

\* After an undisturbed scan the last snapshot is what it could see on disk.
QuietBaseline ==
  (pc \in {"idle", "closed"} /\ seeded /\ quiet /\ ~missing /\ ~capped) =>
    \A p \in Paths :
      IF Exists(p) /\ p \notin unseen THEN Shows(baseline[p], fs[p]) ELSE baseline[p] = NoFile

ScanInv == Types /\ Times /\ Cached /\ Faithful /\ NoDigest /\ Told /\ QuietBaseline

\* A file never away since the last diff is listed by the scan and found by it, or could not
\* be seen.
ListedFiles ==
  /\ gone \in [Paths -> BOOLEAN]
  /\ seeded =>
       \A p \in Paths :
         ~gone[p] =>
           /\ Exists(p)
           /\ Busy /\ ~missing => p \in todo \cup unseen \/ snapshot[p] # NoFile

Told1(e, old, new) ==
  (e.seed.ctime >= Stamp \/ (Exists(e.path) /\ fs[e.path].ctime = e.seed.ctime)) =>
    /\ baseline[e.path] # NoFile /\ baseline[e.path].ctime = e.seed.ctime
    /\ \/ old
       \/ e.seed.ctime < Stamp /\ Exists(e.path) /\ new

\* What an event says keeps later ones apart from it.
Spent(e) ==
  LET p == e.path IN
  /\ e.action \in {"created", "modified"} =>
       Told1(e, baseline[p].sha \in {e.seed.sha, "none"}, baseline[p].sha = fs[p].content)
  /\ e.action = "attributes" =>
       Told1(e, baseline[p].mode = e.seed.mode, baseline[p].mode = fs[p].mode)
  /\ e.action = "deleted" =>
       /\ e.seed.ctime < Stamp
       /\ Exists(p) => fs[p].ctime > e.seed.ctime
       /\ baseline[p] # NoFile => baseline[p].ctime > e.seed.ctime
       /\ snapshot[p] # NoFile => snapshot[p].ctime > e.seed.ctime

EventsSpent ==
  /\ \A e \in ids \cup last : e.path \in Paths /\ e.seed.ctime \in Nat
  /\ ~blind /\ pc # "closed" => \A e \in ids \cup last : Spent(e)

(***************************************************************************)
(* The coarse clock.                                                        *)
(***************************************************************************)

\* The coarse clock is less than a tick behind.
LEMMA StampBounds ==
  ASSUME NEW t \in Nat
  PROVE  StampOf(t) \in Nat /\ StampOf(t) <= t /\ t < StampOf(t) + Gran
<1>1. Gran \in Nat /\ Gran > 0
  BY WindowAssumption
<1>2. t % Gran \in 0..(Gran - 1) /\ t % Gran <= t
  BY <1>1
<1>3. QED
  BY <1>1, <1>2 DEF StampOf

\* The coarse clock never runs backwards.
LEMMA StampMonotone ==
  ASSUME NEW t \in Nat, NEW u \in Nat, t <= u
  PROVE  StampOf(t) <= StampOf(u)
<1>1. Gran \in Nat /\ Gran > 0
  BY WindowAssumption
<1>2. PICK a \in Nat : t = Gran * a + (t % Gran)
  BY <1>1
<1>3. PICK b \in Nat : u = Gran * b + (u % Gran)
  BY <1>1
<1>4. StampOf(t) = Gran * a /\ StampOf(u) = Gran * b
  BY <1>1, <1>2, <1>3 DEF StampOf
<1>5. a <= b
  <2> SUFFICES ASSUME b < a PROVE FALSE
    BY <1>2, <1>3
  <2>1. PICK d \in Nat : a = b + 1 + d
    BY <1>2, <1>3
  <2>2. Gran * a = Gran * b + Gran + Gran * d /\ Gran * d >= 0
    BY <1>1, <1>2, <1>3, <2>1
  <2>3. t < StampOf(t) + Gran /\ StampOf(t) <= t /\ u < StampOf(u) + Gran
    BY StampBounds
  <2>4. Gran * a \in Nat /\ Gran * b \in Nat /\ Gran * d \in Nat
    BY <1>1, <1>2, <1>3, <2>1
  <2>5. QED
    BY <1>1, <1>4, <2>2, <2>3, <2>4
<1>6. Gran * a <= Gran * b
  BY <1>1, <1>2, <1>3, <1>5
<1>7. QED
  BY <1>4, <1>6

\* The clocks of a state: the coarse one lies within a tick below the fine one, and has not
\* run backwards since the scan began.
LEMMA Clocks ==
  ASSUME Types, Times
  PROVE  /\ now \in Nat /\ began \in Nat
         /\ Stamp \in Nat /\ Stamp <= now /\ now < Stamp + Gran
         /\ StampOf(began) \in Nat /\ StampOf(began) <= began /\ began < StampOf(began) + Gran
         /\ StampOf(began) <= Stamp
         /\ Gran \in Nat /\ RacyWindow \in Nat /\ PollEvery \in Nat
         /\ Gran > 0 /\ RacyWindow >= Gran /\ PollEvery >= Gran
<1>1. now \in Nat /\ began \in Nat /\ began <= now
  BY DEF Types, Times
<1>2. Stamp \in Nat /\ Stamp <= now /\ now < Stamp + Gran
  BY <1>1, StampBounds DEF Stamp
<1>3. StampOf(began) \in Nat /\ StampOf(began) <= began /\ began < StampOf(began) + Gran
  BY <1>1, StampBounds
<1>4. StampOf(began) <= Stamp
  BY <1>1, StampMonotone DEF Stamp
<1>5. QED
  BY <1>1, <1>2, <1>3, <1>4, WindowAssumption

\* The dates and other fields of a state, and of the files it shows.
LEMMA Fields ==
  ASSUME Types, NEW p \in Paths
  PROVE  /\ fs[p] = Missing \/ fs[p] \in File
         /\ fs[p].ctime \in Nat
         /\ baseline[p] = NoFile \/ baseline[p] \in State
         /\ snapshot[p] = NoFile \/ snapshot[p] \in State
         /\ told[p] = NoFile \/ told[p] \in State
         /\ baseline[p].ctime \in Nat /\ snapshot[p].ctime \in Nat /\ told[p].ctime \in Nat
<1>1. /\ fs[p] = Missing \/ fs[p] \in File
      /\ baseline[p] = NoFile \/ baseline[p] \in State
      /\ snapshot[p] = NoFile \/ snapshot[p] \in State
      /\ told[p] = NoFile \/ told[p] \in State
  BY DEF Types, Snapshot
<1>2. Missing.ctime = 0 /\ NoFile.ctime = 0
  BY DEF Missing, NoFile
<1>3. \A f \in File : f.ctime \in Nat
  BY DEF File
<1>4. \A s \in State : s.ctime \in Nat
  BY DEF State
<1>5. QED
  BY <1>1, <1>2, <1>3, <1>4

\* The first state.
LEMMA ScanInit == IntegrityInit => ScanInv
<1> SUFFICES ASSUME IntegrityInit PROVE ScanInv
  OBVIOUS
<1>1. PICK there \in SUBSET DOMAIN host.inodes :
        fs = [p \in Paths |-> IF p \in there
                THEN [content |-> "a", ctime |-> 0, mode |-> 0, inode |-> host.inodes[p]]
                ELSE Missing]
  BY DEF IntegrityInit
<1>2. /\ host \in Hosts /\ now = 0 /\ began = 0 /\ due = 0 /\ pc = "idle"
      /\ baseline = [p \in Paths |-> NoFile] /\ snapshot = baseline /\ told = baseline
      /\ todo = {} /\ seeded = FALSE
  BY DEF IntegrityInit
<1>3. fs \in [Paths -> File \cup {Missing}]
  <2> SUFFICES ASSUME NEW p \in Paths PROVE fs[p] \in File \cup {Missing}
    BY <1>1
  <2>1. p \in there => host.inodes[p] \in Inodes
    BY <1>2, HostAssumption
  <2>2. QED
    BY <1>1, <2>1 DEF File, Contents
<1>4. Types
  BY <1>2, <1>3 DEF Types, Snapshot, NoFile
<1>5. Times
  <2>1. Stamp \in Nat
    BY <1>2, StampBounds DEF Stamp
  <2>2. \A p \in Paths : fs[p].ctime = 0
    BY <1>1 DEF Missing
  <2>3. \A p \in Paths : snapshot[p] = NoFile /\ baseline[p] = NoFile /\ snapshot[p].ctime = 0
    BY <1>2 DEF NoFile
  <2>4. QED
    BY <1>2, <2>1, <2>2, <2>3 DEF Times
<1>6. \A p \in Paths : baseline[p].cacheable = FALSE /\ snapshot[p].cacheable = FALSE
  BY <1>2 DEF NoFile
<1>7. QED
  BY <1>2, <1>4, <1>5, <1>6
     DEF ScanInv, Cached, Vouches, Faithful, NoDigest, Told, QuietBaseline, Busy

\* A change of a file gives it a later date than any digest that may be reused.
LEMMA ChangeScan ==
  ASSUME ScanInv, NEW p \in Paths, NEW f \in File \cup {Missing},
         f # Missing => f.ctime = Stamp, Change(p, f)
  PROVE  ScanInv'
<1>1. Types /\ Times
  BY DEF ScanInv
<1>2. /\ fs' = [fs EXCEPT ![p] = f] /\ quiet' = FALSE /\ pc # "closed"
      /\ UNCHANGED <<now, host, pc, began, todo, hashing, snapshot, final, missing, baseline,
                     seeded, told, capped, due, unseen, unhashed>>
  BY DEF Change, scanVars, fileDiffVars
<1>3. fs \in [Paths -> File \cup {Missing}]
  BY <1>1 DEF Types
<1>4. \A q \in Paths : fs'[q] = IF q = p THEN f ELSE fs[q]
  BY <1>2, <1>3
<1>5. Stamp' = Stamp /\ StampOf(began)' = StampOf(began)
  BY <1>2 DEF Stamp, StampOf
<1>6. /\ Stamp \in Nat /\ StampOf(began) \in Nat /\ StampOf(began) <= Stamp
      /\ now < Stamp + Gran /\ Gran \in Nat /\ RacyWindow \in Nat /\ RacyWindow >= Gran
      /\ now \in Nat
  BY <1>1, Clocks
<1>7. f.ctime \in Nat /\ f.ctime <= Stamp /\ Missing.ctime = 0
  BY <1>6 DEF Missing
<1>8. Types'
  BY <1>1, <1>2, <1>3 DEF Types
<1>9. Times'
  BY <1>1, <1>2, <1>4, <1>5, <1>7 DEF Times, Busy
<1>10. Cached'
  <2> SUFFICES ASSUME NEW q \in Paths
               PROVE  Vouches(baseline[q], q)' /\ Vouches(snapshot[q], q)'
    BY DEF Cached
  <2>1. Vouches(baseline[q], q) /\ Vouches(snapshot[q], q)
    BY DEF ScanInv, Cached
  <2>2. baseline[q].ctime \in Nat /\ snapshot[q].ctime \in Nat
    BY <1>1, Fields
  <2>3. CASE q # p
    BY <1>2, <1>4, <2>1, <2>3 DEF Vouches, Exists
  <2>4. CASE q = p
    <3>1. \A c \in Nat : c + RacyWindow < now => c # Stamp
      BY <1>6
    <3>2. QED
      BY <1>2, <1>4, <2>1, <2>2, <2>4, <3>1 DEF Vouches, Exists, SameStat
  <2>5. QED
    BY <2>3, <2>4
<1>11. Faithful'
  <2>1. ~(Stamp < StampOf(began))
    BY <1>6
  <2>2. QED
    BY <1>2, <1>4, <1>5, <2>1 DEF ScanInv, Faithful, Busy, Exists, Shows
<1>12. Replaced(p)' /\ \A q \in Paths : Replaced(q) => Replaced(q)'
  BY <1>2, <1>4, <1>5, <1>6 DEF Replaced, Exists
<1>13. NoDigest'
  <2>1. pc' = "hash" => (fs[hashing].inode = snapshot[hashing].inode \/ Replaced(hashing))'
    <3> SUFFICES ASSUME pc = "hash"
                 PROVE  fs'[hashing'].inode = snapshot'[hashing'].inode \/ Replaced(hashing)'
      BY <1>2
    <3>1. PICK q \in Paths : q = hashing
      BY <1>1 DEF Types
    <3>2. fs[q].inode = snapshot[q].inode \/ Replaced(q)
      BY <3>1 DEF ScanInv, NoDigest
    <3>3. fs'[q].inode = snapshot'[q].inode \/ Replaced(q)'
      BY <1>2, <1>4, <1>12, <3>2
    <3>4. Replaced(q)' => Replaced(hashing)'
      BY <1>2, <3>1 DEF Replaced, Exists
    <3>5. QED
      BY <1>2, <3>1, <3>3, <3>4
  <2>2. QED
    BY <1>2, <1>5, <1>12, <2>1 DEF ScanInv, NoDigest, Busy, Hashing
<1>14. Told'
  <2>1. \A q \in Paths : Behind(q) => Behind(q)'
    BY <1>2, <1>4, <1>5 DEF Behind, Exists
  <2>2. QED
    BY <1>2, <2>1 DEF ScanInv, Told, ToldHash, Busy
<1>15. QED
  BY <1>2, <1>8, <1>9, <1>10, <1>11, <1>13, <1>14 DEF ScanInv, QuietBaseline

\* Writing, chmod, unlinking and replacing a file: a change with the date of the coarse clock.
LEMMA HostChanges ==
  ASSUME ScanInv, NEW p \in DOMAIN host.inodes,
         WriteFile(p) \/ Chmod(p) \/ Unlink(p) \/ PutNew(p)
  PROVE  \E q \in Paths, f \in File \cup {Missing} :
           (f # Missing => f.ctime = Stamp) /\ Change(q, f)
<1>1. Types /\ Times /\ p \in Paths
  BY DEF ScanInv, Types, Paths
<1>2. Stamp \in Nat
  BY <1>1, Clocks
<1>3. Exists(p) => fs[p] \in File
  BY <1>1, Fields DEF Exists
<1>4. CASE WriteFile(p)
  <2>1. PICK c \in Contents : Change(p, [fs[p] EXCEPT !.content = c, !.ctime = Stamp])
    BY <1>4 DEF WriteFile
  <2>2. [fs[p] EXCEPT !.content = c, !.ctime = Stamp] \in File
    BY <1>2, <1>3, <1>4 DEF WriteFile, File
  <2>3. [fs[p] EXCEPT !.content = c, !.ctime = Stamp].ctime = Stamp
    BY <1>3, <1>4 DEF WriteFile, File
  <2>4. QED
    BY <1>1, <2>1, <2>2, <2>3
<1>5. CASE Chmod(p)
  <2>1. Change(p, [fs[p] EXCEPT !.mode = 1 - @, !.ctime = Stamp])
    BY <1>5 DEF Chmod
  <2>2. [fs[p] EXCEPT !.mode = 1 - @, !.ctime = Stamp] \in File
    <3>1. fs[p] \in File /\ fs[p].mode \in {0, 1}
      BY <1>3, <1>5 DEF Chmod, File
    <3>2. PICK m \in {0, 1} : m = 1 - fs[p].mode
      BY <3>1
    <3>3. [fs[p] EXCEPT !.mode = m, !.ctime = Stamp] \in File
      BY <1>2, <3>1 DEF File
    <3>4. QED
      BY <3>2, <3>3
  <2>3. [fs[p] EXCEPT !.mode = 1 - @, !.ctime = Stamp].ctime = Stamp
    BY <1>3, <1>5 DEF Chmod, File
  <2>4. QED
    BY <1>1, <2>1, <2>2, <2>3
<1>6. CASE Unlink(p)
  BY <1>1, <1>6 DEF Unlink
<1>7. CASE PutNew(p)
  <2>1. PICK i \in Inodes :
          Change(p, [content |-> "b", ctime |-> Stamp, mode |-> 0, inode |-> i])
    BY <1>7 DEF PutNew
  <2>2. [content |-> "b", ctime |-> Stamp, mode |-> 0, inode |-> i] \in File
    BY <1>2 DEF File, Contents
  <2>3. QED
    BY <1>1, <2>1, <2>2
<1>8. QED
  BY <1>4, <1>5, <1>6, <1>7

\* Any of these changes.
LEMMA HostScan ==
  ASSUME ScanInv, NEW p \in DOMAIN host.inodes,
         WriteFile(p) \/ Chmod(p) \/ Unlink(p) \/ PutNew(p)
  PROVE  ScanInv'
BY HostChanges, ChangeScan

\* The clock, the root, a stop request, and no step.
LEMMA AsideScan ==
  ASSUME ScanInv, Tick \/ RootChanges \/ RequestStop \/ UNCHANGED integrityVars
  PROVE  ScanInv'
<1>1. Types /\ Times
  BY DEF ScanInv
<1>2. /\ UNCHANGED <<fs, host, pc, began, todo, hashing, snapshot, final, missing, baseline,
                     seeded, told, capped, due, unseen, unhashed>>
      /\ quiet' = quiet \/ quiet' = FALSE
      /\ now' = now \/ now' = now + 1
  BY DEF Tick, RootChanges, RequestStop, fsVars, scanVars, fileDiffVars, integrityVars
<1>3. StampOf(began)' = StampOf(began)
  BY <1>2 DEF StampOf
<1>4. now \in Nat /\ now' \in Nat /\ now <= now' /\ began \in Nat /\ RacyWindow \in Nat
  BY <1>1, <1>2, WindowAssumption DEF Types
<1>5. Stamp' = StampOf(now') /\ Stamp = StampOf(now)
  BY DEF Stamp, StampOf
<1>6. Stamp \in Nat /\ Stamp' \in Nat /\ Stamp <= Stamp'
  BY <1>4, <1>5, StampBounds, StampMonotone
<1>7. Types'
  BY <1>1, <1>2, <1>4 DEF Types
<1>8. Times'
  <2>0. began <= now /\ began <= now'
    BY <1>1, <1>4 DEF Times
  <2> SUFFICES ASSUME NEW p \in Paths
               PROVE  fs[p].ctime <= Stamp' /\ snapshot[p].ctime <= now'
    BY <1>1, <1>2, <1>3, <2>0 DEF Times, Busy
  <2>1. fs[p].ctime \in Nat /\ snapshot[p].ctime \in Nat
    BY <1>1, Fields
  <2>2. fs[p].ctime <= Stamp /\ snapshot[p].ctime <= now
    BY <1>1 DEF Times
  <2>3. QED
    BY <1>4, <1>6, <2>1, <2>2
<1>9. Cached'
  <2> SUFFICES ASSUME NEW p \in Paths
               PROVE  Vouches(baseline[p], p)' /\ Vouches(snapshot[p], p)'
    BY DEF Cached
  <2>1. Vouches(baseline[p], p) /\ Vouches(snapshot[p], p)
    BY DEF ScanInv, Cached
  <2>2. baseline[p].ctime \in Nat /\ snapshot[p].ctime \in Nat
    BY <1>1, Fields
  <2>3. \A c \in Nat : c + RacyWindow < now => c + RacyWindow < now'
    BY <1>4
  <2>4. QED
    BY <1>2, <2>1, <2>2, <2>3 DEF Vouches, Exists
<1>10. Faithful'
  BY <1>2, <1>3 DEF ScanInv, Faithful, Busy, Exists, Shows
<1>11. \A p \in Paths : Replaced(p) => Replaced(p)'
  BY <1>2, <1>3 DEF Replaced, Exists
<1>12. NoDigest'
  <2>1. pc' = "hash" => (fs[hashing].inode = snapshot[hashing].inode \/ Replaced(hashing))'
    BY <1>2, <1>3 DEF ScanInv, NoDigest, Replaced, Exists
  <2>2. QED
    BY <1>2, <1>3, <1>11, <2>1 DEF ScanInv, NoDigest, Busy, Hashing
<1>13. Told'
  <2>1. \A p \in Paths : Behind(p) => Behind(p)'
    <3> SUFFICES ASSUME NEW p \in Paths, Behind(p) PROVE Behind(p)'
      OBVIOUS
    <3>1. baseline[p].ctime \in Nat
      BY <1>1, Fields
    <3>2. baseline[p].ctime < Stamp => baseline[p].ctime < Stamp'
      BY <1>6, <3>1
    <3>3. QED
      BY <1>2, <3>2 DEF Behind, Exists
  <2>2. QED
    BY <1>2, <2>1 DEF ScanInv, Told, ToldHash, Busy
<1>14. QED
  BY <1>2, <1>7, <1>8, <1>9, <1>10, <1>12, <1>13
     DEF ScanInv, QuietBaseline, Shows, Exists

\* A scan starts with nothing in its snapshot, and after all dates of the last one unless it
\* is the final one.
LEMMA StartScan == ASSUME ScanInv, ScanStart PROVE ScanInv'
<1>1. Types /\ Times
  BY DEF ScanInv
<1>2. /\ pc = "idle" /\ pc' = "scan" /\ final' = stopping /\ began' = now
      /\ now >= due \/ stopping
      /\ snapshot' = [p \in Paths |-> NoFile] /\ missing' = ~rootOk
      /\ todo' \subseteq Paths /\ unseen' \cap todo' = {}
      /\ rootOk => \A p \in Paths : Exists(p) => p \in todo' \/ p \in unseen'
      /\ UNCHANGED <<fs, host, hashing, now, baseline, seeded, told, capped, due, unhashed>>
  BY DEF ScanStart, There, fsVars, fileDiffVars
<1>3. \A p \in Paths : snapshot'[p] = NoFile
  BY <1>2
<1>4. NoFile.ctime = 0 /\ NoFile.sha = "absent" /\ NoFile.cacheable = FALSE
  BY DEF NoFile
<1>5. now \in Nat /\ due \in Nat /\ Stamp \in Nat /\ now < Stamp + Gran /\ Gran \in Nat
      /\ PollEvery \in Nat /\ PollEvery >= Gran
  BY <1>1, Clocks DEF Types
<1>6. Stamp' = Stamp /\ StampOf(began') = Stamp
  BY <1>2 DEF Stamp, StampOf
<1>7. Types'
  BY <1>1, <1>2, <1>3, <1>4, <1>5 DEF Types, Snapshot
<1>8. Times'
  <2>1. began' <= now'
    BY <1>2, <1>5
  <2> SUFFICES ASSUME NEW p \in Paths, ~stopping, baseline[p] # NoFile
               PROVE  baseline[p].ctime < Stamp
    BY <1>1, <1>2, <1>3, <1>4, <1>5, <1>6, <2>1 DEF Times, Busy, StampOf
  <2>2. baseline[p].ctime \in Nat /\ baseline[p].ctime + PollEvery <= due
    BY <1>1, Fields DEF Times
  <2>3. due <= now
    BY <1>2, <1>5
  <2>4. QED
    BY <1>5, <2>2, <2>3
<1>9. Cached'
  BY <1>2, <1>3, <1>4 DEF ScanInv, Cached, Vouches, Exists, SameStat
<1>10. Faithful'
  BY <1>2, <1>3 DEF Faithful, Exists
<1>11. NoDigest'
  BY <1>2, <1>3, <1>4 DEF NoDigest
<1>12. Told'
  <2>1. \A p \in Paths : Behind(p) => Behind(p)'
    BY <1>2, <1>6 DEF Behind, Exists
  <2>2. QED
    BY <1>2, <1>3, <2>1 DEF ScanInv, Told, ToldHash
<1>13. QED
  BY <1>2, <1>7, <1>8, <1>9, <1>10, <1>11, <1>12 DEF ScanInv, QuietBaseline

\* What an lstat records of a file.
LEMMA LstatRecords ==
  ASSUME ScanInv, NEW p \in todo, Exists(p), NEW s,
         \/ s = Stat(p)
         \/ CacheHit(p) /\ s = [Stat(p) EXCEPT !.sha = baseline[p].sha]
  PROVE  /\ s \in State
         /\ s.ctime = fs[p].ctime /\ s.inode = fs[p].inode /\ s.mode = fs[p].mode
         /\ s.sha \in {fs[p].content, "none"}
         /\ p \in Unhashable => s.sha = "none"
         /\ s.cacheable => fs[p].ctime + RacyWindow < began
<1>1. p \in Paths /\ fs[p] \in File
  BY Fields DEF ScanInv, Types, Exists
<1>2. Stat(p).sha = "none" /\ Stat(p) \in State
  <2>1. Cacheable(fs[p].ctime) \in BOOLEAN
    BY DEF Cacheable
  <2>2. QED
    BY <1>1, <2>1 DEF Stat, State, File
<1>3. /\ Stat(p).ctime = fs[p].ctime /\ Stat(p).inode = fs[p].inode
      /\ Stat(p).mode = fs[p].mode /\ Stat(p).cacheable = Cacheable(fs[p].ctime)
  BY DEF Stat
<1>4. CASE s = Stat(p)
  BY <1>2, <1>3, <1>4 DEF Cacheable
<1>5. CASE CacheHit(p) /\ s = [Stat(p) EXCEPT !.sha = baseline[p].sha]
  <2>1. /\ baseline[p].cacheable
        /\ baseline[p].ctime = fs[p].ctime /\ baseline[p].inode = fs[p].inode
    BY <1>3, <1>5 DEF CacheHit, SameStat
  <2>2. baseline[p].sha \in {fs[p].content, "none"}
    BY <1>1, <2>1 DEF ScanInv, Cached, Vouches, SameStat
  <2>3. baseline[p] \in State /\ baseline[p].sha \in Contents \cup {"none"}
    <3>1. baseline[p] # NoFile
      BY <2>1 DEF NoFile
    <3>2. baseline[p] \in State
      BY <1>1, <3>1, Fields DEF ScanInv
    <3>3. QED
      BY <3>2 DEF State
  <2>4. p \in Unhashable => baseline[p].sha = "none"
    BY <1>1, <2>3 DEF ScanInv, Types, Contents
  <2>5. /\ s \in State /\ s.sha = baseline[p].sha
        /\ s.ctime = fs[p].ctime /\ s.inode = fs[p].inode /\ s.mode = fs[p].mode
        /\ s.cacheable = Cacheable(fs[p].ctime)
    BY <1>2, <1>3, <1>5, <2>3 DEF State
  <2>6. QED
    BY <2>2, <2>4, <2>5 DEF Cacheable
<1>6. QED
  BY <1>4, <1>5

\* What a scan does with one file it looks at.
LEMMA LstatStep ==
  ASSUME ScanInv, Lstat
  PROVE  \E p \in todo, s \in State \cup {NoFile} :
           /\ todo' = todo \ {p} /\ snapshot' = [snapshot EXCEPT ![p] = s]
           /\ UNCHANGED <<fs, now, host, began, final, missing, baseline, seeded, told, capped,
                          due, quiet, last, ids, blind, gone, unhashed>>
           /\ unseen' = IF Exists(p) /\ s = NoFile THEN unseen \cup {p} ELSE unseen
           /\ ~Exists(p) => s = NoFile
           /\ s # NoFile =>
                /\ s.ctime = fs[p].ctime /\ s.inode = fs[p].inode /\ s.mode = fs[p].mode
                /\ s.sha \in {fs[p].content, "none"}
                /\ p \in Unhashable => s.sha = "none"
                /\ s.cacheable => fs[p].ctime + RacyWindow < began
           /\ \/ /\ UNCHANGED <<pc, hashing>>
                 /\ s.sha = "none" /\ p \notin Unhashable =>
                      baseline[p].sha = "none" /\ baseline[p].ctime = s.ctime
              \/ /\ pc' = "hash" /\ hashing' = p
                 /\ s # NoFile /\ p \notin Unhashable /\ s.sha = "none"
<1>1. PICK p \in todo :
        \/ /\ ~Exists(p)
           /\ RecordFile(p, NoFile) /\ UNCHANGED <<pc, hashing, unseen>>
        \/ /\ Exists(p)
           /\ RecordFile(p, NoFile) /\ unseen' = unseen \cup {p} /\ UNCHANGED <<pc, hashing>>
        \/ /\ Exists(p) /\ CacheHit(p)
           /\ RecordFile(p, [Stat(p) EXCEPT !.sha = baseline[p].sha])
           /\ UNCHANGED <<pc, hashing, unseen>>
        \/ /\ Exists(p) /\ ~CacheHit(p) /\ p \in Unhashable
           /\ RecordFile(p, Stat(p)) /\ UNCHANGED <<pc, hashing, unseen>>
        \/ /\ Exists(p) /\ ~CacheHit(p) /\ p \notin Unhashable
           /\ RecordFile(p, Stat(p)) /\ pc' = "hash" /\ hashing' = p /\ UNCHANGED unseen
  BY DEF Lstat
<1>2. ASSUME NEW s, RecordFile(p, s)
      PROVE  /\ todo' = todo \ {p} /\ snapshot' = [snapshot EXCEPT ![p] = s]
             /\ UNCHANGED <<fs, now, host, began, final, missing, baseline, seeded, told,
                            capped, due, quiet, last, ids, blind, gone, unhashed>>
  BY <1>2 DEF Lstat, RecordFile, fsVars, fileDiffVars
<1>3. \A s \in State : s # NoFile
  BY DEF State, NoFile, Inodes
<1>4. CASE /\ RecordFile(p, NoFile) /\ UNCHANGED <<pc, hashing>>
           /\ unseen' = IF Exists(p) THEN unseen \cup {p} ELSE unseen
  <2>1. NoFile.sha = "absent"
    BY DEF NoFile
  <2>2. QED
    BY <1>2, <1>4, <2>1
<1>5. CASE /\ Exists(p) /\ CacheHit(p)
           /\ RecordFile(p, [Stat(p) EXCEPT !.sha = baseline[p].sha])
           /\ UNCHANGED <<pc, hashing, unseen>>
  <2>1. PICK s : s = [Stat(p) EXCEPT !.sha = baseline[p].sha]
    OBVIOUS
  <2>2. /\ s \in State
        /\ s.ctime = fs[p].ctime /\ s.inode = fs[p].inode /\ s.mode = fs[p].mode
        /\ s.sha \in {fs[p].content, "none"}
        /\ p \in Unhashable => s.sha = "none"
        /\ s.cacheable => fs[p].ctime + RacyWindow < began
    BY <1>5, <2>1, LstatRecords
  <2>3. s.sha = baseline[p].sha /\ baseline[p].ctime = fs[p].ctime
    BY <1>5, <2>1 DEF CacheHit, SameStat, Stat
  <2>4. RecordFile(p, s)
    BY <1>5, <2>1
  <2>5. QED
    BY <1>2, <1>3, <1>5, <2>2, <2>3, <2>4
<1>6. CASE Exists(p) /\ RecordFile(p, Stat(p)) /\ UNCHANGED unseen
           /\ \/ p \in Unhashable /\ UNCHANGED <<pc, hashing>>
              \/ p \notin Unhashable /\ pc' = "hash" /\ hashing' = p
  <2>1. PICK s : s = Stat(p)
    OBVIOUS
  <2>2. /\ s \in State
        /\ s.ctime = fs[p].ctime /\ s.inode = fs[p].inode /\ s.mode = fs[p].mode
        /\ s.sha \in {fs[p].content, "none"}
        /\ p \in Unhashable => s.sha = "none"
        /\ s.cacheable => fs[p].ctime + RacyWindow < began
    BY <1>6, <2>1, LstatRecords
  <2>3. s.sha = "none"
    BY <2>1 DEF Stat
  <2>4. RecordFile(p, s)
    BY <1>6, <2>1
  <2>5. QED
    BY <1>2, <1>3, <1>6, <2>2, <2>3, <2>4
<1>7. QED
  BY <1>1, <1>4, <1>5, <1>6

\* A scan looks at one file.
LEMMA LstatScan == ASSUME ScanInv, Lstat PROVE ScanInv'
<1>1. Types /\ Times
  BY DEF ScanInv
<1>2. PICK p \in todo, s \in State \cup {NoFile} :
        /\ todo' = todo \ {p} /\ snapshot' = [snapshot EXCEPT ![p] = s]
        /\ UNCHANGED <<fs, now, host, began, final, missing, baseline, seeded, told, capped,
                       due, quiet, unhashed>>
        /\ unseen' = IF Exists(p) /\ s = NoFile THEN unseen \cup {p} ELSE unseen
        /\ ~Exists(p) => s = NoFile
        /\ s # NoFile =>
             /\ s.ctime = fs[p].ctime /\ s.inode = fs[p].inode /\ s.mode = fs[p].mode
             /\ s.sha \in {fs[p].content, "none"}
             /\ p \in Unhashable => s.sha = "none"
             /\ s.cacheable => fs[p].ctime + RacyWindow < began
        /\ \/ /\ UNCHANGED <<pc, hashing>>
              /\ s.sha = "none" /\ p \notin Unhashable =>
                   baseline[p].sha = "none" /\ baseline[p].ctime = s.ctime
           \/ /\ pc' = "hash" /\ hashing' = p
              /\ s # NoFile /\ p \notin Unhashable /\ s.sha = "none"
  BY LstatStep
<1>3. pc = "scan" /\ pc' \in {"scan", "hash"}
  BY <1>2 DEF Lstat
<1>4. p \in Paths /\ \A q \in Paths : snapshot'[q] = IF q = p THEN s ELSE snapshot[q]
  BY <1>1, <1>2 DEF Types, Snapshot
<1>5. Stamp' = Stamp /\ StampOf(began)' = StampOf(began)
  BY <1>2 DEF Stamp, StampOf
<1>6. /\ NoFile.ctime = 0 /\ NoFile.sha = "absent" /\ NoFile.cacheable = FALSE
      /\ now \in Nat /\ began \in Nat /\ began <= now /\ Stamp \in Nat /\ Stamp <= now
      /\ RacyWindow \in Nat /\ fs[p].ctime \in Nat /\ fs[p].ctime <= Stamp
  BY <1>1, <1>4, Clocks, Fields DEF NoFile, Times
<1>7. Types'
  <2>1. snapshot' \in Snapshot
    BY <1>1, <1>2, <1>4 DEF Types, Snapshot
  <2>2. \A q \in Unhashable \cap Paths :
          {baseline'[q].sha, snapshot'[q].sha, told'[q].sha} \subseteq {"none", "absent"}
    BY <1>1, <1>2, <1>4, <1>6 DEF Types
  <2>3. pc' = "hash" =>
          /\ hashing' \in Paths \ Unhashable /\ hashing' \notin todo'
          /\ snapshot'[hashing'].sha = "none"
    BY <1>2, <1>3, <1>4
  <2>4. QED
    BY <1>1, <1>2, <1>3, <2>1, <2>2, <2>3 DEF Types
<1>8. Times'
  <2>1. s.ctime <= now
    <3>1. CASE s # NoFile
      <4>1. s.ctime = fs[p].ctime
        BY <1>2, <3>1
      <4>2. QED
        BY <1>6, <4>1
    <3>2. CASE s = NoFile
      BY <1>6, <3>2
    <3>3. QED
      BY <3>1, <3>2
  <2>2. QED
    BY <1>1, <1>2, <1>3, <1>4, <1>5, <2>1 DEF Times, Busy
<1>9. Cached'
  <2>1. Exists(p)' = Exists(p) /\ \A q \in Paths : Exists(q)' = Exists(q)
    BY <1>2 DEF Exists
  <2>2. s.cacheable => s.ctime + RacyWindow < now
    BY <1>2, <1>6
  <2>3. QED
    BY <1>2, <1>4, <1>6, <2>1, <2>2 DEF ScanInv, Cached, Vouches
<1>10. Faithful'
  BY <1>2, <1>3, <1>4, <1>5 DEF ScanInv, Faithful, Busy, Shows, Exists
<1>11. NoDigest'
  <2>1. \A q \in Paths : Replaced(q) => Replaced(q)'
    BY <1>2, <1>5 DEF Replaced, Exists
  <2>2. pc' = "hash" => fs'[hashing'].inode = snapshot'[hashing'].inode
    BY <1>2, <1>3, <1>4
  <2>3. \A q \in Paths : ~Hashing(q)
    BY <1>3 DEF Hashing
  <2>4. pc' = "scan" => (s.sha = "none" /\ p \notin Unhashable =>
                           baseline[p].sha = "none" /\ baseline[p].ctime = s.ctime)
    BY <1>2
  <2>5. pc' = "hash" => Hashing(p)'
    BY <1>2, <1>3 DEF Hashing
  <2>6. QED
    BY <1>2, <1>3, <1>4, <1>5, <2>1, <2>2, <2>3, <2>4, <2>5 DEF ScanInv, NoDigest, Busy
<1>12. Told'
  <2>1. \A q \in Paths : Behind(q) <=> Behind(q)'
    BY <1>2, <1>5 DEF Behind, Exists
  <2>2. \A q \in Paths : ToldHash(q) => ToldHash(q)'
    BY <1>2, <1>3, <2>1 DEF ToldHash
  <2>3. /\ seeded /\ p \notin Unhashable /\ p \notin unhashed
        /\ told[p].sha \notin {baseline[p].sha, "none"} /\ s # NoFile
        => s.ctime > baseline[p].ctime
    BY <1>2, <1>3, <1>4 DEF ScanInv, Told, ToldHash, Behind
  <2>4. QED
    BY <1>2, <1>3, <1>4, <2>2, <2>3 DEF ScanInv, Told, Busy
<1>13. QED
  BY <1>3, <1>7, <1>8, <1>9, <1>10, <1>11, <1>12 DEF ScanInv, QuietBaseline

\* What a scan does with the file it reads: its content, if it is still the file lstat saw.
LEMMA HashStep ==
  ASSUME ScanInv, Hash
  PROVE  \E p \in Paths \ Unhashable, s \in State :
           /\ p = hashing /\ p \notin todo /\ snapshot[p] # NoFile
           /\ pc = "hash" /\ pc' = "scan" /\ todo' = todo
           /\ snapshot' = [snapshot EXCEPT ![p] = s]
           /\ UNCHANGED <<fs, now, host, began, final, missing, baseline, seeded, told, capped,
                          due, quiet, last, ids, blind, gone, unseen>>
           /\ unhashed \subseteq unhashed'
           /\ s.ctime = snapshot[p].ctime /\ s.inode = snapshot[p].inode
           /\ s.mode = snapshot[p].mode /\ s.cacheable = snapshot[p].cacheable
           /\ \/ s.sha = fs[p].content /\ s.sha # "none"
              \/ s.sha = "none" /\ (Replaced(p) \/ p \in unhashed')
<1>1. Types /\ Times
  BY DEF ScanInv
<1>2. PICK p \in Paths \ Unhashable : p = hashing /\ p \notin todo /\ snapshot[p].sha = "none"
  BY <1>1 DEF Hash, Types
<1>3. PICK s : /\ RecordFile(p, s) /\ unhashed \subseteq unhashed'
               /\ \/ s = IF fs[p].inode = snapshot[p].inode
                         THEN [snapshot[p] EXCEPT !.sha = fs[p].content] ELSE snapshot[p]
                  \/ s = snapshot[p] /\ p \in unhashed'
  BY <1>2 DEF Hash
<1>4. /\ pc = "hash" /\ pc' = "scan" /\ todo' = todo
      /\ snapshot' = [snapshot EXCEPT ![p] = s]
      /\ UNCHANGED <<fs, now, host, began, final, missing, baseline, seeded, told, capped,
                     due, quiet, last, ids, blind, gone, unseen>>
  BY <1>2, <1>3 DEF Hash, RecordFile, fsVars, fileDiffVars
<1>6. snapshot[p] \in State /\ snapshot[p] # NoFile
  <2>1. snapshot[p] # NoFile
    BY <1>2 DEF NoFile
  <2>2. QED
    BY <1>1, <2>1, Fields
<1>7. /\ s \in State /\ s.ctime = snapshot[p].ctime /\ s.inode = snapshot[p].inode
      /\ s.mode = snapshot[p].mode /\ s.cacheable = snapshot[p].cacheable
      /\ \/ s.sha = fs[p].content /\ s.sha # "none"
         \/ s.sha = "none" /\ (Replaced(p) \/ p \in unhashed')
  <2>0. CASE s = snapshot[p] /\ p \in unhashed'
    BY <1>2, <1>6, <2>0
  <2>1. CASE /\ fs[p].inode = snapshot[p].inode
             /\ s = [snapshot[p] EXCEPT !.sha = fs[p].content]
    <3>1. Exists(p) /\ fs[p] \in File /\ fs[p].content \in Contents
      <4>1. snapshot[p].inode \in Inodes
        BY <1>6 DEF State
      <4>2. fs[p] # Missing
        BY <2>1, <4>1 DEF Missing, Inodes
      <4>3. fs[p] \in File
        BY <1>1, <4>2, Fields
      <4>4. QED
        BY <4>2, <4>3 DEF Exists, File
    <3>2. /\ s \in State /\ s.sha = fs[p].content
          /\ s.ctime = snapshot[p].ctime /\ s.inode = snapshot[p].inode
          /\ s.mode = snapshot[p].mode /\ s.cacheable = snapshot[p].cacheable
      BY <1>6, <2>1, <3>1 DEF State
    <3>3. QED
      BY <3>1, <3>2 DEF Contents
  <2>2. CASE fs[p].inode # snapshot[p].inode /\ s = snapshot[p]
    <3>1. s = snapshot[p]
      BY <2>2
    <3>2. Replaced(p)
      BY <1>2, <1>4, <2>2 DEF ScanInv, NoDigest
    <3>3. QED
      BY <1>2, <1>6, <3>1, <3>2
  <2>3. QED
    BY <1>3, <2>0, <2>1, <2>2
<1>8. QED
  BY <1>2, <1>3, <1>4, <1>6, <1>7

\* A scan reads one file.
LEMMA HashScan == ASSUME ScanInv, Hash PROVE ScanInv'
<1>1. Types /\ Times
  BY DEF ScanInv
<1>2. PICK p \in Paths \ Unhashable, s \in State :
        /\ p = hashing /\ p \notin todo /\ snapshot[p] # NoFile
        /\ pc = "hash" /\ pc' = "scan" /\ todo' = todo
        /\ snapshot' = [snapshot EXCEPT ![p] = s]
        /\ UNCHANGED <<fs, now, host, began, final, missing, baseline, seeded, told, capped,
                       due, quiet, unseen>>
        /\ unhashed \subseteq unhashed'
        /\ s.ctime = snapshot[p].ctime /\ s.inode = snapshot[p].inode
        /\ s.mode = snapshot[p].mode /\ s.cacheable = snapshot[p].cacheable
        /\ \/ s.sha = fs[p].content /\ s.sha # "none"
           \/ s.sha = "none" /\ (Replaced(p) \/ p \in unhashed')
  BY HashStep
<1>3. \A q \in Paths : snapshot'[q] = IF q = p THEN s ELSE snapshot[q]
  BY <1>1, <1>2 DEF Types, Snapshot
<1>4. Stamp' = Stamp /\ StampOf(began)' = StampOf(began)
  BY <1>2 DEF Stamp, StampOf
<1>5. Types'
  <2>1. snapshot' \in Snapshot
    BY <1>1, <1>2, <1>3 DEF Types, Snapshot
  <2>2. \A q \in Unhashable \cap Paths :
          {baseline'[q].sha, snapshot'[q].sha, told'[q].sha} \subseteq {"none", "absent"}
    BY <1>1, <1>2, <1>3 DEF Types
  <2>3. QED
    BY <1>1, <1>2, <2>1, <2>2 DEF Types
<1>6. Times'
  BY <1>1, <1>2, <1>3, <1>4 DEF Times, Busy
<1>7. Cached'
  <2>1. \A q \in Paths : Exists(q)' = Exists(q)
    BY <1>2 DEF Exists
  <2>2. QED
    BY <1>2, <1>3, <2>1 DEF ScanInv, Cached, Vouches
<1>8. Faithful'
  <2>1. s # NoFile
    BY <1>2 DEF State, NoFile, Inodes
  <2>2. QED
    BY <1>2, <1>3, <1>4, <2>1 DEF ScanInv, Faithful, Busy, Shows, Exists
<1>9. NoDigest'
  <2>1. \A q \in Paths : Replaced(q) => Replaced(q)'
    BY <1>2, <1>4 DEF Replaced, Exists
  <2>2. \A q \in Paths : Hashing(q) => q = p
    BY <1>2 DEF Hashing
  <2>3. QED
    BY <1>2, <1>3, <1>4, <2>1, <2>2 DEF ScanInv, NoDigest, Busy
<1>10. Told'
  <2>1. \A q \in Paths : Behind(q) <=> Behind(q)'
    BY <1>2, <1>4 DEF Behind, Exists
  <2>2. \A q \in Paths : ToldHash(q) => ToldHash(q)'
    BY <1>2, <2>1 DEF ToldHash
  <2>3. QED
    BY <1>2, <1>3, <2>2 DEF ScanInv, Told, Busy
<1>11. QED
  BY <1>2, <1>5, <1>6, <1>7, <1>8, <1>9, <1>10 DEF ScanInv, QuietBaseline

\* A discarded scan changes nothing of what is known.
LEMMA InterruptScan == ASSUME ScanInv, ScanInterrupted PROVE ScanInv'
<1>1. Types /\ Times
  BY DEF ScanInv
<1>2. /\ pc = "scan" /\ pc' \in {"idle", "closed"} /\ quiet' = FALSE
      /\ began' = 0 /\ todo' = {} /\ snapshot' = [p \in Paths |-> NoFile]
      /\ UNCHANGED <<fs, host, now, baseline, seeded, told, capped, due, unhashed>>
  BY DEF ScanInterrupted, ScanOver, fsVars, fileDiffVars
<1>3. \A p \in Paths : snapshot'[p] = NoFile
  BY <1>2
<1>4. /\ NoFile.ctime = 0 /\ NoFile.sha = "absent" /\ NoFile.cacheable = FALSE
      /\ now \in Nat
  BY <1>1 DEF NoFile, Types
<1>5. Stamp' = Stamp
  BY <1>2 DEF Stamp, StampOf
<1>6. Types'
  BY <1>1, <1>2, <1>3, <1>4 DEF Types, Snapshot
<1>7. Times'
  <2>1. began' <= now' /\ 0 <= now'
    BY <1>2, <1>4
  <2>2. QED
    BY <1>1, <1>2, <1>3, <1>4, <1>5, <2>1 DEF Times, Busy
<1>8. Cached'
  BY <1>2, <1>3, <1>4 DEF ScanInv, Cached, Vouches, Exists, SameStat
<1>9. Told'
  <2>1. \A p \in Paths : Behind(p) => Behind(p)'
    BY <1>2, <1>5 DEF Behind, Exists
  <2>2. QED
    BY <1>2, <2>1 DEF ScanInv, Told, ToldHash, Busy
<1>10. QED
  BY <1>2, <1>6, <1>7, <1>8, <1>9 DEF ScanInv, Faithful, NoDigest, QuietBaseline, Busy


\* The events of a diff.
LEMMA DiffEvents ==
  ASSUME NEW old, NEW new
  PROVE  \A e : e \in FileDiff(old, new) <=>
           \E p \in Paths :
             \/ /\ e = Event(p, "created", Fingerprint(new[p]))
                /\ old[p] = NoFile /\ new[p] # NoFile
             \/ /\ e = Event(p, "modified", Fingerprint(new[p]))
                /\ old[p] # NoFile /\ new[p] # NoFile /\ ContentChanged(old[p], new[p])
             \/ /\ e = Event(p, "attributes", AttrsSeed(new[p]))
                /\ old[p] # NoFile /\ new[p] # NoFile /\ AttributesChanged(old[p], new[p])
             \/ /\ e = Event(p, "deleted", Fingerprint(old[p]))
                /\ old[p] # NoFile /\ new[p] = NoFile
BY DEF FileDiff, Found, Rewritten, Chmodded

\* Whether some event of es has this action for a path.
Says(es, p, action) == \E e \in es : e.path = p /\ e.action = action

\* Which events a diff has for a path.
LEMMA DiffSays ==
  ASSUME NEW old, NEW new, NEW p \in Paths
  PROVE  /\ Says(FileDiff(old, new), p, "created") <=> old[p] = NoFile /\ new[p] # NoFile
         /\ Says(FileDiff(old, new), p, "deleted") <=> old[p] # NoFile /\ new[p] = NoFile
         /\ Says(FileDiff(old, new), p, "modified") <=>
              old[p] # NoFile /\ new[p] # NoFile /\ ContentChanged(old[p], new[p])
         /\ Says(FileDiff(old, new), p, "attributes") <=>
              old[p] # NoFile /\ new[p] # NoFile /\ AttributesChanged(old[p], new[p])
<1>1. \A q, a, seed : Event(q, a, seed).path = q /\ Event(q, a, seed).action = a
  BY DEF Event
<1>2. QED
  BY <1>1, DiffEvents DEF Says

\* What the events of a diff tell of a path: its new state, but for a digest that could not
\* be had.
LEMMA DiffTells ==
  ASSUME ScanInv, seeded, NEW p \in Paths, NEW t,
         t = FileToldBy(FileDiff(baseline, snapshot), p)
  PROVE  /\ t \in State \cup {NoFile}
         /\ t = NoFile <=> snapshot[p] = NoFile
         /\ t.mode = (IF AttributesChanged(baseline[p], snapshot[p])
                      THEN snapshot[p].mode ELSE told[p].mode)
         /\ baseline[p] = NoFile \/ snapshot[p] = NoFile => t = snapshot[p]
         /\ baseline[p] # NoFile /\ snapshot[p] # NoFile =>
              IF ContentChanged(baseline[p], snapshot[p])
              THEN t.sha = snapshot[p].sha /\ t.ctime = snapshot[p].ctime
              ELSE t.sha = told[p].sha /\ t.ctime = told[p].ctime
<1> DEFINE es == FileDiff(baseline, snapshot)
<1>1. /\ Says(es, p, "created") <=> baseline[p] = NoFile /\ snapshot[p] # NoFile
      /\ Says(es, p, "deleted") <=> baseline[p] # NoFile /\ snapshot[p] = NoFile
      /\ Says(es, p, "modified") <=>
           /\ baseline[p] # NoFile /\ snapshot[p] # NoFile
           /\ ContentChanged(baseline[p], snapshot[p])
      /\ Says(es, p, "attributes") <=>
           /\ baseline[p] # NoFile /\ snapshot[p] # NoFile
           /\ AttributesChanged(baseline[p], snapshot[p])
  BY DiffSays
<1>2. t = IF Says(es, p, "deleted") THEN NoFile
          ELSE IF Says(es, p, "created") THEN snapshot[p]
          ELSE [told[p] EXCEPT
                  !.sha = IF Says(es, p, "modified") THEN snapshot[p].sha ELSE @,
                  !.ctime = IF Says(es, p, "modified") THEN snapshot[p].ctime ELSE @,
                  !.mode = IF Says(es, p, "attributes") THEN snapshot[p].mode ELSE @]
  BY DEF FileToldBy, Says
<1> HIDE DEF es
<1>3. /\ baseline[p] = NoFile \/ baseline[p] \in State
      /\ snapshot[p] = NoFile \/ snapshot[p] \in State
      /\ told[p] = NoFile \/ told[p] \in State
      /\ told[p] = NoFile <=> baseline[p] = NoFile
      /\ told[p].mode = baseline[p].mode
      /\ \A s \in State : s # NoFile
  BY Fields DEF ScanInv, Told, State, NoFile, Inodes
<1>4. CASE baseline[p] # NoFile /\ snapshot[p] = NoFile
  BY <1>1, <1>2, <1>3, <1>4 DEF AttributesChanged
<1>5. CASE baseline[p] = NoFile /\ snapshot[p] # NoFile
  BY <1>1, <1>2, <1>3, <1>5 DEF AttributesChanged
<1>6. CASE baseline[p] = NoFile /\ snapshot[p] = NoFile
  <2>1. t = [NoFile EXCEPT !.sha = @, !.ctime = @, !.mode = @]
    BY <1>1, <1>2, <1>3, <1>6
  <2>2. t = NoFile
    BY <2>1 DEF NoFile
  <2>3. QED
    BY <1>3, <1>6, <2>2
<1>7. CASE baseline[p] # NoFile /\ snapshot[p] # NoFile
  <2>1. told[p] \in State /\ snapshot[p] \in State
    BY <1>3, <1>7
  <2>2. /\ snapshot[p].sha \in Contents \cup {"none"} /\ snapshot[p].ctime \in Nat
        /\ snapshot[p].mode \in {0, 1}
        /\ told[p].sha \in Contents \cup {"none"} /\ told[p].ctime \in Nat
        /\ told[p].mode \in {0, 1}
    BY <2>1 DEF State
  <2>3. PICK sha \in Contents \cup {"none"}, ctime \in Nat, mode \in {0, 1} :
          /\ sha = IF Says(es, p, "modified") THEN snapshot[p].sha ELSE told[p].sha
          /\ ctime = IF Says(es, p, "modified") THEN snapshot[p].ctime ELSE told[p].ctime
          /\ mode = IF Says(es, p, "attributes") THEN snapshot[p].mode ELSE told[p].mode
    BY <2>2
  <2>4. t = [told[p] EXCEPT !.sha = sha, !.ctime = ctime, !.mode = mode]
    BY <1>1, <1>2, <1>7, <2>3
  <2>5. t \in State /\ t.sha = sha /\ t.ctime = ctime /\ t.mode = mode
    BY <2>1, <2>3, <2>4 DEF State
  <2>6. QED
    BY <1>1, <1>3, <1>7, <2>3, <2>5
<1>8. QED
  BY <1>4, <1>5, <1>6, <1>7

\* A complete scan: its snapshot is the new baseline, and the events tell of it.
LEMMA DoneScan == ASSUME ScanInv, ScanDone PROVE ScanInv'
<1>1. Types /\ Times
  BY DEF ScanInv
<1>2. /\ pc = "scan" /\ pc' = (IF final THEN "closed" ELSE "idle")
      /\ began' = 0 /\ todo' = {} /\ snapshot' = [p \in Paths |-> NoFile]
      /\ due' = now + PollEvery /\ baseline' = snapshot
      /\ seeded' = TRUE
      /\ told' = IF seeded THEN [p \in Paths |-> FileToldBy(last', p)] ELSE snapshot
      /\ seeded => last' = FileDiff(baseline, snapshot)
      /\ unhashed' = {p \in unhashed :
                       seeded /\ \A e \in last' : e.path = p => e.action = "attributes"}
      /\ UNCHANGED <<fs, host, now, missing, quiet, unseen>>
  BY DEF ScanDone, ScanOver, fsVars
<1>3. \A p \in Paths : snapshot'[p] = NoFile
  BY <1>2
<1>4. /\ NoFile.ctime = 0 /\ NoFile.sha = "absent" /\ NoFile.cacheable = FALSE
      /\ now \in Nat /\ PollEvery \in Nat
      /\ Stamp \in Nat /\ StampOf(began) \in Nat /\ StampOf(began) <= Stamp
  BY <1>1, Clocks DEF NoFile
<1>5. Stamp' = Stamp
  BY <1>2 DEF Stamp, StampOf
<1>6. ASSUME seeded, NEW p \in Paths
      PROVE  /\ told'[p] \in State \cup {NoFile}
             /\ told'[p] = NoFile <=> snapshot[p] = NoFile
             /\ told'[p].mode = (IF AttributesChanged(baseline[p], snapshot[p])
                                 THEN snapshot[p].mode ELSE told[p].mode)
             /\ baseline[p] = NoFile \/ snapshot[p] = NoFile => told'[p] = snapshot[p]
             /\ baseline[p] # NoFile /\ snapshot[p] # NoFile =>
                  IF ContentChanged(baseline[p], snapshot[p])
                  THEN told'[p].sha = snapshot[p].sha /\ told'[p].ctime = snapshot[p].ctime
                  ELSE told'[p].sha = told[p].sha /\ told'[p].ctime = told[p].ctime
  <2>1. PICK t : t = FileToldBy(FileDiff(baseline, snapshot), p)
    OBVIOUS
  <2>2. told'[p] = t
    BY <1>2, <1>6, <2>1
  <2>3. QED
    BY <1>6, <2>1, <2>2, DiffTells
<1>7. Types'
  <2>1. told' \in Snapshot
    <3>1. CASE seeded
      BY <1>2, <1>6, <3>1 DEF Snapshot
    <3>2. CASE ~seeded
      BY <1>1, <1>2, <3>2 DEF Types
    <3>3. QED
      BY <3>1, <3>2
  <2>2. ASSUME NEW p \in Unhashable \cap Paths
        PROVE  told'[p].sha \in {"none", "absent"}
    <3>1. snapshot[p].sha \in {"none", "absent"} /\ told[p].sha \in {"none", "absent"}
      BY <1>1 DEF Types
    <3>2. CASE seeded
      BY <1>6, <3>1, <3>2
    <3>3. CASE ~seeded
      BY <1>2, <3>1, <3>3
    <3>4. QED
      BY <3>2, <3>3
  <2>3. snapshot' \in Snapshot /\ due' \in Nat /\ pc' \in {"idle", "closed"}
    BY <1>2, <1>4 DEF Snapshot
  <2>4. QED
    BY <1>1, <1>2, <1>3, <1>4, <2>1, <2>2, <2>3 DEF Types
<1>8. Times'
  <2>1. began' <= now' /\ 0 <= now'
    BY <1>2, <1>4
  <2>2. \A p \in Paths : snapshot[p].ctime + PollEvery <= now + PollEvery
    <3> SUFFICES ASSUME NEW p \in Paths PROVE snapshot[p].ctime + PollEvery <= now + PollEvery
      OBVIOUS
    <3>1. snapshot[p].ctime \in Nat /\ snapshot[p].ctime <= now
      BY <1>1, Fields DEF Times
    <3>2. QED
      BY <1>4, <3>1
  <2>3. QED
    BY <1>1, <1>2, <1>3, <1>4, <1>5, <2>1, <2>2 DEF Times, Busy
<1>9. Cached'
  BY <1>2, <1>3, <1>4 DEF ScanInv, Cached, Vouches, Exists, SameStat
<1>10. QuietBaseline'
  <2> SUFFICES ASSUME quiet, ~missing, todo = {}, NEW p \in Paths
               PROVE  IF Exists(p) /\ p \notin unseen
                      THEN Shows(snapshot[p], fs[p]) ELSE snapshot[p] = NoFile
    <3>1. ~capped' => todo = {}
      BY DEF ScanDone, ScanComplete
    <3>2. \A p \in Paths : Exists(p)' = Exists(p)
      BY <1>2 DEF Exists
    <3>3. QED
      BY <1>2, <3>1, <3>2 DEF QuietBaseline
  <2>1. QED
    BY <1>2 DEF ScanInv, Faithful, Busy
<1>11. ASSUME NEW p \in Paths \ Unhashable, seeded
       PROVE  ToldHash(p)'
  <2> SUFFICES ASSUME told'[p].sha \notin {snapshot[p].sha, "none"}, p \notin unhashed'
               PROVE  \/ pc' # "closed" /\ Behind(p)'
                      \/ pc' = "closed" /\ ~quiet
    BY <1>2 DEF ToldHash
  <2>1. /\ baseline[p] # NoFile /\ snapshot[p] # NoFile
        /\ ~ContentChanged(baseline[p], snapshot[p]) /\ told'[p].sha = told[p].sha
    BY <1>6, <1>11
  <2>10. p \notin unhashed
    <3>1. \A e \in FileDiff(baseline, snapshot) : e.path = p => e.action = "attributes"
      <4>1. \A q, a, seed : Event(q, a, seed).path = q /\ Event(q, a, seed).action = a
        BY DEF Event
      <4>2. QED
        BY <2>1, <4>1, DiffEvents
    <3>2. QED
      BY <1>2, <1>11, <3>1
  <2>2. /\ told[p].sha \in {baseline[p].sha, "none"} \/ Behind(p)
        /\ told[p].sha \notin {baseline[p].sha, "none"} =>
             snapshot[p].ctime > baseline[p].ctime
    BY <1>2, <1>11, <2>1, <2>10 DEF ScanInv, Told, ToldHash, Busy
  <2>3. /\ snapshot[p].ctime \in Nat /\ baseline[p].ctime \in Nat /\ fs[p].ctime \in Nat
    BY <1>1, Fields
  <2>4. told[p].sha = baseline[p].sha
    <3> SUFFICES ASSUME told[p].sha \notin {baseline[p].sha, "none"} PROVE FALSE
      BY <2>1
    <3>1. baseline[p].sha = "none" /\ snapshot[p].ctime > baseline[p].ctime
      BY <2>2 DEF Behind
    <3>2. snapshot[p].ctime = baseline[p].ctime
      BY <2>1, <3>1 DEF ContentChanged
    <3>3. QED
      BY <2>3, <3>1, <3>2
  <2>5. snapshot[p].sha = "none" /\ snapshot[p].ctime = baseline[p].ctime
        /\ baseline[p].sha # "none"
    BY <2>1, <2>4 DEF ContentChanged
  <2>6. ~quiet
        /\ (snapshot[p].ctime >= StampOf(began) \/ (Exists(p) => fs[p].ctime >= StampOf(began)))
    BY <1>2, <1>11, <2>5, <2>10 DEF ScanInv, NoDigest, Busy, Hashing, Replaced
  <2>7. CASE final
    BY <1>2, <2>6, <2>7
  <2>8. CASE ~final
    <3>1. baseline[p].ctime < StampOf(began)
      BY <1>1, <1>2, <2>1, <2>8 DEF Times, Busy
    <3>2. ~(snapshot[p].ctime >= StampOf(began))
      BY <1>4, <2>3, <2>5, <3>1
    <3>3. snapshot[p].ctime < Stamp
      BY <1>4, <2>3, <2>5, <3>1
    <3>4. Exists(p) => fs[p].ctime > snapshot[p].ctime
      BY <1>4, <2>3, <2>5, <2>6, <3>1, <3>2
    <3>5. QED
      BY <1>2, <1>5, <2>5, <2>8, <3>3, <3>4 DEF Behind, Exists
  <2>9. QED
    BY <2>7, <2>8
<1>12. Told'
  <2> SUFFICES ASSUME NEW p \in Paths
               PROVE  /\ told'[p] = NoFile <=> snapshot[p] = NoFile
                      /\ told'[p].mode = snapshot[p].mode
                      /\ p \in Unhashable => told'[p].ctime = snapshot[p].ctime
                      /\ p \notin Unhashable => ToldHash(p)'
    BY <1>2 DEF Told, Busy
  <2>1. CASE ~seeded
    BY <1>2, <2>1 DEF ToldHash
  <2>2. CASE seeded
    <3>1. told[p].mode = baseline[p].mode
          /\ (p \in Unhashable => told[p].ctime = baseline[p].ctime)
      BY <2>2 DEF ScanInv, Told
    <3>2. told'[p].mode = snapshot[p].mode
      BY <1>6, <2>2, <3>1 DEF AttributesChanged
    <3>3. ASSUME p \in Unhashable PROVE told'[p].ctime = snapshot[p].ctime
      <4>1. CASE baseline[p] = NoFile \/ snapshot[p] = NoFile
        BY <1>6, <2>2, <4>1
      <4>2. CASE baseline[p] # NoFile /\ snapshot[p] # NoFile
        <5>1. snapshot[p] \in State
          BY <1>1, <4>2, Fields
        <5>2. snapshot[p].sha = "none"
          BY <1>1, <3>3, <5>1 DEF Types, State, Contents
        <5>3. QED
          BY <1>6, <2>2, <3>1, <3>3, <4>2, <5>2 DEF ContentChanged
      <4>3. QED
        BY <4>1, <4>2
    <3>4. QED
      BY <1>6, <1>11, <2>2, <3>2, <3>3
  <2>3. QED
    BY <2>1, <2>2
<1>13. QED
  BY <1>2, <1>7, <1>8, <1>9, <1>10, <1>12 DEF ScanInv, Faithful, NoDigest, Busy

\* The invariant is inductive.
LEMMA ScanStep == ASSUME ScanInv, [IntegrityNext]_integrityVars PROVE ScanInv'
<1>1. ASSUME NEW p \in DOMAIN host.inodes,
             WriteFile(p) \/ Chmod(p) \/ Unlink(p) \/ PutNew(p)
      PROVE  ScanInv'
  BY <1>1, HostScan
<1>2. QED
  BY <1>1, AsideScan, StartScan, LstatScan, HashScan, InterruptScan, DoneScan
     DEF IntegrityNext, Collect

\* The other collectors leave the file-integrity collector alone.
LEMMA IntegrityAlone ==
  /\ CollectorsInit => IntegrityInit
  /\ [CollectorsNext]_allVars => [IntegrityNext]_integrityVars
<1>1. CollectorsInit => IntegrityInit
  BY DEF CollectorsInit
<1>2. ASSUME [CollectorsNext]_allVars PROVE [IntegrityNext]_integrityVars
  <2>1. CASE UNCHANGED allVars
    BY <2>1 DEF allVars
  <2>2. CASE CollectorsNext
    BY <2>2 DEF CollectorsNext, ProcessSteps, NetworkSteps, IntegritySteps
  <2>3. QED
    BY <1>2, <2>1, <2>2
<1>3. QED
  BY <1>1, <1>2

\* What the events say after an undisturbed scan is what is on disk, whatever the watched
\* files, the clock's granularity, the racy window and the poll interval (as long as these
\* two are no shorter than a tick of the coarse clock): the stat cache of _snapshot_file, a
\* change between its lstat and _hash_file's read, and two changes of one date never hide a
\* change for good.
THEOREM QuietScanTellsTheDisk == Collectors => []QuietScanTellsAll
<1>1. ASSUME ScanInv PROVE QuietScanTellsAll
  <2> SUFFICES ASSUME pc \in {"idle", "closed"}, seeded, quiet, ~missing, ~capped,
                      NEW p \in Paths
               PROVE  IF ~Exists(p) \/ p \in unseen THEN told[p].sha = "absent"
                      ELSE /\ told[p].mode = fs[p].mode
                           /\ IF p \in Unhashable THEN told[p].ctime = fs[p].ctime
                              ELSE p \notin unhashed => told[p].sha \in {fs[p].content, "none"}
    BY DEF QuietScanTellsAll
  <2>1. IF Exists(p) /\ p \notin unseen THEN Shows(baseline[p], fs[p]) ELSE baseline[p] = NoFile
    BY <1>1 DEF ScanInv, QuietBaseline
  <2>2. /\ told[p] = NoFile <=> baseline[p] = NoFile
        /\ told[p].mode = baseline[p].mode
        /\ p \in Unhashable => told[p].ctime = baseline[p].ctime
        /\ p \notin Unhashable => ToldHash(p)
    BY <1>1 DEF ScanInv, Told
  <2>3. CASE ~Exists(p) \/ p \in unseen
    BY <2>1, <2>2, <2>3 DEF NoFile
  <2>4. CASE Exists(p) /\ p \notin unseen
    <3>1. ~Behind(p)
      <4>1. baseline[p].ctime = fs[p].ctime /\ fs[p].ctime \in Nat
        BY <1>1, <2>1, <2>4, Fields DEF Shows, ScanInv
      <4>2. QED
        BY <2>4, <4>1 DEF Behind
    <3>2. QED
      BY <2>1, <2>2, <2>4, <3>1 DEF Shows, ToldHash
  <2>5. QED
    BY <2>3, <2>4
<1>2. QED
  BY <1>1, ScanInit, ScanStep, IntegrityAlone, PTL DEF Collectors

\* A scan keeps what it has listed of the files that stay.
LEMMA ListedStep == ASSUME ScanInv, ListedFiles, [IntegrityNext]_integrityVars PROVE ListedFiles'
<1>1. Types /\ \A s \in State : s # NoFile
  BY DEF ScanInv, State, NoFile, Inodes
<1>2. ASSUME NEW p \in DOMAIN host.inodes,
             WriteFile(p) \/ Chmod(p) \/ Unlink(p) \/ PutNew(p)
      PROVE  ListedFiles'
  <2>1. PICK q \in Paths, f \in File \cup {Missing} : Change(q, f)
    BY <1>2, HostChanges
  <2>2. /\ fs' = [fs EXCEPT ![q] = f] /\ gone' = [gone EXCEPT ![q] = gone[q] \/ f = Missing]
        /\ UNCHANGED <<seeded, pc, missing, todo, snapshot, unseen>>
    BY <2>1 DEF Change, scanVars, fileDiffVars
  <2>3. /\ \A r \in Paths : fs'[r] = IF r = q THEN f ELSE fs[r]
        /\ \A r \in Paths : gone'[r] = IF r = q THEN (gone[q] \/ f = Missing) ELSE gone[r]
    BY <1>1, <2>2 DEF Types, ListedFiles
  <2>4. gone' \in [Paths -> BOOLEAN]
    BY <2>2 DEF ListedFiles
  <2>5. QED
    BY <2>2, <2>3, <2>4 DEF ListedFiles, Exists, Busy
<1>3. CASE Tick \/ RootChanges \/ RequestStop \/ UNCHANGED integrityVars
  <2>1. UNCHANGED <<fs, gone, seeded, pc, missing, todo, snapshot, unseen>>
    BY <1>3 DEF Tick, RootChanges, RequestStop, integrityVars, fsVars, scanVars, fileDiffVars
  <2>2. QED
    BY <2>1 DEF ListedFiles, Exists, Busy
<1>4. CASE ScanStart
  BY <1>4 DEF ScanStart, There, fsVars, fileDiffVars, ListedFiles, Exists, Busy
<1>5. CASE Lstat
  <2>1. PICK p \in todo, s \in State \cup {NoFile} :
          /\ todo' = todo \ {p} /\ snapshot' = [snapshot EXCEPT ![p] = s]
          /\ UNCHANGED <<fs, missing, seeded, gone>>
          /\ unseen' = IF Exists(p) /\ s = NoFile THEN unseen \cup {p} ELSE unseen
    BY <1>5, LstatStep
  <2>2. \A q \in Paths : snapshot'[q] = IF q = p THEN s ELSE snapshot[q]
    BY <1>1, <2>1 DEF Types, Snapshot
  <2>3. pc = "scan"
    BY <1>5 DEF Lstat
  <2>4. QED
    BY <2>1, <2>2, <2>3 DEF ListedFiles, Exists, Busy
<1>6. CASE Hash
  <2>1. PICK p \in Paths \ Unhashable, s \in State :
          /\ pc = "hash" /\ todo' = todo /\ snapshot' = [snapshot EXCEPT ![p] = s]
          /\ UNCHANGED <<fs, missing, seeded, gone, unseen>>
    BY <1>6, HashStep
  <2>2. \A q \in Paths : snapshot'[q] = IF q = p THEN s ELSE snapshot[q]
    BY <1>1, <2>1 DEF Types, Snapshot
  <2>3. QED
    BY <1>1, <2>1, <2>2 DEF ListedFiles, Exists, Busy
<1>7. CASE ScanInterrupted
  BY <1>7 DEF ScanInterrupted, ScanOver, fsVars, fileDiffVars, ListedFiles, Exists, Busy
<1>8. CASE ScanDone
  <2>1. /\ pc' \notin {"scan", "hash"} /\ gone' = [p \in Paths |-> ~Exists(p)] /\ fs' = fs
    BY <1>8 DEF ScanDone, ScanOver, fsVars
  <2>2. QED
    BY <2>1 DEF ListedFiles, Exists, Busy
<1>9. QED
  BY <1>2, <1>3, <1>4, <1>5, <1>6, <1>7, <1>8 DEF IntegrityNext, Collect

\* A file is reported deleted by _diff only if it was away since the last diff, the root was
\* away, the scan was cut at max_files, or it could not list or lstat that very file; never
\* because a scan was interrupted or a content could not be read.
THEOREM DeletionsAreTrue == Collectors => DeletedMeansGone
<1> DEFINE D == pc = "scan" /\ last' # last =>
                  \A e \in last' : e.action = "deleted" =>
                    gone[e.path] \/ missing \/ capped' \/ e.path \in unseen
<1>1. IntegrityInit => ListedFiles
  BY DEF IntegrityInit, ListedFiles, Exists
<1>2. ASSUME ScanInv, ListedFiles, [IntegrityNext]_integrityVars PROVE D
  <2> SUFFICES ASSUME pc = "scan", last' # last, NEW e \in last', e.action = "deleted",
                      ~gone[e.path], ~missing, ~capped', e.path \notin unseen
               PROVE  FALSE
    OBVIOUS
  <2>1. ScanDone
    <3>1. ASSUME NEW p \in DOMAIN host.inodes,
                 WriteFile(p) \/ Chmod(p) \/ Unlink(p) \/ PutNew(p)
          PROVE  FALSE
      BY <1>2, <3>1, HostChanges DEF Change, fileDiffVars
    <3>2. QED
      BY <1>2, <3>1
         DEF IntegrityNext, Collect, Tick, RootChanges, RequestStop, ScanStart, Lstat,
             RecordFile, Hash, ScanInterrupted, integrityVars, fileDiffVars
  <2>2. todo = {} /\ seeded /\ e \in FileDiff(baseline, snapshot)
    BY <2>1 DEF ScanDone, ScanComplete
  <2>3. PICK p \in Paths : p = e.path /\ snapshot[p] = NoFile
    <3>1. \A q, a, seed : Event(q, a, seed).path = q /\ Event(q, a, seed).action = a
      BY DEF Event
    <3>2. QED
      BY <2>2, <3>1, DiffEvents
  <2>4. QED
    BY <1>2, <2>2, <2>3 DEF ListedFiles, Busy
<1>3. QED
  BY <1>1, <1>2, ScanInit, ScanStep, ListedStep, IntegrityAlone, PTL
  DEF Collectors, DeletedMeansGone

\* A change of a file, the clock, the root and a stop request keep later events apart from
\* the earlier ones.
LEMMA HostSpent ==
  ASSUME ScanInv, EventsSpent,
         \/ Tick \/ RootChanges \/ RequestStop \/ UNCHANGED integrityVars
         \/ \E p \in DOMAIN host.inodes : WriteFile(p) \/ Chmod(p) \/ Unlink(p) \/ PutNew(p)
  PROVE  EventsSpent'
<1>1. Types /\ Times
  BY DEF ScanInv
<1>2. UNCHANGED <<pc, blind, ids, last, baseline, snapshot>>
  <2>1. CASE \E p \in DOMAIN host.inodes : WriteFile(p) \/ Chmod(p) \/ Unlink(p) \/ PutNew(p)
    BY <2>1, HostChanges DEF Change, scanVars, fileDiffVars
  <2>2. CASE Tick \/ RootChanges \/ RequestStop \/ UNCHANGED integrityVars
    BY <2>2 DEF Tick, RootChanges, RequestStop, integrityVars, scanVars, fileDiffVars
  <2>3. QED
    BY <2>1, <2>2
<1>3. /\ Stamp \in Nat /\ Stamp' \in Nat /\ Stamp <= Stamp'
      /\ \A p \in Paths : fs'[p] = fs[p] \/ fs'[p] = Missing \/ fs'[p].ctime = Stamp'
  <2>1. CASE \E p \in DOMAIN host.inodes : WriteFile(p) \/ Chmod(p) \/ Unlink(p) \/ PutNew(p)
    <3>1. PICK q \in Paths, f \in File \cup {Missing} :
            (f # Missing => f.ctime = Stamp) /\ Change(q, f)
      BY <2>1, HostChanges
    <3>2. now' = now /\ fs' = [fs EXCEPT ![q] = f]
      BY <3>1 DEF Change
    <3>3. Stamp' = Stamp /\ Stamp \in Nat
      BY <1>1, <3>2, Clocks DEF Stamp, StampOf
    <3>4. \A p \in Paths : fs'[p] = IF p = q THEN f ELSE fs[p]
      BY <1>1, <3>2 DEF Types
    <3>5. QED
      BY <3>1, <3>3, <3>4
  <2>2. CASE Tick \/ RootChanges \/ RequestStop \/ UNCHANGED integrityVars
    <3>1. fs' = fs /\ (now' = now \/ now' = now + 1)
      BY <2>2 DEF Tick, RootChanges, RequestStop, integrityVars, fsVars
    <3>2. now \in Nat /\ now' \in Nat /\ now <= now'
      BY <1>1, <3>1 DEF Types
    <3>3. Stamp' = StampOf(now') /\ Stamp = StampOf(now)
      BY DEF Stamp, StampOf
    <3>4. QED
      BY <3>1, <3>2, <3>3, StampBounds, StampMonotone
  <2>3. QED
    BY <2>1, <2>2
<1>4. ASSUME NEW e, e.path \in Paths, e.seed.ctime \in Nat, Spent(e)
      PROVE  Spent(e)'
  <2>1. PICK p \in Paths, c \in Nat : p = e.path /\ c = e.seed.ctime
    BY <1>4
  <2>2. /\ c >= Stamp' => c >= Stamp
        /\ c < Stamp => c < Stamp'
        /\ ~(c >= Stamp /\ c < Stamp)
    BY <1>3
  <2>3. fs'[p] = fs[p] \/ fs'[p] = Missing \/ fs'[p].ctime = Stamp'
    BY <1>3
  <2>4. ASSUME NEW old, NEW new, NEW newN, Told1(e, old, new), fs'[p] = fs[p] => newN = new
        PROVE  (e.seed.ctime >= Stamp' \/ (fs'[p] # Missing /\ fs'[p].ctime = c)) =>
                 /\ baseline[p] # NoFile /\ baseline[p].ctime = c
                 /\ old \/ (c < Stamp' /\ fs'[p] # Missing /\ newN)
    <3>1. (c >= Stamp \/ (fs[p] # Missing /\ fs[p].ctime = c)) =>
            /\ baseline[p] # NoFile /\ baseline[p].ctime = c
            /\ old \/ (c < Stamp /\ fs[p] # Missing /\ new)
      BY <2>1, <2>4 DEF Told1, Exists
    <3>2. CASE c >= Stamp'
      BY <2>1, <2>2, <3>1, <3>2
    <3>3. CASE fs'[p] = fs[p]
      BY <2>1, <2>2, <2>4, <3>1, <3>3
    <3>4. CASE fs'[p] = Missing /\ ~(c >= Stamp')
      BY <2>1, <3>4
    <3>5. CASE fs'[p].ctime = Stamp' /\ ~(c >= Stamp')
      BY <1>3, <2>1, <3>5
    <3>6. QED
      BY <2>3, <3>2, <3>3, <3>4, <3>5
  <2>5. ASSUME e.action \in {"created", "modified"}
        PROVE  Told1(e, baseline[p].sha \in {e.seed.sha, "none"},
                     baseline[p].sha = fs[p].content)'
    <3>1. Told1(e, baseline[p].sha \in {e.seed.sha, "none"}, baseline[p].sha = fs[p].content)
      BY <1>4, <2>1, <2>5 DEF Spent
    <3>2. (c >= Stamp' \/ (fs'[p] # Missing /\ fs'[p].ctime = c)) =>
            /\ baseline[p] # NoFile /\ baseline[p].ctime = c
            /\ \/ baseline[p].sha \in {e.seed.sha, "none"}
               \/ c < Stamp' /\ fs'[p] # Missing /\ baseline[p].sha = fs'[p].content
      <4>1. PICK old \in BOOLEAN, new \in BOOLEAN, newN \in BOOLEAN :
              /\ old <=> baseline[p].sha \in {e.seed.sha, "none"}
              /\ new <=> baseline[p].sha = fs[p].content
              /\ newN <=> baseline[p].sha = fs'[p].content
        OBVIOUS
      <4>2. Told1(e, old, new)
        BY <3>1, <4>1 DEF Told1
      <4>3. fs'[p] = fs[p] => newN = new
        BY <4>1
      <4>4. QED
        BY <2>1, <2>4, <4>1, <4>2, <4>3
    <3>3. QED
      BY <1>2, <2>1, <3>2 DEF Told1, Exists
  <2>6. ASSUME e.action = "attributes"
        PROVE  Told1(e, baseline[p].mode = e.seed.mode, baseline[p].mode = fs[p].mode)'
    <3>1. Told1(e, baseline[p].mode = e.seed.mode, baseline[p].mode = fs[p].mode)
      BY <1>4, <2>1, <2>6 DEF Spent
    <3>2. (c >= Stamp' \/ (fs'[p] # Missing /\ fs'[p].ctime = c)) =>
            /\ baseline[p] # NoFile /\ baseline[p].ctime = c
            /\ \/ baseline[p].mode = e.seed.mode
               \/ c < Stamp' /\ fs'[p] # Missing /\ baseline[p].mode = fs'[p].mode
      BY <2>1, <2>4, <3>1
    <3>3. QED
      BY <1>2, <2>1, <3>2 DEF Told1, Exists
  <2>7. ASSUME e.action = "deleted"
        PROVE  /\ c < Stamp'
               /\ fs'[p] # Missing => fs'[p].ctime > c
               /\ baseline[p] # NoFile => baseline[p].ctime > c
               /\ snapshot[p] # NoFile => snapshot[p].ctime > c
    <3>1. /\ c < Stamp
          /\ fs[p] # Missing => fs[p].ctime > c
          /\ baseline[p] # NoFile => baseline[p].ctime > c
          /\ snapshot[p] # NoFile => snapshot[p].ctime > c
      BY <1>4, <2>1, <2>7 DEF Spent, Exists
    <3>2. c < Stamp' /\ Stamp' > c
      BY <1>3, <2>2, <3>1
    <3>3. QED
      BY <2>3, <3>1, <3>2
  <2>8. QED
    BY <1>2, <2>1, <2>5, <2>6, <2>7 DEF Spent, Exists
<1>5. QED
  BY <1>2, <1>4 DEF EventsSpent

\* So does a scan that goes on or is discarded: what it finds is as old as the file.
LEMMA CollectSpent ==
  ASSUME ScanInv, EventsSpent, ScanStart \/ Lstat \/ Hash \/ ScanInterrupted
  PROVE  EventsSpent'
<1>1. Types
  BY DEF ScanInv
<1>2. pc # "closed" /\ UNCHANGED <<fs, now, baseline, ids, last, blind>>
  BY DEF ScanStart, Lstat, RecordFile, Hash, ScanInterrupted, fsVars, fileDiffVars
<1>3. \A p \in Paths : snapshot'[p] # NoFile =>
        \/ snapshot[p] # NoFile /\ snapshot'[p].ctime = snapshot[p].ctime
        \/ Exists(p) /\ snapshot'[p].ctime = fs[p].ctime
  <2>1. CASE ScanStart \/ ScanInterrupted
    BY <2>1 DEF ScanStart, ScanInterrupted, ScanOver
  <2>2. CASE Lstat
    <3>1. PICK p \in todo, s \in State \cup {NoFile} :
            /\ snapshot' = [snapshot EXCEPT ![p] = s]
            /\ s # NoFile => Exists(p) /\ s.ctime = fs[p].ctime
      BY <2>2, LstatStep
    <3>2. \A q \in Paths : snapshot'[q] = IF q = p THEN s ELSE snapshot[q]
      BY <1>1, <3>1 DEF Types, Snapshot
    <3>3. QED
      BY <3>1, <3>2
  <2>3. CASE Hash
    <3>1. PICK p \in Paths \ Unhashable, s \in State :
            /\ snapshot' = [snapshot EXCEPT ![p] = s] /\ snapshot[p] # NoFile
            /\ s.ctime = snapshot[p].ctime
      BY <2>3, HashStep
    <3>2. \A q \in Paths : snapshot'[q] = IF q = p THEN s ELSE snapshot[q]
      BY <1>1, <3>1 DEF Types, Snapshot
    <3>3. QED
      BY <3>1, <3>2
  <2>4. QED
    BY <2>1, <2>2, <2>3
<1>4. Stamp' = Stamp
  BY <1>2 DEF Stamp, StampOf
<1>5. ASSUME NEW e, e.path \in Paths, Spent(e)
      PROVE  Spent(e)'
  BY <1>2, <1>3, <1>4, <1>5 DEF Spent, Told1, Exists
<1>6. QED
  BY <1>2, <1>5 DEF EventsSpent

\* The dates and kinds of the events of a diff.
LEMMA DiffFields ==
  ASSUME Types, NEW e \in FileDiff(baseline, snapshot)
  PROVE  \E p \in Paths :
           /\ e.path = p /\ e.seed.ctime \in Nat
           /\ \/ /\ e.action = "created" /\ e.seed = Fingerprint(snapshot[p])
                 /\ baseline[p] = NoFile /\ snapshot[p] # NoFile
              \/ /\ e.action = "modified" /\ e.seed = Fingerprint(snapshot[p])
                 /\ baseline[p] # NoFile /\ snapshot[p] # NoFile
                 /\ ContentChanged(baseline[p], snapshot[p])
              \/ /\ e.action = "attributes" /\ e.seed = AttrsSeed(snapshot[p])
                 /\ baseline[p] # NoFile /\ snapshot[p] # NoFile
                 /\ AttributesChanged(baseline[p], snapshot[p])
              \/ /\ e.action = "deleted" /\ e.seed = Fingerprint(baseline[p])
                 /\ baseline[p] # NoFile /\ snapshot[p] = NoFile
<1>1. PICK p \in Paths :
        \/ /\ e = Event(p, "created", Fingerprint(snapshot[p]))
           /\ baseline[p] = NoFile /\ snapshot[p] # NoFile
        \/ /\ e = Event(p, "modified", Fingerprint(snapshot[p]))
           /\ baseline[p] # NoFile /\ snapshot[p] # NoFile
           /\ ContentChanged(baseline[p], snapshot[p])
        \/ /\ e = Event(p, "attributes", AttrsSeed(snapshot[p]))
           /\ baseline[p] # NoFile /\ snapshot[p] # NoFile
           /\ AttributesChanged(baseline[p], snapshot[p])
        \/ /\ e = Event(p, "deleted", Fingerprint(baseline[p]))
           /\ baseline[p] # NoFile /\ snapshot[p] = NoFile
  BY DiffEvents
<1>2. \A q, a, seed : /\ Event(q, a, seed).path = q /\ Event(q, a, seed).action = a
                      /\ Event(q, a, seed).seed = seed
  BY DEF Event
<1>3. \A s : Fingerprint(s).ctime = s.ctime /\ AttrsSeed(s).ctime = s.ctime
  BY DEF Fingerprint, AttrsSeed
<1>4. baseline[p].ctime \in Nat /\ snapshot[p].ctime \in Nat
  BY Fields
<1>5. QED
  BY <1>1, <1>2, <1>3, <1>4

\* A complete scan that is not the last one, over files that could be read, keeps them apart:
\* it saw every file that has the date of an earlier event.
LEMMA DoneSpent ==
  ASSUME ScanInv, EventsSpent, ScanDone
  PROVE  EventsSpent'
<1>1. Types /\ Times
  BY DEF ScanInv
<1>2. /\ pc = "scan" /\ pc' = (IF final THEN "closed" ELSE "idle")
      /\ snapshot' = [p \in Paths |-> NoFile] /\ baseline' = snapshot
      /\ ids' = ids \cup last /\ last' \subseteq FileDiff(baseline, snapshot)
      /\ UNCHANGED <<fs, now>>
  BY DEF ScanDone, ScanOver, fsVars
<1>3. ASSUME NEW e \in FileDiff(baseline, snapshot)
      PROVE  e.path \in Paths /\ e.seed.ctime \in Nat
  BY <1>1, DiffFields
<1>4. SUFFICES ASSUME ~blind', ~final, NEW e,
                      e \in FileDiff(baseline, snapshot) \/ Spent(e),
                      e.path \in Paths, e.seed.ctime \in Nat
               PROVE  Spent(e)'
  <2>1. ~blind' => ~blind
    BY DEF ScanDone
  <2>2. pc # "closed" /\ (pc' # "closed" => ~final)
    BY <1>2
  <2>3. \A e \in ids \cup last : e.path \in Paths /\ e.seed.ctime \in Nat
    BY DEF EventsSpent
  <2>4. ~blind' => \A e \in ids \cup last : Spent(e)
    BY <2>1, <2>2 DEF EventsSpent
  <2>5. \A e \in (ids \cup last)' : e \in ids \cup last \/ e \in FileDiff(baseline, snapshot)
    BY <1>2
  <2>6. QED
    BY <1>3, <2>2, <2>3, <2>4, <2>5 DEF EventsSpent
<1>5. todo = {} /\ ~missing /\ unseen = {}
  BY <1>4 DEF ScanDone, ScanComplete
<1>6. Stamp' = Stamp /\ \A q \in Paths : snapshot'[q] = NoFile
  BY <1>2 DEF Stamp, StampOf
<1>7. PICK p \in Paths, c \in Nat : p = e.path /\ c = e.seed.ctime
  BY <1>4
<1>8. /\ Stamp \in Nat /\ StampOf(began) \in Nat /\ StampOf(began) <= Stamp
      /\ fs[p].ctime \in Nat /\ baseline[p].ctime \in Nat /\ snapshot[p].ctime \in Nat
      /\ fs[p].ctime <= Stamp
      /\ baseline[p] # NoFile => baseline[p].ctime < StampOf(began)
  BY <1>1, <1>2, <1>4, Clocks, Fields DEF Times, Busy
<1>9. Exists(p) /\ fs[p].ctime < StampOf(began) => Shows(snapshot[p], fs[p])
  BY <1>2, <1>5 DEF ScanInv, Faithful, Busy
<1>10. CASE e \in FileDiff(baseline, snapshot)
  <2>1. \/ /\ e.action \in {"created", "modified"} /\ e.seed = Fingerprint(snapshot[p])
           /\ snapshot[p] # NoFile
        \/ /\ e.action = "attributes" /\ e.seed = AttrsSeed(snapshot[p])
           /\ snapshot[p] # NoFile
        \/ /\ e.action = "deleted" /\ e.seed = Fingerprint(baseline[p])
           /\ baseline[p] # NoFile /\ snapshot[p] = NoFile
    BY <1>1, <1>7, <1>10, DiffFields
  <2>2. CASE e.action \in {"created", "modified"}
    <3>1. snapshot[p] # NoFile /\ snapshot[p].ctime = c /\ snapshot[p].sha = e.seed.sha
      BY <1>7, <2>1, <2>2 DEF Fingerprint
    <3>2. QED
      BY <1>2, <1>7, <2>2, <3>1 DEF Spent, Told1
  <2>3. CASE e.action = "attributes"
    <3>1. snapshot[p] # NoFile /\ snapshot[p].ctime = c /\ snapshot[p].mode = e.seed.mode
      BY <1>7, <2>1, <2>3 DEF AttrsSeed
    <3>2. QED
      BY <1>2, <1>7, <2>3, <3>1 DEF Spent, Told1
  <2>4. CASE e.action = "deleted"
    <3>1. baseline[p] # NoFile /\ snapshot[p] = NoFile /\ baseline[p].ctime = c
      BY <1>7, <2>1, <2>4 DEF Fingerprint
    <3>2. c < Stamp /\ (Exists(p) => fs[p].ctime > c)
      <4>1. Exists(p) => ~(fs[p].ctime < StampOf(began))
        BY <1>9, <3>1 DEF Shows
      <4>2. QED
        BY <1>8, <3>1, <4>1
    <3>3. QED
      BY <1>2, <1>6, <1>7, <2>4, <3>1, <3>2 DEF Spent, Exists
  <2>5. QED
    BY <2>1, <2>2, <2>3, <2>4
<1>11. CASE Spent(e)
  <2>1. ASSUME NEW old, NEW new, Told1(e, old, new),
               c >= Stamp \/ (Exists(p) /\ fs[p].ctime = c)
        PROVE  c < Stamp /\ Exists(p) /\ Shows(snapshot[p], fs[p]) /\ fs[p].ctime = c
    <3>1. c < StampOf(began)
      BY <1>7, <1>8, <2>1 DEF Told1
    <3>2. c < Stamp
      BY <1>8, <3>1
    <3>3. QED
      BY <1>8, <1>9, <2>1, <3>1, <3>2
  <2>2. Exists(p)' <=> Exists(p)
    BY <1>2 DEF Exists
  <2>3. CASE e.action \in {"created", "modified"}
    <3>1. Told1(e, baseline[p].sha \in {e.seed.sha, "none"}, baseline[p].sha = fs[p].content)
      BY <1>7, <1>11, <2>3 DEF Spent
    <3>2. c >= Stamp \/ (Exists(p) /\ fs[p].ctime = c) =>
            c < Stamp /\ Exists(p) /\ Shows(snapshot[p], fs[p]) /\ fs[p].ctime = c
      BY <2>1, <3>1
    <3>3. QED
      BY <1>2, <1>6, <1>7, <2>2, <2>3, <3>2 DEF Spent, Told1, Shows
  <2>4. CASE e.action = "attributes"
    <3>1. Told1(e, baseline[p].mode = e.seed.mode, baseline[p].mode = fs[p].mode)
      BY <1>7, <1>11, <2>4 DEF Spent
    <3>2. c >= Stamp \/ (Exists(p) /\ fs[p].ctime = c) =>
            c < Stamp /\ Exists(p) /\ Shows(snapshot[p], fs[p]) /\ fs[p].ctime = c
      BY <2>1, <3>1
    <3>3. QED
      BY <1>2, <1>6, <1>7, <2>2, <2>4, <3>2 DEF Spent, Told1, Shows
  <2>5. CASE e.action = "deleted"
    BY <1>2, <1>6, <1>7, <1>11, <2>2, <2>5 DEF Spent
  <2>6. CASE e.action \notin {"created", "modified", "attributes", "deleted"}
    BY <2>6 DEF Spent
  <2>7. QED
    BY <2>3, <2>4, <2>5, <2>6
<1>12. QED
  BY <1>4, <1>10, <1>11

\* An undisturbed complete scan finds nothing that an earlier event has already said.
LEMMA DoneDistinct ==
  ASSUME ScanInv, EventsSpent, ScanDone, quiet, ~blind'
  PROVE  last' \cap ids' = {}
<1>1. Types
  BY DEF ScanInv
<1>2. pc = "scan" /\ ids' = ids \cup last /\ last' \subseteq FileDiff(baseline, snapshot)
  BY DEF ScanDone
<1>3. ~blind /\ ~missing /\ todo = {} /\ unseen = {}
  BY DEF ScanDone, ScanComplete
<1>4. SUFFICES ASSUME NEW e \in FileDiff(baseline, snapshot), e \in ids \cup last PROVE FALSE
  BY <1>2
<1>5. Spent(e)
  BY <1>2, <1>3, <1>4 DEF EventsSpent
<1>6. PICK p \in Paths :
        /\ e.path = p
        /\ \/ /\ e.action = "created" /\ e.seed = Fingerprint(snapshot[p])
              /\ baseline[p] = NoFile /\ snapshot[p] # NoFile
           \/ /\ e.action = "modified" /\ e.seed = Fingerprint(snapshot[p])
              /\ baseline[p] # NoFile /\ snapshot[p] # NoFile
              /\ ContentChanged(baseline[p], snapshot[p])
           \/ /\ e.action = "attributes" /\ e.seed = AttrsSeed(snapshot[p])
              /\ baseline[p] # NoFile /\ snapshot[p] # NoFile
              /\ AttributesChanged(baseline[p], snapshot[p])
           \/ /\ e.action = "deleted" /\ e.seed = Fingerprint(baseline[p])
              /\ baseline[p] # NoFile /\ snapshot[p] = NoFile
  BY <1>1, <1>4, DiffFields
<1>7. snapshot[p] # NoFile => Exists(p) /\ Shows(snapshot[p], fs[p])
  BY <1>2, <1>3 DEF ScanInv, Faithful, Busy
<1>8. \A s : /\ Fingerprint(s).ctime = s.ctime /\ AttrsSeed(s).ctime = s.ctime
             /\ Fingerprint(s).sha = s.sha /\ AttrsSeed(s).mode = s.mode
  BY DEF Fingerprint, AttrsSeed
<1>9. CASE e.action \in {"created", "modified"}
  <2>1. Exists(p) /\ Shows(snapshot[p], fs[p]) /\ e.seed.ctime = fs[p].ctime
        /\ e.seed.sha = snapshot[p].sha
    BY <1>6, <1>7, <1>8, <1>9 DEF Shows
  <2>2. /\ baseline[p] # NoFile /\ baseline[p].ctime = e.seed.ctime
        /\ baseline[p].sha \in {e.seed.sha, "none"} \/ baseline[p].sha = fs[p].content
    BY <1>5, <1>6, <1>9, <2>1 DEF Spent, Told1
  <2>3. ContentChanged(baseline[p], snapshot[p]) /\ baseline[p].ctime = snapshot[p].ctime
    BY <1>6, <1>8, <1>9, <2>2
  <2>4. QED
    BY <2>1, <2>2, <2>3 DEF ContentChanged, Shows
<1>10. CASE e.action = "attributes"
  <2>1. Exists(p) /\ Shows(snapshot[p], fs[p]) /\ e.seed.ctime = fs[p].ctime
        /\ e.seed.mode = snapshot[p].mode
    BY <1>6, <1>7, <1>8, <1>10 DEF Shows
  <2>2. baseline[p].mode = e.seed.mode \/ baseline[p].mode = fs[p].mode
    BY <1>5, <1>6, <1>10, <2>1 DEF Spent, Told1
  <2>3. QED
    BY <1>6, <1>10, <2>1, <2>2 DEF AttributesChanged, Shows
<1>11. CASE e.action = "deleted"
  <2>1. baseline[p] # NoFile /\ e.seed.ctime = baseline[p].ctime /\ baseline[p].ctime \in Nat
    BY <1>1, <1>6, <1>8, <1>11, Fields
  <2>2. baseline[p].ctime > e.seed.ctime
    BY <1>5, <1>6, <1>11, <2>1 DEF Spent
  <2>3. QED
    BY <2>1, <2>2
<1>12. QED
  BY <1>6, <1>9, <1>10, <1>11

\* The event ids of _diff (path, action and the digest of ctime, inode and content, or of
\* ctime and mode) tell two transitions apart when the scan that saw the second was not
\* disturbed, however often contents, modes and inode numbers come back.
THEOREM TransitionsStayDistinct == Collectors => []TransitionsDistinct
<1> DEFINE Inv == ScanInv /\ EventsSpent /\ TransitionsDistinct
<1>1. IntegrityInit => Inv
  <2>1. IntegrityInit => EventsSpent /\ TransitionsDistinct
    BY DEF IntegrityInit, EventsSpent, TransitionsDistinct
  <2>2. QED
    BY <2>1, ScanInit
<1>2. ASSUME Inv, [IntegrityNext]_integrityVars PROVE Inv'
  <2>1. ScanInv'
    BY <1>2, ScanStep
  <2>2. ASSUME \/ Tick \/ RootChanges \/ RequestStop \/ UNCHANGED integrityVars
               \/ \E p \in DOMAIN host.inodes :
                    WriteFile(p) \/ Chmod(p) \/ Unlink(p) \/ PutNew(p)
        PROVE  EventsSpent' /\ TransitionsDistinct'
    <3>1. EventsSpent'
      BY <1>2, <2>2, HostSpent
    <3>2. UNCHANGED <<pc, blind, ids, last>> /\ (quiet' => quiet)
      <4>1. CASE \E p \in DOMAIN host.inodes :
                   WriteFile(p) \/ Chmod(p) \/ Unlink(p) \/ PutNew(p)
        BY <1>2, <4>1, HostChanges DEF Change, scanVars, fileDiffVars
      <4>2. CASE Tick \/ RootChanges \/ RequestStop \/ UNCHANGED integrityVars
        BY <4>2 DEF Tick, RootChanges, RequestStop, integrityVars, scanVars, fileDiffVars
      <4>3. QED
        BY <2>2, <4>1, <4>2
    <3>3. QED
      BY <1>2, <3>1, <3>2 DEF TransitionsDistinct
  <2>3. ASSUME ScanStart \/ Lstat \/ Hash \/ ScanInterrupted
        PROVE  EventsSpent' /\ TransitionsDistinct'
    <3>1. EventsSpent'
      BY <1>2, <2>3, CollectSpent
    <3>2. pc' \in {"scan", "hash"} \/ ~quiet'
      BY <2>3 DEF ScanStart, Lstat, Hash, ScanInterrupted
    <3>3. QED
      BY <3>1, <3>2 DEF TransitionsDistinct
  <2>4. ASSUME ScanDone
        PROVE  EventsSpent' /\ TransitionsDistinct'
    <3>1. EventsSpent'
      BY <1>2, <2>4, DoneSpent
    <3>2. quiet' = quiet
      BY <2>4 DEF ScanDone
    <3>3. QED
      BY <1>2, <2>4, <3>1, <3>2, DoneDistinct DEF TransitionsDistinct
  <2>5. QED
    BY <1>2, <2>1, <2>2, <2>3, <2>4 DEF IntegrityNext, Collect
<1>3. Inv => TransitionsDistinct
  OBVIOUS
<1>4. QED
  BY <1>1, <1>2, <1>3, IntegrityAlone, PTL DEF Collectors
=============================================================================
