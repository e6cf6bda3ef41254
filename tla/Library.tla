------------------------------ MODULE Library ------------------------------
(* The file library of one workspace: the tree of folders and the files in   *)
(* it, their versions, the stored objects, and the scan of each version.     *)
(* A request reads an index of all folders first, and works with it to its   *)
(* end: every await is a point where others run, or where the process dies.  *)
EXTENDS Naturals, FiniteSets

CONSTANTS
  Folders, Files, Versions, Requests,
  Top,     \* no folder: the root of the library
  NoOne,   \* a model value
  Plans    \* the folders, files and versions there are, the operations, and, bounds, how many
           \* operations and faults

Places  == Folders \cup {Top}
NoPlace == [parent |-> NoOne, trashed |-> 0, version |-> 0]
NoFile  == [folder |-> NoOne, trashed |-> 0, current |-> NoOne, count |-> 0, version |-> 0]
NoVersion == [file |-> NoOne, scan |-> "none"]
Operations == {"create", "move", "trash", "restore", "purge", "upload", "renew", "copy",
               "moveFile", "trashFile", "restoreFile", "purgeFile", "expire"}

(* The tree of the folders *)

\* What is above p, p included: the least set closed under parents.
Chain(tree, p) ==
  LET none == {Top, NoOne}
      Closed(S) == p \in S \cup none /\ \A g \in S : tree[g].parent \in S \cup none
  IN {f \in Folders : \A S \in SUBSET Folders : Closed(S) => f \in S}
Acyclic(tree) == \A f \in Folders : f \notin Chain(tree, tree[f].parent)

\* The folders of a plan, before anything happens.
Planted(p) == [f \in Folders |-> IF p.parents[f] = NoOne THEN NoPlace
                                 ELSE [parent |-> p.parents[f], trashed |-> 0, version |-> 1]]

ASSUME LibraryAssumption ==
  /\ Top \notin Folders /\ NoOne \notin Places \cup Files \cup Versions
  /\ Plans \subseteq [parents : [Folders -> Places \cup {NoOne}], homes : [Files -> Places \cup {NoOne}],
                      holds : [Files -> Versions \cup {NoOne}], operations : SUBSET Operations,
                      left : Nat, faults : Nat]

\* The library there is: a tree, and its files each in a folder that exists and with a version of its own.
ASSUME PlansAssumption ==
  \A p \in Plans :
    /\ Acyclic(Planted(p))
    /\ \A f \in Folders : p.parents[f] \in Folders => p.parents[p.parents[f]] # NoOne
    /\ \A x \in Files : p.homes[x] \in Folders => p.parents[p.homes[x]] # NoOne
    /\ \A x \in Files : p.homes[x] = NoOne <=> p.holds[x] = NoOne
    /\ \A x, y \in Files : p.holds[x] = p.holds[y] /\ p.holds[x] # NoOne => x = y

VARIABLES
  folders,   \* table folders; trashed is deletedAt
  files,     \* table files
  versions,  \* table file_versions
  objects,   \* the versions whose bytes are in the object storage
  bad,       \* the versions whose bytes are malware
  job,       \* the scan job of each version, with the step its worker is at
  request,
  stamp,     \* the clock, as deletedAt tells moments apart
  used,      \* identifiers are never used again
  plan, left, faults,
  stale,     \* history: something was written from an index that was out of date
  rescued,   \* history: files restored after they were put in quarantine
  leaked     \* history: versions whose object nobody will delete

rows == <<folders, files, versions>>
budget == <<plan, faults>>
history == <<stale, rescued, leaked>>
vars == <<rows, objects, bad, job, request, stamp, used, left, budget, history>>

Idle == [step |-> "idle", folder |-> NoOne, to |-> NoOne, file |-> NoOne, version |-> NoOne, seen |-> 0,
         index |-> [f \in Folders |-> NoPlace], ids |-> {}, doomed |-> {}, keys |-> {}]

\* The type of every variable; rows refer to rows that are there (foreign keys).
TypeOK ==
  /\ \A f \in Folders : folders[f] = NoPlace \/ folders[f] \in [parent : Places, trashed : Nat, version : Nat]
  /\ \A x \in Files :
       files[x] = NoFile \/ files[x] \in [folder : Places, trashed : Nat, current : Versions, count : Nat, version : Nat]
  /\ \A v \in Versions :
       versions[v] = NoVersion \/ versions[v] \in [file : Files, scan : {"pending", "clean", "infected", "error"}]
  /\ \A f \in Folders : folders[f].parent \in Folders => folders[folders[f].parent] # NoPlace
  /\ \A x \in Files : files[x].folder \in Folders => folders[files[x].folder] # NoPlace
  /\ \A x \in Files : files[x] # NoFile => versions[files[x].current].file = x
  /\ \A v \in Versions : versions[v] # NoVersion => files[versions[v].file] # NoFile
  /\ objects \subseteq Versions /\ bad \subseteq Versions
  /\ job \in [Versions -> {"none", "queued", "pass", "delete", "mark", "done"}]
  /\ \A r \in Requests : DOMAIN request[r] = DOMAIN Idle
  /\ plan \in Plans /\ left \in Nat /\ faults \in Nat /\ stamp \in Nat
  /\ used \subseteq Folders \cup Files \cup Versions
  /\ stale \in BOOLEAN /\ rescued \subseteq Files /\ leaked \subseteq Versions

Init ==
  /\ plan \in Plans /\ left = plan.left /\ faults = plan.faults
  /\ folders = Planted(plan)
  /\ files = [x \in Files |-> IF plan.homes[x] = NoOne THEN NoFile
                ELSE [folder |-> plan.homes[x], trashed |-> 0, current |-> plan.holds[x], count |-> 1, version |-> 1]]
  /\ versions = [v \in Versions |-> IF \E x \in Files : plan.holds[x] = v
                   THEN [file |-> CHOOSE x \in Files : plan.holds[x] = v, scan |-> "clean"] ELSE NoVersion]
  /\ objects = {v \in Versions : versions[v] # NoVersion} /\ bad = {}
  /\ job = [v \in Versions |-> IF v \in objects THEN "done" ELSE "none"]
  /\ used = objects \cup {f \in Folders : folders[f] # NoPlace} \cup {x \in Files : files[x] # NoFile}
  /\ request = [r \in Requests |-> Idle] /\ stamp = 1
  /\ stale = FALSE /\ rescued = {} /\ leaked = {}

-----------------------------------------------------------------------------
(* The index of the folders *)

\* The folder and all beneath it, trashed or not.
subtree(tree, f) == {g \in Folders : tree[g] # NoPlace /\ f \in Chain(tree, g)}

liveFolder(p) == p = Top \/ (p \in Folders /\ folders[p] # NoPlace /\ folders[p].trashed = 0)
liveFile(x)   == files[x] # NoFile /\ files[x].trashed = 0
Fresh(S) == CHOOSE x \in S : x \notin used

\* The request starts: it reads the index and the rows it needs.  (Over a cycle
\* of folders the loops of the code do not end.)
Begin(r, q) ==
  /\ request[r] = Idle /\ left > 0 /\ Acyclic(folders)
  /\ q.step \in plan.operations
  /\ request' = [request EXCEPT ![r] = [q EXCEPT !.index = folders]]
  /\ left' = left - 1
  /\ UNCHANGED <<rows, objects, bad, job, stamp, used, budget, history>>

Ends(r)    == request' = [request EXCEPT ![r] = Idle]
Goes(r, q) == request' = [request EXCEPT ![r] = q]
\* What is written now was decided on the index.
Decided(r) == stale' = (stale \/ request[r].index # folders)

-----------------------------------------------------------------------------
(* Folders *)

StartCreate(r) == \E p \in Places : liveFolder(p) /\ Begin(r, [Idle EXCEPT !.step = "create", !.to = p])

createFolder(r) ==
  /\ request[r].step = "create" /\ Folders \ used # {}
  /\ LET p == request[r].to IN
       IF p # Top /\ folders[p] = NoPlace
       THEN UNCHANGED <<folders, used, stale>>
       ELSE /\ folders' = [folders EXCEPT ![Fresh(Folders)] = [parent |-> p, trashed |-> 0, version |-> 1]]
            /\ used' = used \cup {Fresh(Folders)} /\ Decided(r)
  /\ Ends(r)
  /\ UNCHANGED <<files, versions, objects, bad, job, stamp, left, budget, rescued, leaked>>

\* Mutant: a folder is only kept from being moved into itself.
StartMoveItself(r) ==
  \E f \in Folders, p \in Places :
    /\ p # f /\ liveFolder(f) /\ liveFolder(p) /\ p # folders[f].parent
    /\ Begin(r, [Idle EXCEPT !.step = "move", !.folder = f, !.to = p, !.seen = folders[f].version])

\* updateFolder: not into itself or its own subtree, as far as the index knows.
StartMove(r) ==
  \E f \in Folders, p \in Places :
    /\ liveFolder(f) /\ liveFolder(p) /\ p # folders[f].parent
    /\ f \notin Chain(folders, p)
    /\ Begin(r, [Idle EXCEPT !.step = "move", !.folder = f, !.to = p, !.seen = folders[f].version])

\* The version of the folder that is moved is compared, and nothing else.
updateFolder(r) ==
  /\ request[r].step = "move"
  /\ LET f == request[r].folder
         p == request[r].to
     IN IF folders[f] = NoPlace \/ folders[f].version # request[r].seen \/ (p # Top /\ folders[p] = NoPlace)
        THEN UNCHANGED <<folders, stale>>
        ELSE folders' = [folders EXCEPT ![f].parent = p, ![f].version = @ + 1] /\ Decided(r)
  /\ Ends(r)
  /\ UNCHANGED <<files, versions, objects, bad, job, stamp, used, left, budget, rescued, leaked>>

StartTrash(r) ==
  \E f \in Folders : liveFolder(f) /\ Begin(r, [Idle EXCEPT !.step = "trash", !.folder = f, !.ids = subtree(folders, f)])

\* trashFolder: all that is live in it, at one moment, in one transaction.
trashFolder(r) ==
  /\ request[r].step = "trash"
  /\ folders' = [f \in Folders |-> IF f \in request[r].ids /\ folders[f] # NoPlace /\ folders[f].trashed = 0
                                   THEN [folders[f] EXCEPT !.trashed = stamp] ELSE folders[f]]
  /\ files' = [x \in Files |-> IF files[x].folder \in request[r].ids /\ files[x].trashed = 0
                               THEN [files[x] EXCEPT !.trashed = stamp] ELSE files[x]]
  /\ stamp' = stamp + 1 /\ Decided(r) /\ Ends(r)
  /\ UNCHANGED <<versions, objects, bad, job, used, left, budget, rescued, leaked>>

StartRestore(r) ==
  \E f \in Folders :
    /\ folders[f].trashed > 0
    /\ Begin(r, [Idle EXCEPT !.step = "restore", !.folder = f, !.ids = subtree(folders, f), !.seen = folders[f].trashed,
                 !.to = IF liveFolder(folders[f].parent) THEN NoOne ELSE Top])

\* restore: the folder, and what went to the trash at the same moment.
restore(r) ==
  /\ request[r].step = "restore"
  /\ LET q == request[r] IN
       /\ folders' = [f \in Folders |->
            IF f = q.folder /\ folders[f] # NoPlace
            THEN [folders[f] EXCEPT !.trashed = 0, !.parent = IF q.to = Top THEN Top ELSE @]
            ELSE IF f \in q.ids /\ folders[f].trashed = q.seen THEN [folders[f] EXCEPT !.trashed = 0] ELSE folders[f]]
       /\ files' = [x \in Files |->
            IF files[x].folder \in q.ids /\ files[x].trashed = q.seen THEN [files[x] EXCEPT !.trashed = 0] ELSE files[x]]
  /\ Decided(r) /\ Ends(r)
  /\ UNCHANGED <<versions, objects, bad, job, stamp, used, left, budget, rescued, leaked>>

-----------------------------------------------------------------------------
(* Versions: the object first, then the rows, then the scan *)

StartUpload(r) == \E p \in Places : liveFolder(p) /\ Begin(r, [Idle EXCEPT !.step = "upload", !.to = p])

StartRenew(r) ==
  \E x \in Files : liveFile(x) /\ Begin(r, [Idle EXCEPT !.step = "renew", !.file = x, !.seen = files[x].count])

\* Anything may be uploaded, malware too.
PutObject(r) ==
  /\ request[r].step \in {"upload", "renew"} /\ Versions \ used # {} /\ Files \ used # {}
  /\ LET v == Fresh(Versions)
         x == IF request[r].step = "upload" THEN Fresh(Files) ELSE request[r].file
     IN /\ objects' = objects \cup {v} /\ bad' \in {bad, bad \cup {v}}
        /\ used' = used \cup {v, x}
        /\ Goes(r, [request[r] EXCEPT !.step = "commit", !.version = v, !.file = x])
  /\ UNCHANGED <<rows, job, stamp, left, budget, history>>

\* The rows of a new file, in any folder that exists, or of the next version of
\* a file that has no other version by now.
CommitVersion(r) ==
  LET q == request[r]
      x == q.file
      allowed == IF q.to # NoOne THEN q.to = Top \/ folders[q.to] # NoPlace
                 ELSE files[x] # NoFile /\ files[x].count = q.seen
      made == IF q.to # NoOne THEN [folder |-> q.to, trashed |-> 0, current |-> q.version, count |-> 1, version |-> 1]
              ELSE [files[x] EXCEPT !.current = q.version, !.count = @ + 1, !.version = @ + 1]
  IN /\ q.step = "commit"
     /\ IF ~allowed
        THEN Goes(r, [request[r] EXCEPT !.step = "undo"]) /\ UNCHANGED <<files, versions, stale>>
        ELSE /\ files' = [files EXCEPT ![x] = made]
             /\ versions' = [versions EXCEPT ![q.version] = [file |-> x, scan |-> "pending"]]
             /\ stale' = (stale \/ (q.to # NoOne /\ q.index # folders))
             /\ Goes(r, [request[r] EXCEPT !.step = "enqueue"])
     /\ UNCHANGED <<folders, objects, bad, job, stamp, used, left, budget, rescued, leaked>>

\* A commit that fails takes the object away again.
UndoPut(r) ==
  /\ request[r].step = "undo"
  /\ objects' = objects \ {request[r].version}
  /\ Ends(r)
  /\ UNCHANGED <<rows, bad, job, stamp, used, left, budget, history>>

enqueueFileScan(r) ==
  /\ request[r].step = "enqueue"
  /\ job' = [job EXCEPT ![request[r].version] = "queued"]
  /\ Ends(r)
  /\ UNCHANGED <<rows, objects, bad, stamp, used, left, budget, history>>

\* cleanVersion: only what a scan has passed is handed out or copied.
clean(x) == versions[files[x].current].scan = "clean"

StartCopy(r) ==
  \E x \in Files, p \in Places :
    /\ liveFile(x) /\ liveFolder(p) /\ clean(x)
    /\ Begin(r, [Idle EXCEPT !.step = "copy", !.version = files[x].current, !.to = p])

\* The copy fails when the object is gone.
CopyObject(r) ==
  /\ request[r].step = "copy" /\ Versions \ used # {} /\ Files \ used # {}
  /\ LET v == Fresh(Versions) IN
       IF request[r].version \notin objects
       THEN Ends(r) /\ UNCHANGED <<objects, bad, used>>
       ELSE /\ objects' = objects \cup {v}
            /\ bad' = IF request[r].version \in bad THEN bad \cup {v} ELSE bad
            /\ used' = used \cup {v, Fresh(Files)}
            /\ Goes(r, [request[r] EXCEPT !.step = "commitCopy", !.version = v, !.file = Fresh(Files)])
  /\ UNCHANGED <<rows, job, stamp, left, budget, history>>

\* The copy is not scanned again; one whose rows are refused leaves its object.
copyFile(r) ==
  LET q == request[r] IN
  /\ q.step = "commitCopy"
  /\ IF q.to # Top /\ folders[q.to] = NoPlace
     THEN leaked' = leaked \cup {q.version} /\ UNCHANGED <<files, versions, stale>>
     ELSE /\ files' = [files EXCEPT ![q.file] =
               [folder |-> q.to, trashed |-> 0, current |-> q.version, count |-> 1, version |-> 1]]
          /\ versions' = [versions EXCEPT ![q.version] = [file |-> q.file, scan |-> "clean"]]
          /\ Decided(r) /\ UNCHANGED leaked
  /\ Ends(r)
  /\ UNCHANGED <<folders, objects, bad, job, stamp, used, left, budget, rescued>>

-----------------------------------------------------------------------------
(* scanVersion: one worker at a time has the job of a version *)

ScanOf(v, s) == job' = [job EXCEPT ![v] = s]

\* Nothing is done for a version that is gone or was decided before.
ScanStart(v) ==
  /\ job[v] = "queued"
  /\ IF versions[v].scan # "pending" THEN ScanOf(v, "done") /\ UNCHANGED versions
     ELSE IF v \notin objects
     THEN ScanOf(v, "done") /\ versions' = [versions EXCEPT ![v].scan = "error"]
     ELSE ScanOf(v, IF v \in bad THEN "delete" ELSE "pass") /\ UNCHANGED versions
  /\ UNCHANGED <<folders, files, objects, bad, request, stamp, used, left, budget, history>>

Pass(v) ==
  /\ job[v] = "pass"
  /\ versions' = IF versions[v] = NoVersion THEN versions ELSE [versions EXCEPT ![v].scan = "clean"]
  /\ ScanOf(v, "done")
  /\ UNCHANGED <<folders, files, objects, bad, request, stamp, used, left, budget, history>>

DeleteInfected(v) ==
  /\ job[v] = "delete"
  /\ objects' = objects \ {v}
  /\ ScanOf(v, "mark")
  /\ UNCHANGED <<rows, bad, request, stamp, used, left, budget, history>>

\* Quarantine: the file goes to the trash when the version is its current one.
Quarantine(v) ==
  /\ job[v] = "mark"
  /\ LET x == versions[v].file IN
       IF versions[v] = NoVersion THEN UNCHANGED <<files, versions, stamp>>
       ELSE /\ versions' = [versions EXCEPT ![v].scan = "infected"]
            /\ files' = IF files[x].current = v THEN [files EXCEPT ![x].trashed = stamp] ELSE files
            /\ stamp' = stamp + 1
  /\ ScanOf(v, "done")
  /\ UNCHANGED <<folders, objects, bad, request, used, left, budget, history>>

-----------------------------------------------------------------------------
(* Files *)

StartMoveFile(r) ==
  \E x \in Files, p \in Places :
    /\ liveFile(x) /\ liveFolder(p) /\ p # files[x].folder
    /\ Begin(r, [Idle EXCEPT !.step = "moveFile", !.file = x, !.to = p, !.seen = files[x].version])

updateFile(r) ==
  LET q == request[r]
      x == q.file
  IN /\ q.step = "moveFile"
     /\ IF files[x] = NoFile \/ files[x].version # q.seen \/ (q.to # Top /\ folders[q.to] = NoPlace)
        THEN UNCHANGED <<files, stale>>
        ELSE files' = [files EXCEPT ![x].folder = q.to, ![x].version = @ + 1] /\ Decided(r)
     /\ Ends(r)
     /\ UNCHANGED <<folders, versions, objects, bad, job, stamp, used, left, budget, rescued, leaked>>

StartTrashFile(r) == \E x \in Files : liveFile(x) /\ Begin(r, [Idle EXCEPT !.step = "trashFile", !.file = x])

trashFile(r) ==
  /\ request[r].step = "trashFile"
  /\ LET x == request[r].file IN
       files' = IF files[x] = NoFile THEN files ELSE [files EXCEPT ![x].trashed = stamp]
  /\ stamp' = stamp + 1 /\ Ends(r)
  /\ UNCHANGED <<folders, versions, objects, bad, job, used, left, budget, history>>

\* Mutant: a file in quarantine is restored like any other.
StartRestoreAny(r) ==
  \E x \in Files :
    /\ files[x].trashed > 0
    /\ Begin(r, [Idle EXCEPT !.step = "restoreFile", !.file = x, !.seen = files[x].trashed,
                 !.to = IF liveFolder(files[x].folder) THEN files[x].folder ELSE Top])

\* restore: not from quarantine; to the root when its folder is in the trash.
StartRestoreFile(r) ==
  \E x \in Files :
    /\ files[x].trashed > 0
    /\ versions[files[x].current].scan # "infected"
    /\ Begin(r, [Idle EXCEPT !.step = "restoreFile", !.file = x, !.seen = files[x].trashed,
                 !.to = IF liveFolder(files[x].folder) THEN files[x].folder ELSE Top])

\* Written without a second look: the scan may have ended in between.
restoreFile(r) ==
  LET q == request[r]
      x == q.file
  IN /\ q.step = "restoreFile"
     /\ IF files[x] = NoFile \/ (q.to # Top /\ folders[q.to] = NoPlace) THEN UNCHANGED <<files, stale, rescued>>
        ELSE /\ files' = [files EXCEPT ![x].trashed = 0, ![x].folder = q.to]
             /\ rescued' = IF files[x].trashed # q.seen THEN rescued \cup {x} ELSE rescued
             /\ Decided(r)
     /\ Ends(r)
     /\ UNCHANGED <<folders, versions, objects, bad, job, stamp, used, left, budget, leaked>>

-----------------------------------------------------------------------------
(* purge, purgeExpiredTrash: the rows first, then the objects *)

versionsOf(S) == {v \in Versions : versions[v].file \in S}

StartPurge(r) ==
  \E f \in Folders :
    /\ folders[f].trashed > 0
    /\ LET ids == subtree(folders, f)
            doomed == {x \in Files : files[x].folder \in ids}
       IN Begin(r, [Idle EXCEPT !.step = "purge", !.ids = ids, !.doomed = doomed, !.keys = versionsOf(doomed)])

StartPurgeFile(r) ==
  \E x \in Files :
    files[x].trashed > 0 /\ Begin(r, [Idle EXCEPT !.step = "purgeFile", !.doomed = {x}, !.keys = versionsOf({x})])

\* The hourly maintenance takes what went to the trash until some moment, when there is a file in it.
StartExpire(r) ==
  \E moment \in 1..stamp - 1 :
    LET doomed == {x \in Files : files[x].trashed \in 1..moment} IN
    /\ doomed # {}
    /\ Begin(r, [Idle EXCEPT !.step = "expire", !.seen = moment, !.doomed = doomed, !.keys = versionsOf(doomed)])

\* Files with all their versions, then folders: refused, all of it, when some
\* row that is to stay is in one of the folders.  A version that was added
\* since the keys were read is not among them.
purge(r) ==
  LET q == request[r]
      refused == \/ \E x \in Files \ q.doomed : files[x].folder \in q.ids
                 \/ \E f \in Folders \ q.ids : folders[f].parent \in q.ids
  IN /\ q.step \in {"purge", "purgeFile", "expire"}
     /\ IF refused THEN Ends(r) /\ UNCHANGED <<rows, leaked>>
        ELSE /\ files' = [x \in Files |-> IF x \in q.doomed THEN NoFile ELSE files[x]]
             /\ versions' = [v \in Versions |-> IF versions[v].file \in q.doomed THEN NoVersion ELSE versions[v]]
             /\ folders' = [f \in Folders |-> IF f \in q.ids THEN NoPlace ELSE folders[f]]
             /\ leaked' = leaked \cup (versionsOf(q.doomed) \ q.keys)
             /\ Goes(r, [request[r] EXCEPT !.step = IF q.step = "expire" THEN "unstoreExpired" ELSE "unstore"])
     /\ UNCHANGED <<objects, bad, job, stamp, used, left, budget, stale, rescued>>

deleteObjects(r) ==
  /\ request[r].step \in {"unstore", "unstoreExpired"}
  /\ objects' = objects \ request[r].keys
  /\ IF request[r].step = "unstore" THEN Ends(r) ELSE Goes(r, [request[r] EXCEPT !.step = "prune"])
  /\ UNCHANGED <<rows, bad, job, stamp, used, left, budget, history>>

\* Then the folders of that time which nothing is in; those around them, another hour.
purgeExpiredFolders(r) ==
  /\ request[r].step = "prune"
  /\ folders' = [f \in Folders |->
        IF /\ folders[f].trashed \in 1..request[r].seen
           /\ \A x \in Files : files[x].folder # f
           /\ \A g \in Folders : folders[g].parent # f
        THEN NoPlace ELSE folders[f]]
  /\ Ends(r)
  /\ UNCHANGED <<files, versions, objects, bad, job, stamp, used, left, budget, history>>

-----------------------------------------------------------------------------
(* Faults *)

\* The API dies, or the object storage fails in a call whose failure is ignored.
Die(r) ==
  /\ faults > 0 /\ request[r] # Idle
  /\ LET q == request[r] IN
       leaked' = leaked \cup (IF q.step \in {"commit", "undo", "commitCopy"} THEN {q.version}
                              ELSE IF q.step \in {"unstore", "unstoreExpired"} THEN q.keys ELSE {})
  /\ Ends(r) /\ faults' = faults - 1
  /\ UNCHANGED <<rows, objects, bad, job, stamp, used, plan, left, stale, rescued>>

\* The scan throws, or its worker dies: the job is tried again.
ScanFails(v) ==
  /\ faults > 0 /\ job[v] \in {"pass", "delete", "mark"}
  /\ ScanOf(v, "queued") /\ faults' = faults - 1
  /\ UNCHANGED <<rows, objects, bad, request, stamp, used, plan, left, history>>

-----------------------------------------------------------------------------
Starts(r) ==
  \/ StartCreate(r) \/ StartMove(r) \/ StartTrash(r) \/ StartRestore(r) \/ StartPurge(r)
  \/ StartUpload(r) \/ StartRenew(r) \/ StartCopy(r) \/ StartMoveFile(r) \/ StartTrashFile(r)
  \/ StartRestoreFile(r) \/ StartPurgeFile(r) \/ StartExpire(r)
GoesOn(r) ==
  \/ createFolder(r) \/ updateFolder(r) \/ trashFolder(r) \/ restore(r)
  \/ PutObject(r) \/ CommitVersion(r) \/ UndoPut(r) \/ enqueueFileScan(r) \/ CopyObject(r) \/ copyFile(r)
  \/ updateFile(r) \/ trashFile(r) \/ restoreFile(r)
  \/ purge(r) \/ deleteObjects(r) \/ purgeExpiredFolders(r)
Scans(v) == ScanStart(v) \/ Pass(v) \/ DeleteInfected(v) \/ Quarantine(v)

Next ==
  \/ \E r \in Requests : Starts(r) \/ GoesOn(r) \/ Die(r)
  \/ \E v \in Versions : Scans(v) \/ ScanFails(v)

Spec == Init /\ [][Next]_vars

-----------------------------------------------------------------------------
\* "Refuse to move a folder into itself or its own subtree"
\* (files.service.ts:364), and the trash: what is live hangs from live folders
\* up to the root, so that it can be reached, after any moves, deletions and
\* restorations of nested folders; except when something was written from an
\* index that others had made out of date.
TreeSound ==
  ~stale =>
    /\ Acyclic(folders)
    /\ \A f \in Folders : folders[f] # NoPlace /\ folders[f].trashed = 0 => liveFolder(folders[f].parent)
    /\ \A x \in Files : liveFile(x) => liveFolder(files[x].folder)

InHand(v) == \E r \in Requests :
  \/ request[r].step \in {"commit", "undo", "commitCopy"} /\ request[r].version = v
  \/ request[r].step \in {"unstore", "unstoreExpired"} /\ v \in request[r].keys

\* Rows and objects agree, whatever fails between them: a good version keeps
\* its object and is never taken for malware, malware is never passed as clean
\* and, once recognised, is not kept; what has no row is being removed, or a
\* fault, a refused copy or a purge that missed a new version left it behind.
\* A file whose current version is malware is in the trash, except when a
\* restoration overlapped with its scan.
StoreAgrees ==
  /\ \A v \in Versions : versions[v] # NoVersion =>
       /\ v \notin bad => v \in objects /\ versions[v].scan \in {"pending", "clean"}
       /\ v \in bad => versions[v].scan # "clean"
       /\ versions[v].scan \in {"infected", "error"} => v \notin objects
  /\ \A v \in objects : versions[v] = NoVersion => InHand(v) \/ v \in leaked
  /\ \A x \in Files : liveFile(x) => versions[files[x].current].scan # "infected" \/ x \in rescued
=============================================================================
