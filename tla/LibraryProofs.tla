--------------------------- MODULE LibraryProofs ---------------------------
(* Every variable of Library keeps its type, the tree of folders stays sound    *)
(* and the rows agree with the objects.  The inductive invariant says, besides  *)
(* that, what a request knows from the index it read, when each row of the      *)
(* trash went there, and in whose hands an object is that has no row.           *)
EXTENDS Library, TLAPS

-----------------------------------------------------------------------------
(* The inductive invariant *)

\* A row of folders, a file and a version, there or not, and what a request holds.
Tree    == [Folders -> [parent : Places \cup {NoOne}, trashed : Nat, version : Nat]]
File    == [folder : Places \cup {NoOne}, trashed : Nat, current : Versions \cup {NoOne}, count : Nat, version : Nat]
Version == [file : Files \cup {NoOne}, scan : {"none", "pending", "clean", "infected", "error"}]
Steps   == Operations \cup
           {"idle", "commit", "undo", "enqueue", "commitCopy", "unstore", "unstoreExpired", "prune"}
Request == [step : Steps, folder : Folders \cup {NoOne}, to : Places \cup {NoOne}, file : Files \cup {NoOne},
            version : Versions \cup {NoOne}, seen : Nat, index : Tree,
            ids : SUBSET Folders, doomed : SUBSET Files, keys : SUBSET Versions]

Types ==
  /\ folders \in Tree /\ files \in [Files -> File] /\ versions \in [Versions -> Version]
  /\ objects \subseteq Versions /\ bad \subseteq Versions
  /\ job \in [Versions -> {"none", "queued", "pass", "delete", "mark", "done"}]
  /\ request \in [Requests -> Request]
  /\ plan \in Plans /\ left \in Nat /\ faults \in Nat /\ stamp \in Nat \ {0}
  /\ used \subseteq Folders \cup Files \cup Versions
  /\ stale \in BOOLEAN /\ rescued \subseteq Files /\ leaked \subseteq Versions

\* A row is there or it is not, and what it refers to is there.
Rows ==
  /\ \A f \in Folders : folders[f].parent = NoOne => folders[f] = NoPlace
  /\ \A x \in Files : files[x].folder = NoOne \/ files[x].current = NoOne => files[x] = NoFile
  /\ \A v \in Versions : versions[v].file = NoOne \/ versions[v].scan = "none" => versions[v] = NoVersion
  /\ \A f \in Folders : folders[f].parent \in Folders => folders[folders[f].parent] # NoPlace
  /\ \A x \in Files : files[x].folder \in Folders => folders[files[x].folder] # NoPlace
  /\ \A x \in Files : files[x] # NoFile => versions[files[x].current].file = x
  /\ \A v \in Versions : versions[v] # NoVersion => files[versions[v].file] # NoFile

\* An identifier that is there was given out.
Given ==
  /\ \A f \in Folders : folders[f] # NoPlace => f \in used
  /\ \A v \in Versions : versions[v] # NoVersion \/ job[v] # "none" => v \in used
  /\ objects \subseteq used /\ bad \subseteq used

\* No moment is after the clock.
Stamped ==
  /\ \A f \in Folders : folders[f].trashed < stamp
  /\ \A x \in Files : files[x].trashed < stamp
  /\ \A r \in Requests : request[r].step \in {"restore", "restoreFile"} =>
       0 < request[r].seen /\ request[r].seen < stamp

\* A folder that is not in the trash, in some index.
LiveIn(tree, p) == p = Top \/ (p \in Folders /\ tree[p] # NoPlace /\ tree[p].trashed = 0)

\* What a request knows, from the index it read.
Knows(q) ==
  /\ q.step \in {"create", "upload", "copy", "moveFile", "restoreFile", "commitCopy"} =>
       q.to \in Places /\ LiveIn(q.index, q.to)
  /\ q.step = "commit" /\ q.to # NoOne => LiveIn(q.index, q.to)
  /\ q.step \in {"moveFile", "trashFile", "restoreFile", "renew", "commit", "commitCopy"} => q.file \in Files
  /\ q.step = "renew" => q.to = NoOne
  /\ q.step = "move" =>
       q.folder \in Folders /\ q.to \in Places /\ LiveIn(q.index, q.folder) /\ LiveIn(q.index, q.to)
       /\ q.folder \notin Chain(q.index, q.to)
  /\ q.step = "trash" => q.folder \in Folders /\ q.ids = subtree(q.index, q.folder)
  /\ q.step = "restore" =>
       q.folder \in Folders /\ q.ids = subtree(q.index, q.folder) /\ q.index[q.folder].trashed = q.seen
       /\ q.to = IF LiveIn(q.index, q.index[q.folder].parent) THEN NoOne ELSE Top
  /\ q.step \in {"copy", "commit", "undo", "commitCopy", "enqueue"} => q.version \in Versions

\* What is in the trash went there before what is above it, or with it; or, a
\* file, at a moment of its own.
InTurn ==
  /\ \A f \in Folders : folders[f].trashed > 0 /\ folders[f].parent \in Folders =>
       \/ folders[folders[f].parent].trashed = 0
       \/ folders[folders[f].parent].trashed >= folders[f].trashed
  /\ \A x \in Files : files[x].trashed > 0 /\ files[x].folder \in Folders =>
       \/ folders[files[x].folder].trashed = 0
       \/ folders[files[x].folder].trashed >= files[x].trashed
       \/ \A f \in Folders : folders[f].trashed # files[x].trashed

Reachable ==
  /\ Acyclic(folders)
  /\ \A f \in Folders : folders[f] # NoPlace /\ folders[f].trashed = 0 => liveFolder(folders[f].parent)
  /\ \A x \in Files : liveFile(x) => liveFolder(files[x].folder)

TreeInv == ~stale => Reachable /\ InTurn

LBase == Types /\ Rows /\ Given /\ Stamped /\ \A r \in Requests : Knows(request[r])

\* The steps at which a request has a new version that has no row, and no job.
Unwritten == {"commit", "undo", "commitCopy"}
Making    == Unwritten \cup {"enqueue"}

Makers ==
  \A r \in Requests :
    LET q == request[r] IN
    /\ q.step \in Making =>
         /\ q.version \in used /\ job[q.version] = "none"
         /\ \A p \in Requests \ {r} : request[p].step \in Making => request[p].version # q.version
    /\ q.step \in Unwritten =>
         /\ q.version \in objects /\ versions[q.version] = NoVersion
         /\ \A p \in Requests : q.version \notin request[p].keys
    /\ q.step = "copy" => q.version \in used \ bad
    /\ q.step = "commitCopy" => q.version \notin bad

Keys ==
  \A r \in Requests : \A v \in request[r].keys :
    /\ v \in used
    /\ versions[v] = NoVersion \/ versions[v].file \in request[r].doomed
    /\ request[r].step \in {"unstore", "unstoreExpired"} => versions[v] = NoVersion

Jobs ==
  \A v \in Versions :
    /\ job[v] = "pass" => v \notin bad
    /\ job[v] \in {"delete", "mark"} => v \in bad
    /\ job[v] = "mark" => v \notin objects

Quarantined ==
  /\ \A x \in Files : files[x] # NoFile /\ versions[files[x].current].scan = "infected" /\ x \notin rescued =>
       /\ \A f \in Folders : folders[f].trashed # files[x].trashed
       /\ \A r \in Requests : request[r].step = "restore" => request[r].seen # files[x].trashed
  /\ \A r \in Requests :
       LET x == request[r].file IN
       request[r].step = "restoreFile" /\ files[x] # NoFile /\ files[x].trashed = request[r].seen =>
         versions[files[x].current].scan # "infected"

-----------------------------------------------------------------------------
(* What is above a folder *)

\* A tree of folders, as far as its parents go.
Parents(tree) == \A f \in Folders : tree[f].parent \in Places \cup {NoOne}

\* Closed under parents, from p upwards.
ClosedFrom(tree, p, S) ==
  /\ p \in S \cup {Top, NoOne}
  /\ \A g \in S : tree[g].parent \in S \cup {Top, NoOne}

LEMMA TopApart == Top \notin Folders /\ NoOne \notin Folders /\ Top # NoOne
BY LibraryAssumption DEF LibraryAssumption, Places

LEMMA ChainLeast ==
  ASSUME NEW tree, NEW p, NEW S \in SUBSET Folders, ClosedFrom(tree, p, S)
  PROVE  Chain(tree, p) \subseteq S
BY DEF Chain, ClosedFrom

LEMMA ChainClosed ==
  ASSUME NEW tree, Parents(tree), NEW p \in Places \cup {NoOne}
  PROVE  /\ Chain(tree, p) \subseteq Folders
         /\ ClosedFrom(tree, p, Chain(tree, p))
<1>1. p \in Chain(tree, p) \cup {Top, NoOne}
  BY DEF Chain, Places
<1>2. ASSUME NEW g \in Chain(tree, p)
      PROVE  tree[g].parent \in Chain(tree, p) \cup {Top, NoOne}
  <2>1. g \in Folders
    BY <1>2 DEF Chain
  <2>2. CASE tree[g].parent \in {Top, NoOne}
    BY <2>2
  <2>3. CASE tree[g].parent \in Folders
    <3>1. ASSUME NEW S \in SUBSET Folders, p \in S \cup {Top, NoOne},
                 \A h \in S : tree[h].parent \in S \cup {Top, NoOne}
          PROVE  tree[g].parent \in S
      <4>1. g \in S
        BY <1>2, <3>1 DEF Chain
      <4>2. QED
        BY <4>1, <3>1, <2>3, TopApart
    <3>2. QED
      BY <2>3, <3>1 DEF Chain
  <2>4. QED
    BY <2>1, <2>2, <2>3 DEF Parents, Places
<1>3. QED
  BY <1>1, <1>2 DEF ClosedFrom, Chain

\* Nothing is above the root.
LEMMA ChainOfTop ==
  ASSUME NEW tree, NEW p \in {Top, NoOne}
  PROVE  Chain(tree, p) = {}
<1>1. ClosedFrom(tree, p, {})
  BY DEF ClosedFrom
<1>2. QED
  BY <1>1, ChainLeast

LEMMA ChainOfParent ==
  ASSUME NEW tree, Parents(tree), NEW f \in Folders
  PROVE  /\ f \in Chain(tree, f)
         /\ Chain(tree, tree[f].parent) \subseteq Chain(tree, f)
         /\ Chain(tree, f) \subseteq {f} \cup Chain(tree, tree[f].parent)
<1> DEFINE p == tree[f].parent
<1>0. f \in Places \cup {NoOne} /\ p \in Places \cup {NoOne}
  BY DEF Parents, Places
<1>1. f \in Chain(tree, f)
  BY <1>0, ChainClosed, TopApart DEF ClosedFrom
<1>2. ClosedFrom(tree, p, Chain(tree, f))
  BY <1>0, <1>1, ChainClosed DEF ClosedFrom
<1>3. ClosedFrom(tree, f, {f} \cup Chain(tree, p))
  BY <1>0, ChainClosed DEF ClosedFrom
<1>4. {f} \cup Chain(tree, p) \in SUBSET Folders /\ Chain(tree, f) \in SUBSET Folders
  BY <1>0, ChainClosed
<1>5. QED
  BY <1>1, <1>2, <1>3, <1>4, ChainLeast

\* What is above something on the way up is on the way up.
LEMMA ChainTrans ==
  ASSUME NEW tree, Parents(tree), NEW p \in Places \cup {NoOne}, NEW q \in Chain(tree, p)
  PROVE  Chain(tree, q) \subseteq Chain(tree, p)
<1>1. ClosedFrom(tree, q, Chain(tree, p)) /\ Chain(tree, p) \in SUBSET Folders
  BY ChainClosed DEF ClosedFrom
<1>2. QED
  BY <1>1, ChainLeast

\* Folders taken out of the tree, or hung from the root: no more is above any.
LEMMA ChainPruned ==
  ASSUME NEW tree, NEW tree2, Parents(tree), NEW p \in Places \cup {NoOne},
         \A f \in Folders : tree2[f].parent \in {tree[f].parent, Top, NoOne}
  PROVE  Chain(tree2, p) \subseteq Chain(tree, p)
<1>1. ClosedFrom(tree2, p, Chain(tree, p)) /\ Chain(tree, p) \in SUBSET Folders
  <2>1. Chain(tree, p) \in SUBSET Folders /\ ClosedFrom(tree, p, Chain(tree, p))
    BY ChainClosed
  <2>2. QED
    BY <2>1 DEF ClosedFrom
<1>2. QED
  BY <1>1, ChainLeast

LEMMA AcyclicPruned ==
  ASSUME NEW tree, NEW tree2, Parents(tree), Acyclic(tree),
         \A f \in Folders : tree2[f].parent \in {tree[f].parent, Top, NoOne}
  PROVE  Acyclic(tree2)
<1> SUFFICES ASSUME NEW f \in Folders, f \in Chain(tree2, tree2[f].parent)
             PROVE  FALSE
  BY DEF Acyclic
<1>1. CASE tree2[f].parent \in {Top, NoOne}
  BY <1>1, ChainOfTop
<1>2. CASE tree2[f].parent = tree[f].parent
  <2>1. Chain(tree2, tree[f].parent) \subseteq Chain(tree, tree[f].parent)
    <3>1. tree[f].parent \in Places \cup {NoOne}
      BY DEF Parents
    <3>2. QED
      BY <3>1, ChainPruned
  <2>2. QED
    BY <1>2, <2>1 DEF Acyclic
<1>3. QED
  BY <1>1, <1>2

\* A folder hung elsewhere, not beneath itself.
LEMMA AcyclicMoved ==
  ASSUME NEW tree, NEW tree2, Parents(tree), Acyclic(tree),
         NEW f \in Folders, NEW p \in Places, f \notin Chain(tree, p), tree2[f].parent = p,
         \A g \in Folders \ {f} : tree2[g].parent = tree[g].parent
  PROVE  Acyclic(tree2)
<1> DEFINE above == Chain(tree, p)
<1>a. above \in SUBSET Folders /\ ClosedFrom(tree, p, above)
  BY ChainClosed
<1>1. Chain(tree2, p) \subseteq above
  <2>1. ClosedFrom(tree2, p, above)
    BY <1>a DEF ClosedFrom
  <2>2. QED
    BY <2>1, <1>a, ChainLeast
<1> SUFFICES ASSUME NEW g \in Folders, g \in Chain(tree2, tree2[g].parent)
             PROVE  FALSE
  BY DEF Acyclic
<1>2. CASE g = f
  BY <1>1, <1>2
<1>3. CASE g # f
  <2> DEFINE q == tree[g].parent   up == Chain(tree, q)
  <2>1. q \in Places \cup {NoOne} /\ tree2[g].parent = q
    BY <1>3 DEF Parents
  <2>2. up \in SUBSET Folders /\ ClosedFrom(tree, q, up)
    BY <2>1, ChainClosed
  <2>3. g \notin up
    BY DEF Acyclic
  <2>4. ClosedFrom(tree2, q, up \cup above)
    BY <2>2, <1>a DEF ClosedFrom
  <2>5. g \in up \cup above
    BY <2>4, <2>2, <1>a, <2>1, ChainLeast
  <2>6. g \in above
    BY <2>5, <2>3
  <2>7. up \subseteq above
    <3>1. ClosedFrom(tree, q, above)
      BY <2>6, <1>a DEF ClosedFrom
    <3>2. QED
      BY <3>1, <1>a, ChainLeast
  <2>8. ClosedFrom(tree2, q, up)
    BY <2>2, <2>7 DEF ClosedFrom
  <2>9. QED
    BY <2>8, <2>2, <2>1, <2>3, ChainLeast
<1>4. QED
  BY <1>2, <1>3

-----------------------------------------------------------------------------
(* What a request reads when it begins *)

\* A request that has just read the index and the rows it needs.
Reads(n) ==
  /\ n \in Request /\ n.step \in Operations /\ n.index = folders /\ Knows(n)
  /\ \A v \in n.keys : versions[v] # NoVersion /\ versions[v].file \in n.doomed
  /\ n.step = "copy" => versions[n.version].scan = "clean"
  /\ n.step = "restore" => n.seen > 0 /\ \E f \in Folders : n.seen = folders[f].trashed
  /\ n.step = "restoreFile" =>
       /\ n.seen > 0 /\ n.seen = files[n.file].trashed
       /\ versions[files[n.file].current].scan # "infected"

Opens(r, n) ==
  /\ request[r] = Idle /\ Reads(n)
  /\ request' = [request EXCEPT ![r] = n] /\ left' \in Nat
  /\ UNCHANGED <<rows, objects, bad, job, stamp, used, budget, history>>

LEMMA IdleType == Types => Idle \in Request
<1> SUFFICES ASSUME Types PROVE Idle \in Request
  OBVIOUS
<1>1. [f \in Folders |-> NoPlace] \in Tree
  BY DEF Tree, NoPlace
<1>2. QED
  BY <1>1 DEF Idle, Request, Steps

LEMMA LiveInIndex == \A p : liveFolder(p) <=> LiveIn(folders, p)
BY DEF liveFolder, LiveIn

\* What Begin does, for any request that is well typed.
LEMMA BeginOpens ==
  ASSUME Types, NEW r \in Requests, NEW q \in Request, Begin(r, q),
         Reads([q EXCEPT !.index = folders])
  PROVE  \E n : Opens(r, n)
<1>1. request[r] = Idle /\ request' = [request EXCEPT ![r] = [q EXCEPT !.index = folders]] /\ left' \in Nat
  BY DEF Begin, Types
<1>2. UNCHANGED <<rows, objects, bad, job, stamp, used, budget, history>>
  BY DEF Begin
<1>3. QED
  BY <1>1, <1>2 DEF Opens

LEMMA SubtreeType == \A f : subtree(folders, f) \subseteq Folders
BY DEF subtree

LEMMA StartOpens ==
  ASSUME Types, Rows, NEW r \in Requests, Starts(r)
  PROVE  \E n : Opens(r, n)
<1> USE DEF Types
<1>i. Idle \in Request /\ folders \in Tree
  BY IdleType
<1>k. \A S \in SUBSET Files : /\ versionsOf(S) \subseteq Versions
                              /\ \A v \in versionsOf(S) : versions[v] # NoVersion /\ versions[v].file \in S
  BY TopApart, LibraryAssumption DEF versionsOf, NoVersion, LibraryAssumption
<1>1. CASE StartCreate(r)
  <2>1. PICK p \in Places : liveFolder(p) /\ Begin(r, [Idle EXCEPT !.step = "create", !.to = p])
    BY <1>1 DEF StartCreate
  <2> DEFINE q == [Idle EXCEPT !.step = "create", !.to = p]
             n == [q EXCEPT !.index = folders]
  <2>2. q \in Request /\ n \in Request
    BY <1>i DEF Request, Steps, Operations, Idle
  <2>3. n.step = "create" /\ n.to = p /\ n.index = folders /\ n.keys = {}
    BY DEF Idle
  <2>4. Reads(n)
    BY <2>1, <2>2, <2>3, LiveInIndex DEF Reads, Knows, Operations
  <2>5. QED
    BY <2>1, <2>2, <2>4, BeginOpens
<1>2. CASE StartMove(r)
  <2>1. PICK f \in Folders, p \in Places :
          /\ liveFolder(f) /\ liveFolder(p) /\ f \notin Chain(folders, p)
          /\ Begin(r, [Idle EXCEPT !.step = "move", !.folder = f, !.to = p, !.seen = folders[f].version])
    BY <1>2 DEF StartMove
  <2> DEFINE q == [Idle EXCEPT !.step = "move", !.folder = f, !.to = p, !.seen = folders[f].version]
             n == [q EXCEPT !.index = folders]
  <2>2. q \in Request /\ n \in Request
    BY <1>i DEF Request, Steps, Operations, Idle, Tree
  <2>3. n.step = "move" /\ n.folder = f /\ n.to = p /\ n.index = folders /\ n.keys = {}
    BY DEF Idle
  <2>4. Reads(n)
    BY <2>1, <2>2, <2>3, LiveInIndex DEF Reads, Knows, Operations
  <2>5. QED
    BY <2>1, <2>2, <2>4, BeginOpens
<1>3. CASE StartTrash(r)
  <2>1. PICK f \in Folders : Begin(r, [Idle EXCEPT !.step = "trash", !.folder = f, !.ids = subtree(folders, f)])
    BY <1>3 DEF StartTrash
  <2> DEFINE q == [Idle EXCEPT !.step = "trash", !.folder = f, !.ids = subtree(folders, f)]
             n == [q EXCEPT !.index = folders]
  <2>2. q \in Request /\ n \in Request
    BY <1>i, SubtreeType DEF Request, Steps, Operations, Idle
  <2>3. n.step = "trash" /\ n.folder = f /\ n.ids = subtree(folders, f) /\ n.index = folders /\ n.keys = {}
    BY DEF Idle
  <2>4. Reads(n)
    BY <2>1, <2>2, <2>3 DEF Reads, Knows, Operations
  <2>5. QED
    BY <2>1, <2>2, <2>4, BeginOpens
<1>4. CASE StartRestore(r)
  <2>1. PICK f \in Folders :
          /\ folders[f].trashed > 0
          /\ Begin(r, [Idle EXCEPT !.step = "restore", !.folder = f, !.ids = subtree(folders, f),
                                   !.seen = folders[f].trashed,
                                   !.to = IF liveFolder(folders[f].parent) THEN NoOne ELSE Top])
    BY <1>4 DEF StartRestore
  <2> DEFINE to == IF liveFolder(folders[f].parent) THEN NoOne ELSE Top
             q == [Idle EXCEPT !.step = "restore", !.folder = f, !.ids = subtree(folders, f),
                               !.seen = folders[f].trashed, !.to = to]
             n == [q EXCEPT !.index = folders]
  <2>0. to \in Places \cup {NoOne} /\ folders[f].trashed \in Nat
    BY DEF Places, Tree
  <2>2. q \in Request /\ n \in Request
    <3> HIDE DEF to
    <3>1. QED
      BY <1>i, <2>0, SubtreeType DEF Request, Steps, Operations, Idle
  <2>3. n.step = "restore" /\ n.folder = f /\ n.ids = subtree(folders, f) /\ n.index = folders /\ n.keys = {}
    BY DEF Idle
  <2>3a. n.seen = folders[f].trashed /\ n.to = to
    <3> HIDE DEF to
    <3>1. QED
      BY DEF Idle
  <2>4. Knows(n)
    <3>1. to = IF LiveIn(folders, folders[f].parent) THEN NoOne ELSE Top
      BY LiveInIndex
    <3> HIDE DEF n
    <3>2. QED
      BY <2>1, <2>3, <2>3a, <3>1 DEF Knows
  <2>4a. Reads(n)
    <3> HIDE DEF n
    <3>1. QED
      BY <2>1, <2>2, <2>3, <2>3a, <2>4 DEF Reads, Operations
  <2>5. QED
    BY <2>1, <2>2, <2>4a, BeginOpens
<1>5. CASE StartPurge(r)
  <2>1. PICK f \in Folders :
          LET ids == subtree(folders, f)
              doomed == {x \in Files : files[x].folder \in ids}
          IN Begin(r, [Idle EXCEPT !.step = "purge", !.ids = ids, !.doomed = doomed, !.keys = versionsOf(doomed)])
    BY <1>5 DEF StartPurge
  <2> DEFINE ids == subtree(folders, f)
             doomed == {x \in Files : files[x].folder \in ids}
             q == [Idle EXCEPT !.step = "purge", !.ids = ids, !.doomed = doomed, !.keys = versionsOf(doomed)]
             n == [q EXCEPT !.index = folders]
  <2>0. ids \in SUBSET Folders /\ doomed \in SUBSET Files /\ versionsOf(doomed) \in SUBSET Versions
    BY <1>k, SubtreeType
  <2> HIDE DEF ids, doomed
  <2>2. q \in Request /\ n \in Request
    BY <1>i, <2>0 DEF Request, Steps, Operations, Idle
  <2>3. n.step = "purge" /\ n.index = folders /\ n.keys = versionsOf(doomed) /\ n.doomed = doomed
    BY DEF Idle
  <2>4. Reads(n)
    <3> HIDE DEF n
    <3>1. QED
      BY <1>k, <2>0, <2>2, <2>3 DEF Reads, Knows, Operations
  <2>5. QED
    BY <2>1, <2>2, <2>4, BeginOpens DEF ids, doomed
<1>6. CASE StartUpload(r)
  <2>1. PICK p \in Places : liveFolder(p) /\ Begin(r, [Idle EXCEPT !.step = "upload", !.to = p])
    BY <1>6 DEF StartUpload
  <2> DEFINE q == [Idle EXCEPT !.step = "upload", !.to = p]
             n == [q EXCEPT !.index = folders]
  <2>2. q \in Request /\ n \in Request
    BY <1>i DEF Request, Steps, Operations, Idle
  <2>3. n.step = "upload" /\ n.to = p /\ n.index = folders /\ n.keys = {}
    BY DEF Idle
  <2>4. Reads(n)
    BY <2>1, <2>2, <2>3, LiveInIndex DEF Reads, Knows, Operations
  <2>5. QED
    BY <2>1, <2>2, <2>4, BeginOpens
<1>7. CASE StartRenew(r)
  <2>1. PICK x \in Files : Begin(r, [Idle EXCEPT !.step = "renew", !.file = x, !.seen = files[x].count])
    BY <1>7 DEF StartRenew
  <2> DEFINE q == [Idle EXCEPT !.step = "renew", !.file = x, !.seen = files[x].count]
             n == [q EXCEPT !.index = folders]
  <2>2. q \in Request /\ n \in Request
    BY <1>i DEF Request, Steps, Operations, Idle, File
  <2>3. n.step = "renew" /\ n.to = NoOne /\ n.file = x /\ n.index = folders /\ n.keys = {}
    BY DEF Idle
  <2>4. Reads(n)
    BY <2>1, <2>2, <2>3 DEF Reads, Knows, Operations
  <2>5. QED
    BY <2>1, <2>2, <2>4, BeginOpens
<1>8. CASE StartCopy(r)
  <2>1. PICK x \in Files, p \in Places :
          /\ liveFile(x) /\ liveFolder(p) /\ clean(x)
          /\ Begin(r, [Idle EXCEPT !.step = "copy", !.version = files[x].current, !.to = p])
    BY <1>8 DEF StartCopy
  <2> DEFINE v == files[x].current
             q == [Idle EXCEPT !.step = "copy", !.version = v, !.to = p]
             n == [q EXCEPT !.index = folders]
  <2>0. v \in Versions /\ versions[v].scan = "clean"
    BY <2>1 DEF clean, liveFile, Rows, File
  <2>2. q \in Request /\ n \in Request
    <3> HIDE DEF v
    <3>1. QED
      BY <1>i, <2>0 DEF Request, Steps, Operations, Idle
  <2>3. n.step = "copy" /\ n.to = p /\ n.version = v /\ n.index = folders /\ n.keys = {}
    BY DEF Idle
  <2>4. Reads(n)
    <3> HIDE DEF n, v
    <3>1. QED
      BY <2>0, <2>1, <2>2, <2>3, LiveInIndex DEF Reads, Knows, Operations
  <2>5. QED
    BY <2>1, <2>2, <2>4, BeginOpens
<1>9. CASE StartMoveFile(r)
  <2>1. PICK x \in Files, p \in Places :
          /\ liveFolder(p)
          /\ Begin(r, [Idle EXCEPT !.step = "moveFile", !.file = x, !.to = p, !.seen = files[x].version])
    BY <1>9 DEF StartMoveFile
  <2> DEFINE q == [Idle EXCEPT !.step = "moveFile", !.file = x, !.to = p, !.seen = files[x].version]
             n == [q EXCEPT !.index = folders]
  <2>2. q \in Request /\ n \in Request
    BY <1>i DEF Request, Steps, Operations, Idle, File
  <2>3. n.step = "moveFile" /\ n.to = p /\ n.file = x /\ n.index = folders /\ n.keys = {}
    BY DEF Idle
  <2>4. Reads(n)
    BY <2>1, <2>2, <2>3, LiveInIndex DEF Reads, Knows, Operations
  <2>5. QED
    BY <2>1, <2>2, <2>4, BeginOpens
<1>10. CASE StartTrashFile(r)
  <2>1. PICK x \in Files : Begin(r, [Idle EXCEPT !.step = "trashFile", !.file = x])
    BY <1>10 DEF StartTrashFile
  <2> DEFINE q == [Idle EXCEPT !.step = "trashFile", !.file = x]
             n == [q EXCEPT !.index = folders]
  <2>2. q \in Request /\ n \in Request
    BY <1>i DEF Request, Steps, Operations, Idle
  <2>3. n.step = "trashFile" /\ n.file = x /\ n.index = folders /\ n.keys = {}
    BY DEF Idle
  <2>4. Reads(n)
    BY <2>1, <2>2, <2>3 DEF Reads, Knows, Operations
  <2>5. QED
    BY <2>1, <2>2, <2>4, BeginOpens
<1>11. CASE StartRestoreFile(r)
  <2>1. PICK x \in Files :
          /\ files[x].trashed > 0 /\ versions[files[x].current].scan # "infected"
          /\ Begin(r, [Idle EXCEPT !.step = "restoreFile", !.file = x, !.seen = files[x].trashed,
                                   !.to = IF liveFolder(files[x].folder) THEN files[x].folder ELSE Top])
    BY <1>11 DEF StartRestoreFile
  <2> DEFINE p == IF liveFolder(files[x].folder) THEN files[x].folder ELSE Top
             q == [Idle EXCEPT !.step = "restoreFile", !.file = x, !.seen = files[x].trashed, !.to = p]
             n == [q EXCEPT !.index = folders]
  <2>0. p \in Places /\ LiveIn(folders, p)
    BY DEF liveFolder, LiveIn, Places
  <2>2. q \in Request /\ n \in Request
    <3> HIDE DEF p
    <3>1. QED
      BY <1>i, <2>0 DEF Request, Steps, Operations, Idle, File
  <2>3. n.step = "restoreFile" /\ n.file = x /\ n.index = folders /\ n.keys = {}
    BY DEF Idle
  <2>3a. n.to = p /\ n.seen = files[x].trashed
    <3> HIDE DEF p
    <3>1. QED
      BY DEF Idle
  <2>4. Reads(n)
    <3> HIDE DEF n, p
    <3>1. QED
      BY <2>0, <2>1, <2>2, <2>3, <2>3a DEF Reads, Knows, Operations
  <2>5. QED
    BY <2>1, <2>2, <2>4, BeginOpens
<1>12. CASE StartPurgeFile(r)
  <2>1. PICK x \in Files :
          Begin(r, [Idle EXCEPT !.step = "purgeFile", !.doomed = {x}, !.keys = versionsOf({x})])
    BY <1>12 DEF StartPurgeFile
  <2> DEFINE q == [Idle EXCEPT !.step = "purgeFile", !.doomed = {x}, !.keys = versionsOf({x})]
             n == [q EXCEPT !.index = folders]
  <2>0. {x} \in SUBSET Files /\ versionsOf({x}) \in SUBSET Versions
    BY <1>k
  <2>2. q \in Request /\ n \in Request
    BY <1>i, <2>0 DEF Request, Steps, Operations, Idle
  <2>3. n.step = "purgeFile" /\ n.index = folders /\ n.keys = versionsOf({x}) /\ n.doomed = {x}
    BY DEF Idle
  <2>4. Reads(n)
    <3> HIDE DEF n
    <3>1. QED
      BY <1>k, <2>2, <2>3 DEF Reads, Knows, Operations
  <2>5. QED
    BY <2>1, <2>2, <2>4, BeginOpens
<1>13. CASE StartExpire(r)
  <2>1. PICK moment \in 1..stamp - 1 :
          LET doomed == {x \in Files : files[x].trashed \in 1..moment} IN
          Begin(r, [Idle EXCEPT !.step = "expire", !.seen = moment, !.doomed = doomed, !.keys = versionsOf(doomed)])
    BY <1>13 DEF StartExpire
  <2> DEFINE doomed == {x \in Files : files[x].trashed \in 1..moment}
             q == [Idle EXCEPT !.step = "expire", !.seen = moment, !.doomed = doomed, !.keys = versionsOf(doomed)]
             n == [q EXCEPT !.index = folders]
  <2>0. doomed \in SUBSET Files /\ versionsOf(doomed) \in SUBSET Versions /\ moment \in Nat
    BY <1>k
  <2> HIDE DEF doomed
  <2>2. q \in Request /\ n \in Request
    BY <1>i, <2>0 DEF Request, Steps, Operations, Idle
  <2>3. n.step = "expire" /\ n.index = folders /\ n.keys = versionsOf(doomed) /\ n.doomed = doomed
    BY DEF Idle
  <2>4. Reads(n)
    <3> HIDE DEF n
    <3>1. QED
      BY <1>k, <2>0, <2>2, <2>3 DEF Reads, Knows, Operations
  <2>5. QED
    BY <2>1, <2>2, <2>4, BeginOpens DEF doomed
<1>14. QED
  BY <1>1, <1>2, <1>3, <1>4, <1>5, <1>6, <1>7, <1>8, <1>9, <1>10, <1>11, <1>12, <1>13 DEF Starts

-----------------------------------------------------------------------------
(* A request goes on *)

LEMMA FreshIsNew ==
  ASSUME NEW S, S \ used # {}
  PROVE  Fresh(S) \in S /\ Fresh(S) \notin used
BY DEF Fresh

\* What a request is after a step of its own: ended, or the same at its next step.
Keeps(q, n) ==
  /\ n \in Request /\ n.index = q.index /\ n.to = q.to /\ n.seen = q.seen /\ n.folder = q.folder
  /\ n.ids = q.ids /\ n.doomed = q.doomed /\ n.keys = q.keys

Sequel(q, n) ==
  \/ n = Idle
  \/ /\ Keeps(q, n)
     /\ \/ q.step \in {"upload", "renew"} /\ n.step = "commit" /\ n.version \in Versions /\ n.file \in Files
        \/ q.step = "copy" /\ n.step = "commitCopy" /\ n.version \in Versions /\ n.file \in Files
        \/ q.step = "commit" /\ n.step \in {"undo", "enqueue"} /\ n.version = q.version /\ n.file = q.file
        \/ q.step \in {"purge", "purgeFile", "expire"} /\ n.step \in {"unstore", "unstoreExpired"}
        \/ q.step = "unstoreExpired" /\ n.step = "prune"

Becomes(r, n) == request' = [request EXCEPT ![r] = n]

\* A new identifier for the version, and the file of the request.
TurnsTo(q, n, s, v, x) == Keeps(q, n) /\ n.step = s /\ n.version = v /\ n.file = x

LEMMA WithVersion ==
  ASSUME NEW q \in Request, NEW s \in Steps, NEW v \in Versions, NEW x \in Files,
         NEW n, n = [q EXCEPT !.step = s, !.version = v, !.file = x]
  PROVE  TurnsTo(q, n, s, v, x)
<1>1. n \in Request
  BY DEF Request
<1>2. n.index = q.index /\ n.to = q.to /\ n.seen = q.seen /\ n.folder = q.folder
  BY DEF Request
<1>3. n.ids = q.ids /\ n.doomed = q.doomed /\ n.keys = q.keys
  BY DEF Request
<1>4. n.step = s /\ n.version = v /\ n.file = x
  BY DEF Request
<1>5. QED
  BY <1>1, <1>2, <1>3, <1>4 DEF TurnsTo, Keeps

LEMMA WithStep ==
  ASSUME NEW q \in Request, NEW s \in Steps
  PROVE  LET n == [q EXCEPT !.step = s] IN
         Keeps(q, n) /\ n.step = s /\ n.version = q.version /\ n.file = q.file
<1> DEFINE n == [q EXCEPT !.step = s]
<1>1. n \in Request
  BY DEF Request
<1>2. n.index = q.index /\ n.to = q.to /\ n.seen = q.seen /\ n.folder = q.folder
  BY DEF Request
<1>3. n.ids = q.ids /\ n.doomed = q.doomed /\ n.keys = q.keys
  BY DEF Request
<1>4. n.step = s /\ n.version = q.version /\ n.file = q.file
  BY DEF Request
<1>5. QED
  BY <1>1, <1>2, <1>3, <1>4 DEF Keeps

LEMMA PutSequel ==
  ASSUME NEW q \in Request, q.step \in {"upload", "renew"}, NEW v \in Versions, NEW x \in Files
  PROVE  Sequel(q, [q EXCEPT !.step = "commit", !.version = v, !.file = x])
<1>1. PICK s, n : s = "commit" /\ n = [q EXCEPT !.step = s, !.version = v, !.file = x]
  OBVIOUS
<1>2. s \in Steps
  BY <1>1 DEF Steps
<1>3. TurnsTo(q, n, s, v, x)
  BY <1>1, <1>2, WithVersion
<1>4. Sequel(q, n)
  BY <1>1, <1>3 DEF Sequel, TurnsTo
<1>5. QED
  BY <1>1, <1>4

LEMMA CopySequel ==
  ASSUME NEW q \in Request, q.step = "copy", NEW v \in Versions, NEW x \in Files
  PROVE  Sequel(q, [q EXCEPT !.step = "commitCopy", !.version = v, !.file = x])
<1>1. PICK s, n : s = "commitCopy" /\ n = [q EXCEPT !.step = s, !.version = v, !.file = x]
  OBVIOUS
<1>2. s \in Steps
  BY <1>1 DEF Steps
<1>3. TurnsTo(q, n, s, v, x)
  BY <1>1, <1>2, WithVersion
<1>4. Sequel(q, n)
  BY <1>1, <1>3 DEF Sequel, TurnsTo
<1>5. QED
  BY <1>1, <1>4

LEMMA OwnStep ==
  ASSUME Types, Rows, NEW r \in Requests, Knows(request[r]), GoesOn(r) \/ Die(r)
  PROVE  \E n : Becomes(r, n) /\ Sequel(request[r], n)
<1> USE DEF Types
<1> DEFINE q == request[r]
<1>q. q \in Request
  OBVIOUS
<1>s. Steps = Operations \cup Making \cup {"idle", "unstore", "unstoreExpired", "prune"}
  BY DEF Steps, Making, Unwritten
<1>e. Ends(r) => \E n : Becomes(r, n) /\ Sequel(request[r], n)
  BY DEF Ends, Becomes, Sequel
<1>1. CASE createFolder(r) \/ updateFolder(r) \/ trashFolder(r) \/ restore(r) \/ UndoPut(r) \/ enqueueFileScan(r)
  BY <1>1, <1>e DEF createFolder, updateFolder, trashFolder, restore, UndoPut, enqueueFileScan
<1>2. CASE copyFile(r) \/ updateFile(r) \/ trashFile(r) \/ restoreFile(r) \/ purgeExpiredFolders(r) \/ Die(r)
  BY <1>2, <1>e DEF copyFile, updateFile, trashFile, restoreFile, purgeExpiredFolders, Die
<1>3. CASE PutObject(r)
  <2>1. Fresh(Versions) \in Versions /\ Fresh(Files) \in Files /\ q.step \in {"upload", "renew"} /\ (q.step = "renew" => q.file \in Files)
    BY <1>3, FreshIsNew DEF PutObject, Knows
  <2>2. PICK v \in Versions, x \in Files :
          Becomes(r, [q EXCEPT !.step = "commit", !.version = v, !.file = x])
    BY <1>3, <2>1 DEF PutObject, Goes, Becomes, Knows
  <2> HIDE DEF q
  <2>3. Sequel(q, [q EXCEPT !.step = "commit", !.version = v, !.file = x])
    BY <1>q, <2>1, PutSequel
  <2>4. QED
    BY <1>e, <2>2, <2>3 DEF q
<1>4. CASE CopyObject(r)
  <2>1. Fresh(Versions) \in Versions /\ Fresh(Files) \in Files /\ q.step = "copy"
    BY <1>4, FreshIsNew DEF CopyObject, Knows
  <2>2. PICK v \in Versions, x \in Files :
          Ends(r) \/ Becomes(r, [q EXCEPT !.step = "commitCopy", !.version = v, !.file = x])
    BY <1>4, <2>1 DEF CopyObject, Goes, Becomes, Knows
  <2> HIDE DEF q
  <2>3. Sequel(q, [q EXCEPT !.step = "commitCopy", !.version = v, !.file = x])
    BY <1>q, <2>1, CopySequel
  <2>4. QED
    BY <1>e, <2>2, <2>3 DEF q
<1>5. CASE CommitVersion(r)
  <2>1. PICK s \in {"undo", "enqueue"} : Becomes(r, [q EXCEPT !.step = s]) /\ q.step = "commit"
    BY <1>5 DEF CommitVersion, Goes, Becomes
  <2> DEFINE n == [q EXCEPT !.step = s]
  <2>2. Sequel(q, n)
    <3> HIDE DEF q
    <3>1. Keeps(q, n) /\ n.step = s /\ n.version = q.version /\ n.file = q.file
      BY <1>q, <1>s, WithStep DEF Making, Unwritten
    <3>2. QED
      BY <2>1, <3>1 DEF Sequel
  <2>3. QED
    BY <2>1, <2>2
<1>6. CASE purge(r)
  <2>1. CASE Ends(r)
    BY <2>1, <1>e
  <2>2. CASE ~Ends(r)
    <3>1. PICK s \in {"unstore", "unstoreExpired"} :
            Becomes(r, [q EXCEPT !.step = s]) /\ q.step \in {"purge", "purgeFile", "expire"}
      BY <1>6, <2>2 DEF purge, Goes, Becomes
    <3> DEFINE n == [q EXCEPT !.step = s]
    <3>2. Sequel(q, n)
      <4> HIDE DEF q
      <4>1. Keeps(q, n) /\ n.step = s
        BY <1>q, <1>s, WithStep
      <4>2. QED
        BY <3>1, <4>1 DEF Sequel
    <3>3. QED
      BY <3>1, <3>2
  <2>3. QED
    BY <2>1, <2>2
<1>7. CASE deleteObjects(r)
  <2> DEFINE n == [q EXCEPT !.step = "prune"]
  <2>1. Ends(r) \/ (Becomes(r, n) /\ q.step = "unstoreExpired")
    BY <1>7 DEF deleteObjects, Goes, Becomes
  <2>2. CASE Becomes(r, n) /\ q.step = "unstoreExpired"
    <3>1. Sequel(q, n)
      <4> HIDE DEF q
      <4>1. Keeps(q, n) /\ n.step = "prune"
        BY <1>q, <1>s, WithStep
      <4>2. QED
        BY <2>2, <4>1 DEF Sequel
    <3>2. QED
      BY <2>2, <3>1
  <2>3. QED
    BY <1>e, <2>1, <2>2
<1>8. QED
  BY <1>1, <1>2, <1>3, <1>4, <1>5, <1>6, <1>7 DEF GoesOn

\* It still knows what it knew.
LEMMA SequelKnows ==
  ASSUME NEW q, Knows(q), NEW n, Sequel(q, n)
  PROVE  Knows(n)
<1>1. CASE n = Idle
  BY <1>1 DEF Idle, Knows
<1>2. CASE n # Idle
  <2>1. n.step \in {"commit", "commitCopy", "undo", "enqueue", "unstore", "unstoreExpired", "prune"}
    BY <1>2 DEF Sequel
  <2>2. CASE n.step = "commit"
    <3>1. q.step \in {"upload", "renew"} /\ n.version \in Versions /\ n.file \in Files /\ Keeps(q, n)
      BY <1>2, <2>2 DEF Sequel
    <3>2. QED
      BY <2>2, <3>1 DEF Knows, Keeps
  <2>3. CASE n.step = "commitCopy"
    <3>1. q.step = "copy" /\ n.version \in Versions /\ n.file \in Files /\ Keeps(q, n)
      BY <1>2, <2>3 DEF Sequel
    <3>2. QED
      BY <2>3, <3>1 DEF Knows, Keeps
  <2>4. CASE n.step \in {"undo", "enqueue"}
    <3>1. q.step = "commit" /\ n.version = q.version
      BY <1>2, <2>4 DEF Sequel
    <3>2. QED
      BY <2>4, <3>1 DEF Knows
  <2>5. CASE n.step \in {"unstore", "unstoreExpired", "prune"}
    BY <2>5 DEF Knows
  <2>6. QED
    BY <2>1, <2>2, <2>3, <2>4, <2>5
<1>3. QED
  BY <1>1, <1>2

-----------------------------------------------------------------------------
(* Every variable is well typed *)

LEMMA InitTypes == Init => Types /\ Rows
<1> SUFFICES ASSUME Init PROVE Types /\ Rows
  OBVIOUS
<1>1. PICK p \in Plans : plan = p /\ left = p.left /\ faults = p.faults /\ folders = Planted(p)
  BY DEF Init
<1>2. /\ p.parents \in [Folders -> Places \cup {NoOne}] /\ p.homes \in [Files -> Places \cup {NoOne}]
      /\ p.holds \in [Files -> Versions \cup {NoOne}] /\ p.left \in Nat /\ p.faults \in Nat
  BY LibraryAssumption DEF LibraryAssumption
<1>3. folders \in Tree
  BY <1>1, <1>2 DEF Tree, Planted, NoPlace
<1>4. files \in [Files -> File] /\ \A x \in Files :
        /\ p.homes[x] = NoOne => files[x] = NoFile
        /\ p.homes[x] # NoOne => files[x].folder = p.homes[x] /\ files[x].current = p.holds[x] /\ files[x].trashed = 0
                                 /\ files[x].current # NoOne
  <2>1. files = [x \in Files |-> IF p.homes[x] = NoOne THEN NoFile
                  ELSE [folder |-> p.homes[x], trashed |-> 0, current |-> p.holds[x], count |-> 1, version |-> 1]]
    BY <1>1 DEF Init
  <2>2. \A x \in Files : p.homes[x] = NoOne <=> p.holds[x] = NoOne
    BY PlansAssumption DEF PlansAssumption
  <2>3. QED
    BY <1>2, <2>1, <2>2 DEF File, NoFile
<1>5. versions \in [Versions -> Version] /\ \A v \in Versions :
        \/ versions[v] = NoVersion /\ \A x \in Files : p.holds[x] # v
        \/ versions[v].file \in Files /\ p.holds[versions[v].file] = v /\ versions[v].scan = "clean"
  <2>1. versions = [v \in Versions |-> IF \E x \in Files : p.holds[x] = v
                     THEN [file |-> CHOOSE x \in Files : p.holds[x] = v, scan |-> "clean"] ELSE NoVersion]
    BY <1>1 DEF Init
  <2>2. QED
    BY <2>1 DEF Version, NoVersion
<1>6. Types
  <2>1. objects \subseteq Versions /\ bad \subseteq Versions
    BY DEF Init
  <2>2. job \in [Versions -> {"none", "queued", "pass", "delete", "mark", "done"}]
    BY DEF Init
  <2>3. Idle \in Request
    <3>1. [f \in Folders |-> NoPlace] \in Tree
      BY DEF Tree, NoPlace
    <3>2. QED
      BY <3>1 DEF Idle, Request, Steps
  <2>4. used \subseteq Folders \cup Files \cup Versions
    BY <2>1 DEF Init
  <2>5. QED
    <3>1. stale = FALSE /\ rescued = {} /\ leaked = {} /\ stamp = 1
      BY DEF Init
    <3>2. request \in [Requests -> Request]
      BY <2>3 DEF Init
    <3>3. QED
      <4>1. folders \in Tree /\ files \in [Files -> File] /\ versions \in [Versions -> Version]
        BY <1>3, <1>4, <1>5
      <4>2. plan \in Plans /\ left \in Nat /\ faults \in Nat
        BY <1>1, <1>2
      <4>3. rescued \subseteq Files /\ leaked \subseteq Versions /\ stamp \in Nat \ {0}
        BY <3>1
      <4>4. stale \in BOOLEAN
        BY <3>1, Zenon
      <4>5. QED
        BY <2>1, <2>2, <2>4, <3>2, <4>1, <4>2, <4>3, <4>4 DEF Types
<1>7. Rows
  <2>1. \A f \in Folders : /\ p.parents[f] = NoOne => folders[f] = NoPlace
                           /\ p.parents[f] # NoOne => folders[f].parent = p.parents[f]
    BY <1>1 DEF Planted
  <2>2. NoPlace.parent = NoOne /\ NoFile.folder = NoOne /\ NoVersion.file = NoOne /\ NoVersion.scan = "none"
    BY DEF NoPlace, NoFile, NoVersion
  <2>3. \A f \in Folders : folders[f].parent \in Folders => folders[folders[f].parent] # NoPlace
    <3>1. \A f \in Folders : p.parents[f] \in Folders => p.parents[p.parents[f]] # NoOne
      BY PlansAssumption DEF PlansAssumption
    <3>2. QED
      BY <2>1, <2>2, <3>1, TopApart
  <2>4. \A x \in Files : files[x].folder \in Folders => folders[files[x].folder] # NoPlace
    <3>1. \A x \in Files : p.homes[x] \in Folders => p.parents[p.homes[x]] # NoOne
      BY PlansAssumption DEF PlansAssumption
    <3>2. QED
      BY <1>4, <2>1, <2>2, <3>1, TopApart
  <2>5. \A x \in Files : files[x] # NoFile => versions[files[x].current].file = x
    <3> SUFFICES ASSUME NEW x \in Files, files[x] # NoFile
                 PROVE  versions[files[x].current].file = x
      OBVIOUS
    <3>1. files[x].current = p.holds[x] /\ p.holds[x] # NoOne
      BY <1>4
    <3>2. p.holds[x] \in Versions
      BY <1>2, <3>1
    <3>3. versions[p.holds[x]].file \in Files /\ p.holds[versions[p.holds[x]].file] = p.holds[x]
      BY <1>5, <3>2
    <3>4. \A y, z \in Files : p.holds[y] = p.holds[z] /\ p.holds[y] # NoOne => y = z
      BY PlansAssumption DEF PlansAssumption
    <3>5. QED
      BY <3>1, <3>3, <3>4
  <2>6. \A v \in Versions : versions[v] # NoVersion => files[versions[v].file] # NoFile
    <3> SUFFICES ASSUME NEW v \in Versions, versions[v] # NoVersion
                 PROVE  files[versions[v].file] # NoFile
      OBVIOUS
    <3>1. versions[v].file \in Files /\ p.holds[versions[v].file] = v
      BY <1>5
    <3>2. v # NoOne
      BY LibraryAssumption DEF LibraryAssumption
    <3>3. p.homes[versions[v].file] # NoOne
      BY <3>1, <3>2, PlansAssumption DEF PlansAssumption
    <3>4. QED
      BY <1>4, <2>2, <3>1, <3>3
  <2>7. \A v \in Versions : versions[v].file = NoOne \/ versions[v].scan = "none" => versions[v] = NoVersion
    BY <1>5, LibraryAssumption DEF LibraryAssumption
  <2>8. \A x \in Files : files[x].folder = NoOne \/ files[x].current = NoOne => files[x] = NoFile
    BY <1>4
  <2>9. QED
    BY <2>1, <2>2, <2>3, <2>4, <2>5, <2>6, <2>7, <2>8 DEF Rows
<1>8. QED
  BY <1>6, <1>7

LEMMA OpensTypes == ASSUME Types, NEW r \in Requests, NEW n, Opens(r, n) PROVE Types'
BY DEF Types, Opens, Reads, rows, budget, history

\* The next version of a file.
LEMMA NextVersionRow ==
  ASSUME NEW row \in File, NEW v \in Versions
  PROVE  [row EXCEPT !.current = v, !.count = @ + 1, !.version = @ + 1] \in File
<1>1. \A c, d \in Nat : [row EXCEPT !.current = v, !.count = c, !.version = d] \in File
  BY DEF File
<1>2. row.count + 1 \in Nat /\ row.version + 1 \in Nat
  BY DEF File
<1>3. PICK c, d \in Nat : c = row.count + 1 /\ d = row.version + 1
  BY <1>2
<1>4. [row EXCEPT !.current = v, !.count = @ + 1, !.version = @ + 1] = [row EXCEPT !.current = v, !.count = c, !.version = d]
  BY <1>3
<1>5. QED
  BY <1>1, <1>4

LEMMA GoesOnTypes ==
  ASSUME Types, Rows, NEW r \in Requests, Knows(request[r]), GoesOn(r) \/ Die(r)
  PROVE  Types'
<1> USE DEF Types
<1>r. request' \in [Requests -> Request]
  <2>1. PICK n : Becomes(r, n) /\ Sequel(request[r], n)
    BY OwnStep
  <2>2. n \in Request
    BY <2>1, IdleType DEF Sequel, Keeps
  <2>3. QED
    BY <2>1, <2>2 DEF Becomes
<1>n. request[r] \in Request
  OBVIOUS
<1>1. CASE createFolder(r)
  <2>1. UNCHANGED <<files, versions, objects, bad, job, stamp, left, budget, rescued, leaked>>
    BY <1>1 DEF createFolder
  <2>2. folders' \in Tree /\ used' \subseteq Folders \cup Files \cup Versions /\ stale' \in BOOLEAN
    <3>1. Fresh(Folders) \in Folders /\ request[r].to \in Places
      BY <1>1, FreshIsNew DEF createFolder, Knows
    <3>2. QED
      <4> DEFINE row == [parent |-> request[r].to, trashed |-> 0, version |-> 1]
      <4>1. row \in [parent : Places \cup {NoOne}, trashed : Nat, version : Nat]
        BY <3>1
      <4>2. folders' \in {folders, [folders EXCEPT ![Fresh(Folders)] = row]}
        BY <1>1 DEF createFolder
      <4>3. used' \subseteq used \cup {Fresh(Folders)} /\ stale' \in BOOLEAN
        BY <1>1 DEF createFolder, Decided
      <4> HIDE DEF row
      <4>4. QED
        BY <3>1, <4>1, <4>2, <4>3 DEF Tree
  <2>3. QED
    BY <1>r, <2>1, <2>2 DEF budget
<1>2. CASE updateFolder(r)
  <2>1. UNCHANGED <<files, versions, objects, bad, job, stamp, used, left, budget, rescued, leaked>>
    BY <1>2 DEF updateFolder
  <2>2. folders' \in Tree /\ stale' \in BOOLEAN
    <3>1. request[r].folder \in Folders /\ request[r].to \in Places
      BY <1>2 DEF updateFolder, Knows
    <3>2. QED
      BY <1>2, <3>1 DEF updateFolder, Tree, Decided
  <2>3. QED
    BY <1>r, <2>1, <2>2 DEF budget
<1>3. CASE trashFolder(r)
  <2>1. UNCHANGED <<versions, objects, bad, job, used, left, budget, rescued, leaked>>
    BY <1>3 DEF trashFolder
  <2>2. folders' \in Tree /\ files' \in [Files -> File] /\ stamp' \in Nat \ {0} /\ stale' \in BOOLEAN
    <3>1. \A f \in Folders : [folders[f] EXCEPT !.trashed = stamp] \in [parent : Places \cup {NoOne}, trashed : Nat, version : Nat]
      BY DEF Tree
    <3>2. \A x \in Files : [files[x] EXCEPT !.trashed = stamp] \in File
      BY DEF File
    <3>3. folders' \in Tree /\ stale' \in BOOLEAN
      BY <1>3, <3>1 DEF trashFolder, Tree, Decided
    <3>4. files' \in [Files -> File] /\ stamp' \in Nat \ {0}
      BY <1>3, <3>2 DEF trashFolder
    <3>5. QED
      BY <3>3, <3>4
  <2>3. QED
    BY <1>r, <2>1, <2>2 DEF budget
<1>4. CASE restore(r)
  <2>1. UNCHANGED <<versions, objects, bad, job, stamp, used, left, budget, rescued, leaked>>
    BY <1>4 DEF restore
  <2>2. folders' \in Tree
    <3>1. Top \in Places
      BY DEF Places
    <3>2. QED
      BY <1>4, <3>1 DEF restore, Tree
  <2>3. files' \in [Files -> File] /\ stale' \in BOOLEAN
    BY <1>4 DEF restore, File, Decided
  <2>4. QED
    BY <1>r, <2>1, <2>2, <2>3 DEF budget
<1>5. CASE PutObject(r)
  <2>1. UNCHANGED <<rows, job, stamp, left, budget, history>>
    BY <1>5 DEF PutObject
  <2>2. Fresh(Versions) \in Versions /\ Fresh(Files) \in Files /\ (request[r].step = "renew" => request[r].file \in Files)
    BY <1>5, FreshIsNew DEF PutObject, Knows
  <2>3. objects' \subseteq Versions /\ bad' \subseteq Versions /\ used' \subseteq Folders \cup Files \cup Versions
    BY <1>5, <2>2 DEF PutObject
  <2>4. QED
    BY <1>r, <2>1, <2>3 DEF budget, rows, history
<1>6. CASE CommitVersion(r)
  <2>1. UNCHANGED <<folders, objects, bad, job, stamp, used, left, budget, rescued, leaked>>
    BY <1>6 DEF CommitVersion
  <2>2. request[r].file \in Files /\ request[r].version \in Versions
    BY <1>6 DEF CommitVersion, Knows
  <2>3. files' \in [Files -> File]
    <3> DEFINE q == request[r]
               new == [folder |-> q.to, trashed |-> 0, current |-> q.version, count |-> 1, version |-> 1]
               next == [files[q.file] EXCEPT !.current = q.version, !.count = @ + 1, !.version = @ + 1]
    <3>1. new \in File /\ next \in File
      <4>1. q.to \in Places \cup {NoOne}
        BY <1>n DEF Request
      <4>2. new \in File
        BY <4>1, <2>2 DEF File
      <4>3. next \in File
        BY <2>2, NextVersionRow
      <4>4. QED
        BY <4>2, <4>3
    <3> DEFINE made == IF q.to # NoOne THEN new ELSE next
    <3>2. files' \in {files, [files EXCEPT ![q.file] = made]}
      BY <1>6 DEF CommitVersion
    <3>3. made \in File
      BY <3>1
    <3> HIDE DEF made, q
    <3>4. QED
      BY <3>2, <3>3
  <2>4. versions' \in [Versions -> Version] /\ stale' \in BOOLEAN
    <3>1. [file |-> request[r].file, scan |-> "pending"] \in Version
      BY <2>2 DEF Version
    <3>2. stale' \in BOOLEAN
      BY <1>6 DEF CommitVersion
    <3>3. versions' \in {versions, [versions EXCEPT ![request[r].version] = [file |-> request[r].file, scan |-> "pending"]]}
      BY <1>6 DEF CommitVersion
    <3>4. QED
      BY <2>2, <3>1, <3>2, <3>3
  <2>5. QED
    BY <1>r, <2>1, <2>3, <2>4 DEF budget
<1>7. CASE UndoPut(r) \/ deleteObjects(r)
  BY <1>7, <1>r DEF UndoPut, deleteObjects, rows, budget, history
<1>8. CASE enqueueFileScan(r)
  BY <1>8, <1>r DEF enqueueFileScan, rows, budget, history
<1>9. CASE CopyObject(r)
  <2>1. UNCHANGED <<rows, job, stamp, left, budget, history>>
    BY <1>9 DEF CopyObject
  <2>2. Fresh(Versions) \in Versions /\ Fresh(Files) \in Files
    BY <1>9, FreshIsNew DEF CopyObject
  <2>3. objects' \subseteq Versions /\ bad' \subseteq Versions /\ used' \subseteq Folders \cup Files \cup Versions
    BY <1>9, <2>2 DEF CopyObject
  <2>4. QED
    BY <1>r, <2>1, <2>3 DEF budget, rows, history
<1>10. CASE copyFile(r)
  <2>1. UNCHANGED <<folders, objects, bad, job, stamp, used, left, budget, rescued>>
    BY <1>10 DEF copyFile
  <2>2. request[r].file \in Files /\ request[r].version \in Versions /\ request[r].to \in Places
    BY <1>10 DEF copyFile, Knows
  <2>3. files' \in [Files -> File] /\ versions' \in [Versions -> Version]
    <3> DEFINE q == request[r]
               new == [folder |-> q.to, trashed |-> 0, current |-> q.version, count |-> 1, version |-> 1]
               ver == [file |-> q.file, scan |-> "clean"]
    <3>1. new \in File /\ ver \in Version
      BY <2>2 DEF File, Version
    <3>2. files' \in {files, [files EXCEPT ![q.file] = new]} /\ versions' \in {versions, [versions EXCEPT ![q.version] = ver]}
      BY <1>10 DEF copyFile
    <3> HIDE DEF new, ver
    <3>3. QED
      BY <2>2, <3>1, <3>2
  <2>4. stale' \in BOOLEAN /\ leaked' \subseteq Versions
    BY <1>10, <2>2 DEF copyFile, Decided
  <2>5. QED
    BY <1>r, <2>1, <2>3, <2>4 DEF budget
<1>11. CASE updateFile(r)
  <2>1. UNCHANGED <<folders, versions, objects, bad, job, stamp, used, left, budget, rescued, leaked>>
    BY <1>11 DEF updateFile
  <2>2. request[r].file \in Files /\ request[r].to \in Places
    BY <1>11 DEF updateFile, Knows
  <2>3. files' \in [Files -> File] /\ stale' \in BOOLEAN
    BY <1>11, <2>2 DEF updateFile, File, Decided
  <2>4. QED
    BY <1>r, <2>1, <2>3 DEF budget
<1>12. CASE trashFile(r)
  <2>1. UNCHANGED <<folders, versions, objects, bad, job, used, left, budget, history>>
    BY <1>12 DEF trashFile
  <2>2. files' \in [Files -> File] /\ stamp' \in Nat \ {0}
    <3>1. request[r].file \in Files
      BY <1>12 DEF trashFile, Knows
    <3>2. [files[request[r].file] EXCEPT !.trashed = stamp] \in File
      BY <3>1 DEF File
    <3>3. files' \in {files, [files EXCEPT ![request[r].file] = [files[request[r].file] EXCEPT !.trashed = stamp]]}
      BY <1>12 DEF trashFile
    <3>4. stamp' \in Nat \ {0}
      BY <1>12 DEF trashFile
    <3>5. QED
      BY <3>1, <3>2, <3>3, <3>4
  <2>3. QED
    BY <1>r, <2>1, <2>2 DEF budget, history
<1>13. CASE restoreFile(r)
  <2>1. UNCHANGED <<folders, versions, objects, bad, job, stamp, used, left, budget, leaked>>
    BY <1>13 DEF restoreFile
  <2>2. request[r].file \in Files /\ request[r].to \in Places
    BY <1>13 DEF restoreFile, Knows
  <2>3. files' \in [Files -> File] /\ stale' \in BOOLEAN /\ rescued' \subseteq Files
    <3> DEFINE x == request[r].file
               back == [files[x] EXCEPT !.trashed = 0, !.folder = request[r].to]
    <3>1. back \in File
      BY <2>2 DEF File
    <3>2. files' \in {files, [files EXCEPT ![x] = back]}
      BY <1>13, <2>2 DEF restoreFile
    <3>3. stale' \in BOOLEAN /\ rescued' \subseteq Files
      BY <1>13, <2>2 DEF restoreFile, Decided
    <3> HIDE DEF back
    <3>4. QED
      BY <2>2, <3>1, <3>2, <3>3
  <2>4. QED
    BY <1>r, <2>1, <2>3 DEF budget
<1>14. CASE purge(r)
  <2>1. UNCHANGED <<objects, bad, job, stamp, used, left, budget, stale, rescued>>
    BY <1>14 DEF purge
  <2>2. NoFile \in File /\ NoVersion \in Version
    BY DEF NoFile, File, NoVersion, Version
  <2>3. folders' \in Tree
    BY <1>14 DEF purge, NoPlace, Tree, rows
  <2>4. files' \in [Files -> File] /\ versions' \in [Versions -> Version] /\ leaked' \subseteq Versions
    BY <1>14, <2>2 DEF purge, rows, versionsOf
  <2>5. QED
    BY <1>r, <2>1, <2>3, <2>4 DEF budget
<1>15. CASE purgeExpiredFolders(r)
  <2>1. UNCHANGED <<files, versions, objects, bad, job, stamp, used, left, budget, history>>
    BY <1>15 DEF purgeExpiredFolders
  <2>2. folders' \in Tree
    BY <1>15 DEF purgeExpiredFolders, NoPlace, Tree
  <2>3. QED
    BY <1>r, <2>1, <2>2 DEF budget, history
<1>16. CASE Die(r)
  <2>1. UNCHANGED <<rows, objects, bad, job, stamp, used, plan, left, stale, rescued>>
    BY <1>16 DEF Die
  <2>2. leaked' \subseteq Versions /\ faults' \in Nat
    <3>1. request[r].keys \subseteq Versions
      BY <1>n DEF Request
    <3>2. request[r].step \in {"commit", "undo", "commitCopy"} => request[r].version \in Versions
      BY DEF Knows
    <3>3. QED
      BY <1>16, <3>1, <3>2 DEF Die
  <2>3. QED
    BY <1>r, <2>1, <2>2 DEF rows
<1>17. QED
  BY <1>1, <1>2, <1>3, <1>4, <1>5, <1>6, <1>7, <1>8, <1>9, <1>10, <1>11, <1>12, <1>13, <1>14, <1>15, <1>16 DEF GoesOn

LEMMA ScanTypes ==
  ASSUME Types, Rows, NEW v \in Versions, Scans(v) \/ ScanFails(v)
  PROVE  Types'
<1> USE DEF Types
<1>1. CASE ScanStart(v)
  BY <1>1 DEF ScanStart, ScanOf, Version, budget, history
<1>2. CASE Pass(v)
  BY <1>2 DEF Pass, ScanOf, Version, budget, history
<1>3. CASE DeleteInfected(v)
  BY <1>3 DEF DeleteInfected, ScanOf, rows, budget, history
<1>4. CASE Quarantine(v)
  <2>1. UNCHANGED <<folders, objects, bad, request, used, left, budget, history>>
    BY <1>4 DEF Quarantine
  <2>2. versions' \in [Versions -> Version] /\ job' \in [Versions -> {"none", "queued", "pass", "delete", "mark", "done"}]
        /\ stamp' \in Nat \ {0}
    BY <1>4 DEF Quarantine, ScanOf, Version
  <2>3. files' \in [Files -> File]
    BY <1>4 DEF Quarantine, File
  <2>4. QED
    BY <2>1, <2>2, <2>3 DEF budget, history
<1>5. CASE ScanFails(v)
  BY <1>5 DEF ScanFails, ScanOf, rows, history
<1>6. QED
  BY <1>1, <1>2, <1>3, <1>4, <1>5 DEF Scans

-----------------------------------------------------------------------------
(* Rows, and what a request knows *)

\* A row that is not there refers to nothing.
LEMMA Absent ==
  ASSUME Types, Rows
  PROVE  /\ \A f \in Folders : folders[f] = NoPlace <=> folders[f].parent = NoOne
         /\ \A x \in Files : /\ files[x] = NoFile <=> files[x].folder = NoOne
                             /\ files[x] = NoFile <=> files[x].current = NoOne
         /\ \A v \in Versions : /\ versions[v] = NoVersion <=> versions[v].file = NoOne
                                /\ versions[v] = NoVersion <=> versions[v].scan = "none"
BY DEF Rows, NoPlace, NoFile, NoVersion

LEMMA InitKnows == Init => \A r \in Requests : Knows(request[r])
BY DEF Init, Idle, Knows

LEMMA KnowsStep ==
  ASSUME Types, Rows, \A p \in Requests : Knows(request[p]), NEW r \in Requests,
         GoesOn(r) \/ Die(r) \/ \E n : Opens(r, n)
  PROVE  \A p \in Requests : Knows(request'[p])
<1>1. \E n : Becomes(r, n) /\ Knows(n)
  <2>1. CASE GoesOn(r) \/ Die(r)
    BY <2>1, OwnStep, SequelKnows
  <2>2. CASE \E n : Opens(r, n)
    BY <2>2 DEF Opens, Reads, Becomes
  <2>3. QED
    BY <2>1, <2>2
<1>2. QED
  BY <1>1 DEF Types, Becomes

LEMMA OpensRows == ASSUME Rows, NEW r, NEW n, Opens(r, n) PROVE Rows'
BY DEF Rows, Opens, rows

LEMMA GoesOnRows ==
  ASSUME Types, Rows, Types', Given, Makers, NEW r \in Requests, Knows(request[r]), GoesOn(r) \/ Die(r)
  PROVE  Rows'
<1> USE DEF Types
<1> DEFINE q == request[r]
<1>a. /\ \A f \in Folders : folders[f] = NoPlace <=> folders[f].parent = NoOne
      /\ \A x \in Files : /\ files[x] = NoFile <=> files[x].folder = NoOne
                          /\ files[x] = NoFile <=> files[x].current = NoOne
      /\ \A v \in Versions : /\ versions[v] = NoVersion <=> versions[v].file = NoOne
                             /\ versions[v] = NoVersion <=> versions[v].scan = "none"
  BY Absent
<1>b. NoPlace.parent = NoOne /\ NoFile.folder = NoOne /\ NoFile.current = NoOne
      /\ NoVersion.file = NoOne /\ NoVersion.scan = "none"
  BY DEF NoPlace, NoFile, NoVersion
<1>c. NoOne \notin Places /\ NoOne \notin Files /\ NoOne \notin Versions /\ Top \notin Folders
  BY LibraryAssumption DEF LibraryAssumption
<1>t. /\ \A f \in Folders : folders[f].parent \in Places \cup {NoOne}
      /\ \A x \in Files : files[x].folder \in Places \cup {NoOne} /\ files[x].current \in Versions \cup {NoOne}
      /\ \A v \in Versions : versions[v].file \in Files \cup {NoOne}
  BY DEF Tree, File, Version
<1>1. CASE createFolder(r)
  <2>1. UNCHANGED <<files, versions>>
    BY <1>1 DEF createFolder
  <2>2. CASE q.to # Top /\ folders[q.to] = NoPlace
    BY <1>1, <2>1, <2>2 DEF createFolder, Rows
  <2>3. CASE ~(q.to # Top /\ folders[q.to] = NoPlace)
    <3>1. PICK f \in Folders : /\ f \notin used
            /\ folders' = [folders EXCEPT ![f] = [parent |-> q.to, trashed |-> 0, version |-> 1]]
      BY <1>1, <2>3, FreshIsNew DEF createFolder
    <3>2. q.to \in Places /\ folders'[f].parent = q.to /\ \A g \in Folders \ {f} : folders'[g] = folders[g]
      BY <1>1, <3>1 DEF createFolder, Knows, Tree
    <3>3. folders[f] = NoPlace
      BY <3>1 DEF Given
    <3>4. q.to # NoOne /\ q.to # f
      BY <1>c, <2>3, <3>2, <3>3
    <3>5. \A g \in Folders : folders[g] # NoPlace => folders'[g] # NoPlace
      BY <3>2, <3>3
    <3>6. \A g \in Folders : folders'[g].parent = NoOne => folders'[g] = NoPlace
      BY <3>2, <3>4 DEF Rows
    <3>7. \A g \in Folders : folders'[g].parent \in Folders => folders'[folders'[g].parent] # NoPlace
      <4>1. ASSUME NEW g \in Folders, folders'[g].parent \in Folders
            PROVE  folders'[folders'[g].parent] # NoPlace
        <5>1. CASE g = f
          BY <5>1, <4>1, <2>3, <3>2, <3>4, <3>5, <1>c
        <5>2. CASE g # f
          BY <5>2, <4>1, <3>2, <3>5 DEF Rows
        <5>3. QED
          BY <5>1, <5>2
      <4>2. QED
        BY <4>1
    <3>8. QED
      BY <2>1, <3>5, <3>6, <3>7 DEF Rows
  <2>4. QED
    BY <2>2, <2>3
<1>2. CASE updateFolder(r)
  <2>1. UNCHANGED <<files, versions>>
    BY <1>2 DEF updateFolder
  <2>2. CASE folders' = folders
    BY <2>1, <2>2 DEF Rows
  <2>3. CASE folders' # folders
    <3> DEFINE f == q.folder
    <3>1. /\ folders' = [folders EXCEPT ![f].parent = q.to, ![f].version = @ + 1]
          /\ folders[f] # NoPlace /\ (q.to = Top \/ folders[q.to] # NoPlace) /\ f \in Folders /\ q.to \in Places
      BY <1>2, <2>3 DEF updateFolder, Knows
    <3>2. folders'[f].parent = q.to /\ \A g \in Folders \ {f} : folders'[g] = folders[g]
      BY <3>1 DEF Tree
    <3>n. folders'[f].parent # NoOne
      BY <3>1, <3>2, <1>c
    <3>3. folders'[f] # NoPlace
      BY <3>n, <1>b
    <3>4. \A g \in Folders : folders[g] # NoPlace => folders'[g] # NoPlace
      BY <3>2, <3>3
    <3>5. \A g \in Folders : folders'[g].parent = NoOne => folders'[g] = NoPlace
      BY <3>n, <3>2 DEF Rows
    <3>6. \A g \in Folders : folders'[g].parent \in Folders => folders'[folders'[g].parent] # NoPlace
      <4>1. ASSUME NEW g \in Folders, folders'[g].parent \in Folders
            PROVE  folders'[folders'[g].parent] # NoPlace
        <5>1. CASE g = f
          BY <5>1, <4>1, <3>1, <3>2, <3>4, <1>c
        <5>2. CASE g # f
          BY <5>2, <4>1, <3>2, <3>4 DEF Rows
        <5>3. QED
          BY <5>1, <5>2
      <4>2. QED
        BY <4>1
    <3>7. QED
      BY <2>1, <3>4, <3>5, <3>6 DEF Rows
  <2>4. QED
    BY <2>2, <2>3
<1>3. CASE trashFolder(r)
  <2>1. UNCHANGED versions
    BY <1>3 DEF trashFolder
  <2>2. \A f \in Folders : folders'[f].parent = folders[f].parent /\ (folders[f] = NoPlace => folders'[f] = NoPlace)
    BY <1>3 DEF trashFolder, Tree
  <2>3. \A x \in Files : /\ files'[x].folder = files[x].folder /\ files'[x].current = files[x].current
                         /\ files[x] = NoFile => files'[x] = NoFile
    <3> SUFFICES ASSUME NEW x \in Files
                 PROVE  /\ files'[x].folder = files[x].folder /\ files'[x].current = files[x].current
                        /\ files[x] = NoFile => files'[x] = NoFile
      OBVIOUS
    <3>1. files'[x] = files[x] \/ (files[x].folder \in q.ids /\ files'[x] = [files[x] EXCEPT !.trashed = stamp])
      BY <1>3 DEF trashFolder
    <3>2. q.ids \subseteq Folders
      BY DEF Request
    <3>3. files[x].folder \in q.ids => files[x] # NoFile
      BY <3>2, <1>a, <1>c DEF Places
    <3>4. QED
      BY <3>1, <3>3 DEF File
  <2>4. \A f \in Folders : folders'[f] = NoPlace => folders[f] = NoPlace
    BY <2>2, <1>a, <1>b
  <2>5. \A x \in Files : files'[x] = NoFile => files[x] = NoFile
    BY <2>3, <1>a, <1>b
  <2>6. QED
    BY <2>1, <2>2, <2>3, <2>4, <2>5, <1>t DEF Rows
<1>4. CASE restore(r)
  <2>1. UNCHANGED versions
    BY <1>4 DEF restore
  <2>2. \A f \in Folders : /\ folders'[f].parent \in {folders[f].parent, Top}
                           /\ folders[f] = NoPlace => folders'[f] = NoPlace
                           /\ folders[f] # NoPlace => folders'[f].parent # NoOne
    <3> SUFFICES ASSUME NEW f \in Folders
                 PROVE  /\ folders'[f].parent \in {folders[f].parent, Top}
                        /\ folders[f] = NoPlace => folders'[f] = NoPlace
                        /\ folders[f] # NoPlace => folders'[f].parent # NoOne
      OBVIOUS
    <3>1. CASE f = q.folder /\ folders[f] # NoPlace
      <4>1. folders'[f] = [folders[f] EXCEPT !.trashed = 0, !.parent = IF q.to = Top THEN Top ELSE @]
        BY <1>4, <3>1 DEF restore
      <4>2. folders'[f].parent \in {folders[f].parent, Top}
        BY <4>1 DEF Tree
      <4>3. QED
        BY <3>1, <4>2, <1>a, <1>c DEF Places
    <3>2. CASE ~(f = q.folder /\ folders[f] # NoPlace)
      <4>1. folders'[f] = folders[f] \/ (folders[f].trashed = q.seen /\ folders'[f] = [folders[f] EXCEPT !.trashed = 0])
        BY <1>4, <3>2 DEF restore
      <4>2. folders'[f].parent = folders[f].parent
        BY <4>1 DEF Tree
      <4>3. folders[f] = NoPlace => folders'[f] = NoPlace
        BY <4>1 DEF NoPlace
      <4>4. QED
        BY <4>2, <4>3, <1>a
    <3>3. QED
      BY <3>1, <3>2
  <2>3. \A x \in Files : /\ files'[x].folder = files[x].folder /\ files'[x].current = files[x].current
                         /\ files[x] = NoFile => files'[x] = NoFile
    <3> SUFFICES ASSUME NEW x \in Files
                 PROVE  /\ files'[x].folder = files[x].folder /\ files'[x].current = files[x].current
                        /\ files[x] = NoFile => files'[x] = NoFile
      OBVIOUS
    <3>1. files'[x] = files[x] \/ files'[x] = [files[x] EXCEPT !.trashed = 0]
      BY <1>4 DEF restore
    <3>2. files'[x].folder = files[x].folder /\ files'[x].current = files[x].current
      BY <3>1 DEF File
    <3>3. files[x] = NoFile => files'[x] = NoFile
      BY <3>1 DEF NoFile
    <3>4. QED
      BY <3>2, <3>3
  <2>4. \A f \in Folders : folders'[f] = NoPlace => folders[f] = NoPlace
    BY <2>2, <1>a, <1>b
  <2>5. \A x \in Files : files'[x] = NoFile => files[x] = NoFile
    BY <2>3, <1>a, <1>b
  <2>6. \A f \in Folders : folders'[f].parent = NoOne => folders'[f] = NoPlace
    BY <2>2
  <2>7. \A f \in Folders : folders'[f].parent \in Folders => folders'[folders'[f].parent] # NoPlace
    BY <2>2, <2>4, <1>c DEF Rows
  <2>8. QED
    BY <2>1, <2>3, <2>4, <2>5, <2>6, <2>7, <1>t DEF Rows
<1>5. CASE PutObject(r) \/ UndoPut(r) \/ enqueueFileScan(r) \/ CopyObject(r) \/ deleteObjects(r) \/ Die(r)
  <2>1. UNCHANGED <<folders, files, versions>>
    BY <1>5 DEF PutObject, UndoPut, enqueueFileScan, CopyObject, deleteObjects, Die, rows
  <2>2. QED
    BY <2>1 DEF Rows
<1>6. CASE CommitVersion(r)
  <2>1. UNCHANGED folders
    BY <1>6 DEF CommitVersion
  <2>2. CASE UNCHANGED <<files, versions>>
    BY <2>1, <2>2 DEF Rows
  <2>3. CASE ~UNCHANGED <<files, versions>>
    <3> DEFINE x == q.file
               made == IF q.to # NoOne THEN [folder |-> q.to, trashed |-> 0, current |-> q.version, count |-> 1, version |-> 1]
                       ELSE [files[x] EXCEPT !.current = q.version, !.count = @ + 1, !.version = @ + 1]
    <3>1. /\ files' = [files EXCEPT ![x] = made]
          /\ versions' = [versions EXCEPT ![q.version] = [file |-> x, scan |-> "pending"]]
          /\ q.step = "commit"
          /\ IF q.to # NoOne THEN q.to = Top \/ folders[q.to] # NoPlace ELSE files[x] # NoFile
      BY <1>6, <2>3 DEF CommitVersion
    <3>2. x \in Files /\ q.version \in Versions /\ q.to \in Places \cup {NoOne}
      BY <3>1 DEF Knows, Request
    <3>3. files'[x].current = q.version /\ files'[x].folder = (IF q.to # NoOne THEN q.to ELSE files[x].folder)
      <4>1. made.current = q.version /\ made.folder = (IF q.to # NoOne THEN q.to ELSE files[x].folder)
        BY <3>2 DEF File
      <4> HIDE DEF made
      <4>2. QED
        BY <3>1, <3>2, <4>1
    <3> HIDE DEF made
    <3>4. \A y \in Files \ {x} : files'[y] = files[y]
      BY <3>1
    <3>5. \A v \in Versions \ {q.version} : versions'[v] = versions[v]
      BY <3>1
    <3>6. versions'[q.version].file = x /\ versions'[q.version].scan = "pending"
      BY <3>1, <3>2
    <3>7. versions[q.version] = NoVersion
      BY <3>1 DEF Makers, Unwritten
    <3>8. files'[x] # NoFile
      BY <3>2, <3>3, <1>b, <1>c
    <3>9. files'[x].folder \in Folders => folders[files'[x].folder] # NoPlace
      BY <3>1, <3>2, <3>3, <1>c DEF Rows
    <3>10. files'[x].folder # NoOne
      BY <3>1, <3>2, <3>3, <1>a
    <3>11. \A y \in Files : files'[y].folder = NoOne \/ files'[y].current = NoOne => files'[y] = NoFile
      BY <3>2, <3>3, <3>4, <3>10, <1>c DEF Rows
    <3>12. \A y \in Files : files'[y].folder \in Folders => folders[files'[y].folder] # NoPlace
      BY <3>4, <3>9 DEF Rows
    <3>13. \A y \in Files : files'[y] # NoFile => versions'[files'[y].current].file = y
      <4>1. ASSUME NEW y \in Files, y # x, files'[y] # NoFile
            PROVE  versions'[files'[y].current].file = y
        <5>1. versions[files[y].current].file = y /\ files[y].current \in Versions
          BY <4>1, <3>4, <1>a, <1>t DEF Rows
        <5>2. files[y].current # q.version
          BY <5>1, <3>7, <4>1, <1>b, <1>c
        <5>3. QED
          BY <5>1, <5>2, <4>1, <3>4, <3>5
      <4>2. QED
        BY <4>1, <3>3, <3>6
    <3>14. \A v \in Versions : versions'[v].file = NoOne \/ versions'[v].scan = "none" => versions'[v] = NoVersion
      BY <3>2, <3>5, <3>6, <1>c DEF Rows
    <3>15. \A v \in Versions : versions'[v] # NoVersion => files'[versions'[v].file] # NoFile
      <4>1. ASSUME NEW v \in Versions, v # q.version, versions'[v] # NoVersion
            PROVE  files'[versions'[v].file] # NoFile
        <5>1. versions[v].file \in Files /\ files[versions[v].file] # NoFile
          BY <4>1, <3>5, <1>a, <1>t DEF Rows
        <5>2. QED
          BY <5>1, <4>1, <3>4, <3>5, <3>8
      <4>2. QED
        BY <4>1, <3>6, <3>8
    <3>16. QED
      BY <2>1, <3>11, <3>12, <3>13, <3>14, <3>15 DEF Rows
  <2>4. QED
    BY <2>2, <2>3
<1>7. CASE copyFile(r)
  <2>1. UNCHANGED folders
    BY <1>7 DEF copyFile
  <2>2. CASE UNCHANGED <<files, versions>>
    BY <2>1, <2>2 DEF Rows
  <2>3. CASE ~UNCHANGED <<files, versions>>
    <3> DEFINE x == q.file
    <3>1. /\ files' = [files EXCEPT ![x] = [folder |-> q.to, trashed |-> 0, current |-> q.version, count |-> 1, version |-> 1]]
          /\ versions' = [versions EXCEPT ![q.version] = [file |-> x, scan |-> "clean"]]
          /\ q.step = "commitCopy" /\ (q.to = Top \/ folders[q.to] # NoPlace)
      BY <1>7, <2>3 DEF copyFile
    <3>2. x \in Files /\ q.version \in Versions /\ q.to \in Places
      BY <3>1 DEF Knows
    <3>3. files'[x].current = q.version /\ files'[x].folder = q.to
      BY <3>1, <3>2
    <3>4. \A y \in Files \ {x} : files'[y] = files[y]
      BY <3>1
    <3>5. \A v \in Versions \ {q.version} : versions'[v] = versions[v]
      BY <3>1
    <3>6. versions'[q.version].file = x /\ versions'[q.version].scan = "clean"
      BY <3>1, <3>2
    <3>7. versions[q.version] = NoVersion
      BY <3>1 DEF Makers, Unwritten
    <3>8. files'[x] # NoFile
      BY <3>2, <3>3, <1>b, <1>c
    <3>9. files'[x].folder \in Folders => folders[files'[x].folder] # NoPlace
      BY <3>1, <3>2, <3>3, <1>c
    <3>10. files'[x].folder # NoOne
      BY <3>2, <3>3, <1>c
    <3>11. \A y \in Files : files'[y].folder = NoOne \/ files'[y].current = NoOne => files'[y] = NoFile
      BY <3>2, <3>3, <3>4, <3>10, <1>c DEF Rows
    <3>12. \A y \in Files : files'[y].folder \in Folders => folders[files'[y].folder] # NoPlace
      BY <3>4, <3>9 DEF Rows
    <3>13. \A y \in Files : files'[y] # NoFile => versions'[files'[y].current].file = y
      <4>1. ASSUME NEW y \in Files, y # x, files'[y] # NoFile
            PROVE  versions'[files'[y].current].file = y
        <5>1. versions[files[y].current].file = y /\ files[y].current \in Versions
          BY <4>1, <3>4, <1>a, <1>t DEF Rows
        <5>2. files[y].current # q.version
          BY <5>1, <3>7, <4>1, <1>b, <1>c
        <5>3. QED
          BY <5>1, <5>2, <4>1, <3>4, <3>5
      <4>2. QED
        BY <4>1, <3>3, <3>6
    <3>14. \A v \in Versions : versions'[v].file = NoOne \/ versions'[v].scan = "none" => versions'[v] = NoVersion
      BY <3>2, <3>5, <3>6, <1>c DEF Rows
    <3>15. \A v \in Versions : versions'[v] # NoVersion => files'[versions'[v].file] # NoFile
      <4>1. ASSUME NEW v \in Versions, v # q.version, versions'[v] # NoVersion
            PROVE  files'[versions'[v].file] # NoFile
        <5>1. versions[v].file \in Files /\ files[versions[v].file] # NoFile
          BY <4>1, <3>5, <1>a, <1>t DEF Rows
        <5>2. QED
          BY <5>1, <4>1, <3>4, <3>5, <3>8
      <4>2. QED
        BY <4>1, <3>6, <3>8
    <3>16. QED
      BY <2>1, <3>11, <3>12, <3>13, <3>14, <3>15 DEF Rows
  <2>4. QED
    BY <2>2, <2>3
<1>8. CASE updateFile(r) \/ restoreFile(r)
  <2>1. UNCHANGED <<folders, versions>>
    BY <1>8 DEF updateFile, restoreFile
  <2>2. CASE UNCHANGED files
    BY <2>1, <2>2 DEF Rows
  <2>3. CASE ~UNCHANGED files
    <3> DEFINE x == q.file
    <3>1. /\ x \in Files /\ q.to \in Places /\ files[x] # NoFile /\ (q.to = Top \/ folders[q.to] # NoPlace)
          /\ \/ files' = [files EXCEPT ![x].folder = q.to, ![x].version = @ + 1]
             \/ files' = [files EXCEPT ![x].trashed = 0, ![x].folder = q.to]
      BY <1>8, <2>3 DEF updateFile, restoreFile, Knows
    <3>2. files'[x].folder = q.to /\ files'[x].current = files[x].current /\ \A y \in Files \ {x} : files'[y] = files[y]
      BY <3>1 DEF File
    <3>3. q.to # NoOne
      BY <3>1, <1>c
    <3>4. files'[x] # NoFile
      BY <3>2, <3>3, <1>b
    <3>5. files[x].current # NoOne
      BY <3>1, <1>a
    <3>6. \A y \in Files : files'[y].folder = NoOne \/ files'[y].current = NoOne => files'[y] = NoFile
      BY <3>2, <3>3, <3>5 DEF Rows
    <3>7. \A y \in Files : files'[y].folder \in Folders => folders[files'[y].folder] # NoPlace
      BY <3>1, <3>2, <1>c DEF Rows
    <3>8. \A y \in Files : files'[y] # NoFile => versions[files'[y].current].file = y
      BY <3>1, <3>2 DEF Rows
    <3>9. \A v \in Versions : versions[v] # NoVersion => files'[versions[v].file] # NoFile
      BY <3>2, <3>4, <1>a, <1>t DEF Rows
    <3>10. QED
      BY <2>1, <3>6, <3>7, <3>8, <3>9 DEF Rows
  <2>4. QED
    BY <2>2, <2>3
<1>9. CASE trashFile(r)
  <2>1. UNCHANGED <<folders, versions>>
    BY <1>9 DEF trashFile
  <2>2. CASE UNCHANGED files
    BY <2>1, <2>2 DEF Rows
  <2>3. CASE ~UNCHANGED files
    <3> DEFINE x == q.file
    <3>1. x \in Files /\ files[x] # NoFile /\ files' = [files EXCEPT ![x].trashed = stamp]
      BY <1>9, <2>3 DEF trashFile, Knows
    <3>2. /\ files'[x].folder = files[x].folder /\ files'[x].current = files[x].current
          /\ \A y \in Files \ {x} : files'[y] = files[y]
      BY <3>1 DEF File
    <3>n. files'[x].folder # NoOne
      BY <3>1, <3>2, <1>a
    <3>3. files'[x] # NoFile
      BY <3>n, <1>b
    <3>4. QED
      BY <2>1, <3>1, <3>2, <3>3, <1>a, <1>t DEF Rows
  <2>4. QED
    BY <2>2, <2>3
<1>10. CASE purge(r)
  <2>1. CASE UNCHANGED rows
    BY <2>1 DEF rows, Rows
  <2>2. CASE ~UNCHANGED rows
    <3>1. /\ files' = [x \in Files |-> IF x \in q.doomed THEN NoFile ELSE files[x]]
          /\ versions' = [v \in Versions |-> IF versions[v].file \in q.doomed THEN NoVersion ELSE versions[v]]
          /\ folders' = [f \in Folders |-> IF f \in q.ids THEN NoPlace ELSE folders[f]]
          /\ \A x \in Files \ q.doomed : files[x].folder \notin q.ids
          /\ \A f \in Folders \ q.ids : folders[f].parent \notin q.ids
      BY <1>10, <2>2 DEF purge
    <3>2. \A f \in Folders : folders'[f].parent = NoOne => folders'[f] = NoPlace
      BY <3>1 DEF Rows
    <3>3. \A x \in Files : files'[x].folder = NoOne \/ files'[x].current = NoOne => files'[x] = NoFile
      BY <3>1 DEF Rows
    <3>4. \A v \in Versions : versions'[v].file = NoOne \/ versions'[v].scan = "none" => versions'[v] = NoVersion
      BY <3>1 DEF Rows
    <3>5. \A f \in Folders : folders'[f].parent \in Folders => folders'[folders'[f].parent] # NoPlace
      BY <3>1, <1>b, TopApart DEF Rows
    <3>6. \A x \in Files : files'[x].folder \in Folders => folders'[files'[x].folder] # NoPlace
      BY <3>1, <1>b, TopApart DEF Rows
    <3>7. \A x \in Files : files'[x] # NoFile => versions'[files'[x].current].file = x
      <4>1. ASSUME NEW x \in Files, files'[x] # NoFile
            PROVE  versions'[files'[x].current].file = x
        <5>1. x \notin q.doomed /\ files'[x] = files[x]
          BY <3>1, <4>1
        <5>2. versions[files[x].current].file = x /\ files[x].current \in Versions
          BY <4>1, <5>1, <1>a, <1>t DEF Rows
        <5>3. QED
          BY <3>1, <5>1, <5>2
      <4>2. QED
        BY <4>1
    <3>8. \A v \in Versions : versions'[v] # NoVersion => files'[versions'[v].file] # NoFile
      BY <3>1, <1>a, <1>t DEF Rows
    <3>9. QED
      BY <3>2, <3>3, <3>4, <3>5, <3>6, <3>7, <3>8 DEF Rows
  <2>3. QED
    BY <2>1, <2>2
<1>11. CASE purgeExpiredFolders(r)
  <2>1. UNCHANGED <<files, versions>>
    BY <1>11 DEF purgeExpiredFolders
  <2>2. \A f \in Folders :
          \/ folders'[f] = folders[f]
          \/ /\ folders'[f] = NoPlace
             /\ \A x \in Files : files[x].folder # f
             /\ \A g \in Folders : folders[g].parent # f
    BY <1>11 DEF purgeExpiredFolders
  <2>3. \A f \in Folders : folders'[f].parent = NoOne => folders'[f] = NoPlace
    BY <2>2 DEF Rows
  <2>4. \A f \in Folders : folders'[f].parent \in Folders => folders'[folders'[f].parent] # NoPlace
    BY <2>2, <1>b, TopApart DEF Rows
  <2>5. \A x \in Files : files[x].folder \in Folders => folders'[files[x].folder] # NoPlace
    BY <2>2, <1>b, TopApart DEF Rows
  <2>6. QED
    BY <2>1, <2>3, <2>4, <2>5 DEF Rows
<1>12. QED
  BY <1>1, <1>2, <1>3, <1>4, <1>5, <1>6, <1>7, <1>8, <1>9, <1>10, <1>11 DEF GoesOn

LEMMA ScanRows ==
  ASSUME Types, Rows, Types', NEW v \in Versions, Scans(v) \/ ScanFails(v)
  PROVE  Rows'
<1>a. /\ \A x \in Files : files[x] = NoFile <=> files[x].folder = NoOne
      /\ \A w \in Versions : /\ versions[w] = NoVersion <=> versions[w].file = NoOne
                             /\ versions[w] = NoVersion <=> versions[w].scan = "none"
  BY Absent
<1>b. NoVersion.file = NoOne /\ NoVersion.scan = "none" /\ NoFile.folder = NoOne
  BY DEF NoVersion, NoFile
<1>1. UNCHANGED folders
  BY DEF Scans, ScanStart, Pass, DeleteInfected, Quarantine, ScanFails, rows
<1>2. /\ \A w \in Versions \ {v} : versions'[w] = versions[w]
      /\ \/ versions'[v] = versions[v]
         \/ versions[v] # NoVersion /\ versions'[v].file = versions[v].file /\ versions'[v].scan # "none"
  <2>1. CASE ScanStart(v)
    <3>1. \/ versions' = versions
          \/ versions' = [versions EXCEPT ![v].scan = "error"] /\ versions[v].scan = "pending"
      BY <2>1 DEF ScanStart
    <3>2. QED
      BY <3>1, <1>b DEF Types, Version
  <2>2. CASE Pass(v)
    <3>1. versions' = versions \/ (versions[v] # NoVersion /\ versions' = [versions EXCEPT ![v].scan = "clean"])
      BY <2>2 DEF Pass
    <3>2. QED
      BY <3>1 DEF Types, Version
  <2>3. CASE DeleteInfected(v) \/ ScanFails(v)
    BY <2>3 DEF DeleteInfected, ScanFails, rows
  <2>4. CASE Quarantine(v)
    <3>1. versions' = versions \/ (versions[v] # NoVersion /\ versions' = [versions EXCEPT ![v].scan = "infected"])
      BY <2>4 DEF Quarantine
    <3>2. QED
      BY <3>1 DEF Types, Version
  <2>5. QED
    BY <2>1, <2>2, <2>3, <2>4 DEF Scans
<1>3. \A x \in Files : /\ files'[x].folder = files[x].folder /\ files'[x].current = files[x].current
                       /\ files[x] = NoFile => files'[x] = NoFile
                       /\ files[x] # NoFile => files'[x] # NoFile
  <2>1. CASE UNCHANGED files
    BY <2>1
  <2>2. CASE ~UNCHANGED files
    <3>1. Quarantine(v)
      BY <2>2 DEF Scans, ScanStart, Pass, DeleteInfected, ScanFails, rows
    <3>2. PICK x : x = versions[v].file
      OBVIOUS
    <3>3. files' = [files EXCEPT ![x].trashed = stamp] /\ versions[v] # NoVersion
      BY <2>2, <3>1, <3>2 DEF Quarantine
    <3>4. x \in Files /\ files[x] # NoFile
      BY <3>2, <3>3, <1>a DEF Types, Rows, Version
    <3>5. files'[x].folder = files[x].folder /\ files'[x].current = files[x].current
      BY <3>3, <3>4 DEF Types, File
    <3>6. files'[x] # NoFile
      BY <3>4, <3>5, <1>a, <1>b
    <3>7. QED
      BY <3>3, <3>4, <3>5, <3>6
  <2>3. QED
    BY <2>1, <2>2
<1>4. \A w \in Versions : versions'[w].file = versions[w].file /\ (versions'[w] = NoVersion <=> versions[w] = NoVersion)
  BY <1>2, <1>b
<1>5. \A w \in Versions : versions'[w].file = NoOne \/ versions'[w].scan = "none" => versions'[w] = NoVersion
  BY <1>2, <1>4, <1>a
<1>6. \A w \in Versions : versions'[w] # NoVersion => files'[versions'[w].file] # NoFile
  BY <1>3, <1>4, <1>a DEF Types, Rows, Version
<1>7. \A x \in Files : files'[x] # NoFile => versions'[files'[x].current].file = x
  <2>1. \A x \in Files : files[x] # NoFile => files[x].current \in Versions
    BY Absent DEF Types, File
  <2>2. ASSUME NEW x \in Files, files'[x] # NoFile
        PROVE  versions'[files'[x].current].file = x
    <3>1. files[x] # NoFile /\ files'[x].current = files[x].current
      BY <2>2, <1>3
    <3>2. files[x].current \in Versions /\ versions[files[x].current].file = x
      BY <2>1, <3>1 DEF Rows
    <3>3. QED
      BY <3>1, <3>2, <1>4
  <2>3. QED
    BY <2>2
<1>8. \A x \in Files : files'[x].folder = NoOne \/ files'[x].current = NoOne => files'[x] = NoFile
  BY <1>3 DEF Rows
<1>9. \A x \in Files : files'[x].folder \in Folders => folders'[files'[x].folder] # NoPlace
  BY <1>1, <1>3 DEF Rows
<1>10. /\ \A f \in Folders : folders'[f].parent = NoOne => folders'[f] = NoPlace
       /\ \A f \in Folders : folders'[f].parent \in Folders => folders'[folders'[f].parent] # NoPlace
  BY <1>1 DEF Rows
<1>11. QED
  BY <1>5, <1>6, <1>7, <1>8, <1>9, <1>10 DEF Rows

-----------------------------------------------------------------------------
(* Identifiers and moments *)

LEMMA InitGivenStamped == Init => Given /\ Stamped
<1> SUFFICES ASSUME Init PROVE Given /\ Stamped
  OBVIOUS
<1>0. Types
  BY InitTypes
<1>1. Given
  <2>1. objects = {v \in Versions : versions[v] # NoVersion} /\ bad = {}
        /\ job = [v \in Versions |-> IF v \in objects THEN "done" ELSE "none"]
        /\ used = objects \cup {f \in Folders : folders[f] # NoPlace} \cup {x \in Files : files[x] # NoFile}
    BY DEF Init
  <2>2. QED
    BY <2>1 DEF Given
<1>2. Stamped
  <2>1. stamp = 1 /\ request = [r \in Requests |-> Idle]
    BY DEF Init
  <2>2. \A f \in Folders : folders[f].trashed = 0
    BY DEF Init, Planted, NoPlace
  <2>3. \A x \in Files : files[x].trashed = 0
    BY DEF Init, NoFile
  <2>4. QED
    BY <2>1, <2>2, <2>3 DEF Stamped, Idle
<1>3. QED
  BY <1>1, <1>2

LEMMA OpensGiven == ASSUME Given, NEW r, NEW n, Opens(r, n) PROVE Given'
BY DEF Given, Opens, rows

LEMMA GoesOnGiven ==
  ASSUME Types, Given, Makers, NEW r \in Requests, Knows(request[r]), GoesOn(r) \/ Die(r)
  PROVE  Given'
<1> DEFINE q == request[r]
<1>1. CASE createFolder(r)
  <2>1. UNCHANGED <<versions, job, objects, bad>>
    BY <1>1 DEF createFolder
  <2>2. \/ UNCHANGED <<folders, used>>
        \/ \E f \in Folders : /\ folders' = [folders EXCEPT ![f] = [parent |-> q.to, trashed |-> 0, version |-> 1]]
                              /\ used' = used \cup {f}
    BY <1>1, FreshIsNew DEF createFolder
  <2>3. QED
    BY <2>1, <2>2 DEF Given, Types, Tree
<1>2. CASE updateFolder(r) \/ trashFolder(r) \/ restore(r) \/ purgeExpiredFolders(r)
  <2>1. UNCHANGED <<versions, job, objects, bad, used>>
    BY <1>2 DEF updateFolder, trashFolder, restore, purgeExpiredFolders
  <2>2. \A f \in Folders : folders[f] = NoPlace => folders'[f] = NoPlace
    <3>1. CASE updateFolder(r)
      <4>1. folders' = folders \/ (folders[q.folder] # NoPlace /\ folders' = [folders EXCEPT ![q.folder].parent = q.to, ![q.folder].version = @ + 1])
        BY <3>1 DEF updateFolder
      <4>2. QED
        BY <4>1 DEF Types, Tree
    <3>2. CASE trashFolder(r) \/ purgeExpiredFolders(r)
      BY <3>2 DEF trashFolder, purgeExpiredFolders
    <3>3. CASE restore(r)
      <4>1. ASSUME NEW f \in Folders, folders[f] = NoPlace
            PROVE  folders'[f] = NoPlace
        <5>1. folders'[f] = folders[f] \/ folders'[f] = [folders[f] EXCEPT !.trashed = 0]
          BY <3>3, <4>1 DEF restore
        <5>2. QED
          BY <4>1, <5>1 DEF NoPlace
      <4>2. QED
        BY <4>1
    <3>4. QED
      BY <1>2, <3>1, <3>2, <3>3
  <2>3. QED
    BY <2>1, <2>2 DEF Given
<1>3. CASE PutObject(r) \/ CopyObject(r)
  <2>1. UNCHANGED <<folders, versions, job>>
    BY <1>3 DEF PutObject, CopyObject, rows
  <2>2. used \subseteq used' /\ objects' \subseteq used' /\ bad' \subseteq used'
    BY <1>3 DEF PutObject, CopyObject, Given
  <2>3. QED
    BY <2>1, <2>2 DEF Given
<1>4. CASE UndoPut(r) \/ deleteObjects(r)
  BY <1>4 DEF UndoPut, deleteObjects, Given, rows
<1>5. CASE CommitVersion(r) \/ copyFile(r)
  <2>1. UNCHANGED <<folders, job, objects, bad, used>>
    BY <1>5 DEF CommitVersion, copyFile
  <2>2. \A v \in Versions : versions'[v] = versions[v] \/ v = q.version
    BY <1>5 DEF CommitVersion, copyFile, Types
  <2>3. q.version \in used
    BY <1>5 DEF CommitVersion, copyFile, Makers, Making, Unwritten
  <2>4. QED
    BY <2>1, <2>2, <2>3 DEF Given
<1>6. CASE enqueueFileScan(r)
  <2>1. UNCHANGED <<folders, versions, objects, bad, used>>
    BY <1>6 DEF enqueueFileScan, rows
  <2>2. \A v \in Versions : job'[v] = job[v] \/ v = q.version
    BY <1>6 DEF enqueueFileScan, Types
  <2>3. q.version \in used
    BY <1>6 DEF enqueueFileScan, Makers, Making, Unwritten
  <2>4. QED
    BY <2>1, <2>2, <2>3 DEF Given
<1>7. CASE updateFile(r) \/ trashFile(r) \/ restoreFile(r) \/ Die(r)
  BY <1>7 DEF updateFile, trashFile, restoreFile, Die, Given, rows
<1>8. CASE purge(r)
  <2>1. UNCHANGED <<job, objects, bad, used>>
    BY <1>8 DEF purge
  <2>2. \A f \in Folders : folders'[f] = folders[f] \/ folders'[f] = NoPlace
    BY <1>8 DEF purge, rows
  <2>3. \A v \in Versions : versions'[v] = versions[v] \/ versions'[v] = NoVersion
    BY <1>8 DEF purge, rows
  <2>4. QED
    BY <2>1, <2>2, <2>3 DEF Given
<1>9. QED
  BY <1>1, <1>2, <1>3, <1>4, <1>5, <1>6, <1>7, <1>8 DEF GoesOn

LEMMA ScanGiven ==
  ASSUME Types, Given, NEW v \in Versions, Scans(v) \/ ScanFails(v)
  PROVE  Given'
<1>1. UNCHANGED <<folders, bad, used>> /\ objects' \subseteq objects
  BY DEF Scans, ScanStart, Pass, DeleteInfected, Quarantine, ScanFails, rows
<1>2. v \in used
  BY DEF Scans, ScanStart, Pass, DeleteInfected, Quarantine, ScanFails, Given
<1>3. \A w \in Versions \ {v} : versions'[w] = versions[w]
  BY DEF Scans, ScanStart, Pass, DeleteInfected, Quarantine, ScanFails, rows, Types
<1>4. \A w \in Versions \ {v} : job'[w] = job[w]
  BY DEF Scans, ScanStart, Pass, DeleteInfected, Quarantine, ScanFails, ScanOf, Types
<1>5. QED
  BY <1>1, <1>2, <1>3, <1>4 DEF Given

LEMMA OpensStamped ==
  ASSUME Types, Stamped, NEW r \in Requests, NEW n, Opens(r, n)
  PROVE  Stamped'
<1>1. UNCHANGED <<folders, files, stamp>>
  BY DEF Opens, rows
<1>2. n.step \in {"restore", "restoreFile"} => 0 < n.seen /\ n.seen < stamp
  BY DEF Opens, Reads, Stamped, Knows
<1>3. \A p \in Requests : request'[p] = IF p = r THEN n ELSE request[p]
  BY DEF Opens, Types
<1>4. QED
  BY <1>1, <1>2, <1>3 DEF Stamped

\* The rows keep their moments, or go to the trash at this one, or come back.
LEMMA StampedRows ==
  ASSUME Types, Stamped, stamp' \in {stamp, stamp + 1},
         \A f \in Folders : folders'[f].trashed \in {folders[f].trashed, 0} \/ (folders'[f].trashed = stamp /\ stamp' = stamp + 1),
         \A x \in Files : files'[x].trashed \in {files[x].trashed, 0} \/ (files'[x].trashed = stamp /\ stamp' = stamp + 1)
  PROVE  /\ \A f \in Folders : folders'[f].trashed < stamp'
         /\ \A x \in Files : files'[x].trashed < stamp'
<1>1. stamp \in Nat \ {0} /\ \A f \in Folders : folders[f].trashed \in Nat
  BY DEF Types, Tree
<1>2. \A x \in Files : files[x].trashed \in Nat
  BY DEF Types, File
<1>3. QED
  BY <1>1, <1>2 DEF Stamped

LEMMA GoesOnStamped ==
  ASSUME Types, Rows, Stamped, NEW r \in Requests, Knows(request[r]), GoesOn(r) \/ Die(r)
  PROVE  Stamped'
<1> DEFINE q == request[r]
<1>a. /\ stamp' \in {stamp, stamp + 1}
      /\ \A f \in Folders : folders'[f].trashed \in {folders[f].trashed, 0} \/ (folders'[f].trashed = stamp /\ stamp' = stamp + 1)
      /\ \A x \in Files : files'[x].trashed \in {files[x].trashed, 0} \/ (files'[x].trashed = stamp /\ stamp' = stamp + 1)
  <2>1. CASE createFolder(r)
    <3>1. UNCHANGED <<files, stamp>>
      BY <2>1 DEF createFolder
    <3>2. \/ UNCHANGED folders
          \/ \E f \in Folders : folders' = [folders EXCEPT ![f] = [parent |-> q.to, trashed |-> 0, version |-> 1]]
      BY <2>1, FreshIsNew DEF createFolder
    <3>3. QED
      BY <3>1, <3>2 DEF Types, Tree
  <2>2. CASE updateFolder(r)
    <3>1. UNCHANGED <<files, stamp>>
      BY <2>2 DEF updateFolder
    <3>2. folders' = folders \/ folders' = [folders EXCEPT ![q.folder].parent = q.to, ![q.folder].version = @ + 1]
      BY <2>2 DEF updateFolder
    <3>3. QED
      BY <3>1, <3>2 DEF Types, Tree
  <2>3. CASE trashFolder(r)
    <3>1. stamp' = stamp + 1
      BY <2>3 DEF trashFolder
    <3>2. \A f \in Folders : folders'[f].trashed \in {folders[f].trashed, stamp}
      BY <2>3 DEF trashFolder, Types, Tree
    <3>3. \A x \in Files : files'[x].trashed \in {files[x].trashed, stamp}
      BY <2>3 DEF trashFolder, Types, File
    <3>4. QED
      BY <3>1, <3>2, <3>3
  <2>4. CASE restore(r)
    <3>1. UNCHANGED stamp
      BY <2>4 DEF restore
    <3>2. \A f \in Folders : folders'[f].trashed \in {folders[f].trashed, 0}
      BY <2>4 DEF restore, Types, Tree
    <3>3. \A x \in Files : files'[x].trashed \in {files[x].trashed, 0}
      BY <2>4 DEF restore, Types, File
    <3>4. QED
      BY <3>1, <3>2, <3>3
  <2>5. CASE PutObject(r) \/ UndoPut(r) \/ enqueueFileScan(r) \/ CopyObject(r) \/ deleteObjects(r) \/ Die(r)
    BY <2>5 DEF PutObject, UndoPut, enqueueFileScan, CopyObject, deleteObjects, Die, rows
  <2>6. CASE CommitVersion(r)
    <3>1. UNCHANGED <<folders, stamp>>
      BY <2>6 DEF CommitVersion
    <3> DEFINE new  == [folder |-> q.to, trashed |-> 0, current |-> q.version, count |-> 1, version |-> 1]
               next == [files[q.file] EXCEPT !.current = q.version, !.count = @ + 1, !.version = @ + 1]
               made == IF q.to # NoOne THEN new ELSE next
    <3>2. files' = files \/ files' = [files EXCEPT ![q.file] = made]
      BY <2>6 DEF CommitVersion
    <3>3. q.file \in Files
      BY <2>6 DEF CommitVersion, Knows
    <3>4. made.trashed \in {files[q.file].trashed, 0}
      BY <3>3 DEF Types, File
    <3> HIDE DEF made
    <3>5. QED
      BY <3>1, <3>2, <3>3, <3>4 DEF Types
  <2>7. CASE copyFile(r)
    <3>1. UNCHANGED <<folders, stamp>>
      BY <2>7 DEF copyFile
    <3>2. \/ UNCHANGED files
          \/ files' = [files EXCEPT ![q.file] = [folder |-> q.to, trashed |-> 0, current |-> q.version, count |-> 1, version |-> 1]]
      BY <2>7 DEF copyFile
    <3>3. QED
      BY <3>1, <3>2 DEF Types
  <2>8. CASE updateFile(r) \/ restoreFile(r)
    <3>1. UNCHANGED <<folders, stamp>>
      BY <2>8 DEF updateFile, restoreFile
    <3>2. \/ UNCHANGED files
          \/ files' = [files EXCEPT ![q.file].folder = q.to, ![q.file].version = @ + 1]
          \/ files' = [files EXCEPT ![q.file].trashed = 0, ![q.file].folder = q.to]
      BY <2>8 DEF updateFile, restoreFile
    <3>3. QED
      BY <3>1, <3>2 DEF Types, File
  <2>9. CASE trashFile(r)
    <3>1. UNCHANGED folders /\ stamp' = stamp + 1
      BY <2>9 DEF trashFile
    <3>2. files' = files \/ files' = [files EXCEPT ![q.file].trashed = stamp]
      BY <2>9 DEF trashFile
    <3>3. QED
      BY <3>1, <3>2 DEF Types, File
  <2>10. CASE purge(r)
    <3>1. UNCHANGED stamp
      BY <2>10 DEF purge
    <3>2. \A f \in Folders : folders'[f] = folders[f] \/ folders'[f] = NoPlace
      BY <2>10 DEF purge, rows
    <3>3. \A x \in Files : files'[x] = files[x] \/ files'[x] = NoFile
      BY <2>10 DEF purge, rows
    <3>4. NoPlace.trashed = 0 /\ NoFile.trashed = 0
      BY DEF NoPlace, NoFile
    <3>5. QED
      BY <3>1, <3>2, <3>3, <3>4
  <2>11. CASE purgeExpiredFolders(r)
    <3>1. UNCHANGED <<files, stamp>>
      BY <2>11 DEF purgeExpiredFolders
    <3>2. \A f \in Folders : folders'[f] = folders[f] \/ folders'[f] = NoPlace
      BY <2>11 DEF purgeExpiredFolders
    <3>3. NoPlace.trashed = 0
      BY DEF NoPlace
    <3>4. QED
      BY <3>1, <3>2, <3>3
  <2>12. QED
    BY <2>1, <2>2, <2>3, <2>4, <2>5, <2>6, <2>7, <2>8, <2>9, <2>10, <2>11 DEF GoesOn
<1>b. /\ \A f \in Folders : folders'[f].trashed < stamp'
      /\ \A x \in Files : files'[x].trashed < stamp'
  BY <1>a, StampedRows
<1>c. PICK n : Becomes(r, n) /\ Sequel(q, n)
  BY OwnStep
<1>d. n.step \notin {"restore", "restoreFile"}
  BY <1>c DEF Sequel, Idle
<1>e. \A p \in Requests : request'[p].step \in {"restore", "restoreFile"} => request'[p] = request[p]
  BY <1>c, <1>d DEF Becomes, Types
<1>f. \A p \in Requests : request[p].seen \in Nat
  BY DEF Types, Request
<1>g. \A p \in Requests : request'[p].step \in {"restore", "restoreFile"} => 0 < request'[p].seen /\ request'[p].seen < stamp'
  <2>1. stamp \in Nat /\ stamp' \in {stamp, stamp + 1}
    BY <1>a DEF Types
  <2>2. QED
    BY <2>1, <1>e, <1>f DEF Stamped
<1>h. QED
  BY <1>b, <1>g DEF Stamped

LEMMA ScanStamped ==
  ASSUME Types, Rows, Stamped, NEW v \in Versions, Scans(v) \/ ScanFails(v)
  PROVE  Stamped'
<1>1. UNCHANGED <<folders, request>>
  BY DEF Scans, ScanStart, Pass, DeleteInfected, Quarantine, ScanFails, rows
<1>2. stamp' \in {stamp, stamp + 1}
      /\ \A x \in Files : files'[x].trashed \in {files[x].trashed, 0} \/ (files'[x].trashed = stamp /\ stamp' = stamp + 1)
  <2>1. CASE Quarantine(v)
    <3>1. \/ UNCHANGED <<files, stamp>>
          \/ stamp' = stamp + 1 /\ (files' = files \/ files' = [files EXCEPT ![versions[v].file].trashed = stamp])
      BY <2>1 DEF Quarantine
    <3>2. QED
      BY <3>1 DEF Types, File
  <2>2. CASE ~Quarantine(v)
    BY <2>2 DEF Scans, ScanStart, Pass, DeleteInfected, ScanFails, rows
  <2>3. QED
    BY <2>1, <2>2
<1>3. /\ \A f \in Folders : folders'[f].trashed < stamp'
      /\ \A x \in Files : files'[x].trashed < stamp'
  BY <1>1, <1>2, StampedRows
<1>4. stamp \in Nat /\ \A p \in Requests : request[p].seen \in Nat
  BY DEF Types, Request
<1>5. QED
  BY <1>1, <1>2, <1>3, <1>4 DEF Stamped

-----------------------------------------------------------------------------
(* The tree of the folders and the trash *)

LEMMA ParentsOfFolders == Types => Parents(folders)
BY DEF Types, Tree, Parents

LEMMA InitTree == Init => TreeInv
<1> SUFFICES ASSUME Init PROVE Reachable /\ InTurn
  BY DEF TreeInv
<1>0. Types /\ Rows
  BY InitTypes
<1>1. PICK p \in Plans : plan = p /\ folders = Planted(p)
  BY DEF Init
<1>2. Acyclic(folders)
  BY <1>1, PlansAssumption DEF PlansAssumption
<1>3. \A f \in Folders : folders[f].trashed = 0
  BY DEF Init, Planted, NoPlace
<1>4. \A x \in Files : files[x].trashed = 0
  BY DEF Init, NoFile
<1>5. \A f \in Folders : folders[f] # NoPlace => liveFolder(folders[f].parent)
  <2>1. \A f \in Folders : folders[f] # NoPlace => folders[f].parent \in Places
    BY <1>0, Absent DEF Types, Tree
  <2>2. QED
    BY <2>1, <1>0, <1>3 DEF liveFolder, Rows, Places
<1>6. \A x \in Files : files[x] # NoFile => liveFolder(files[x].folder)
  <2>1. \A x \in Files : files[x] # NoFile => files[x].folder \in Places
    BY <1>0, Absent DEF Types, File
  <2>2. QED
    BY <2>1, <1>0, <1>3 DEF liveFolder, Rows, Places
<1>7. QED
  BY <1>2, <1>3, <1>4, <1>5, <1>6 DEF Reachable, InTurn, liveFile

\* Nothing of the tree or of the files changes but what is in a file.
LEMMA TreeUnchanged ==
  ASSUME TreeInv, UNCHANGED <<folders, files, stale>>
  PROVE  TreeInv'
BY DEF TreeInv, Reachable, InTurn, liveFolder, liveFile

\* Files come, move to a folder that is not in the trash, go to the trash at a
\* moment of their own, or are taken away.
LEMMA TreeWithFiles ==
  ASSUME Types, Types', Stamped, TreeInv, UNCHANGED folders, ~stale' => ~stale,
         ~stale' => \A x \in Files :
           \/ files'[x].trashed = files[x].trashed /\ files'[x].folder = files[x].folder /\ (files'[x] # NoFile => files[x] # NoFile)
           \/ liveFolder(files'[x].folder)
           \/ files'[x].trashed = stamp
  PROVE  TreeInv'
<1> SUFFICES ASSUME ~stale' PROVE Reachable' /\ InTurn'
  BY DEF TreeInv
<1>1. Reachable /\ InTurn
  BY DEF TreeInv
<1>2. stamp > 0 /\ \A f \in Folders : folders[f].trashed < stamp /\ folders[f].trashed \in Nat
  BY DEF Types, Tree, Stamped
<1>3. \A p : LiveIn(folders', p) <=> liveFolder(p)
  BY DEF liveFolder, LiveIn
<1>4. \A x \in Files : liveFile(x)' => liveFolder(files'[x].folder)
  BY <1>1, <1>2 DEF Reachable, liveFile
<1>5. Reachable'
  BY <1>1, <1>4 DEF Reachable, liveFolder
<1>6. InTurn'
  <2>1. ASSUME NEW x \in Files, files'[x].trashed > 0, files'[x].folder \in Folders
        PROVE  \/ folders[files'[x].folder].trashed = 0
               \/ folders[files'[x].folder].trashed >= files'[x].trashed
               \/ \A f \in Folders : folders[f].trashed # files'[x].trashed
    <3>1. CASE files'[x].trashed = files[x].trashed /\ files'[x].folder = files[x].folder
      BY <1>1, <2>1, <3>1 DEF InTurn
    <3>2. CASE liveFolder(files'[x].folder)
      BY <2>1, <3>2, TopApart DEF liveFolder
    <3>3. CASE files'[x].trashed = stamp
      BY <1>2, <3>3
    <3>4. QED
      BY <3>1, <3>2, <3>3
  <2>2. QED
    BY <1>1, <2>1 DEF InTurn
<1>7. QED
  BY <1>5, <1>6

\* A new folder.
LEMMA TreeCreate ==
  ASSUME Types, Rows, Types', Given, TreeInv, NEW r \in Requests, Knows(request[r]), createFolder(r)
  PROVE  TreeInv'
<1> DEFINE q == request[r]
<1>1. UNCHANGED files
  BY DEF createFolder
<1>2. CASE UNCHANGED <<folders, stale>>
  BY <1>1, <1>2, TreeUnchanged
<1>3. CASE ~UNCHANGED <<folders, stale>>
  <2> SUFFICES ASSUME ~stale' PROVE Reachable' /\ InTurn'
    BY DEF TreeInv
  <2>1. PICK f \in Folders : /\ f \notin used /\ stale' = (stale \/ q.index # folders)
          /\ folders' = [folders EXCEPT ![f] = [parent |-> q.to, trashed |-> 0, version |-> 1]]
    BY <1>3, FreshIsNew DEF createFolder, Decided
  <2>2. ~stale /\ q.index = folders
    BY <2>1
  <2>3. Reachable /\ InTurn
    BY <2>2 DEF TreeInv
  <2>4. q.to \in Places /\ liveFolder(q.to)
    BY <2>2 DEF createFolder, Knows, LiveIn, liveFolder
  <2>5. folders'[f].parent = q.to /\ folders'[f].trashed = 0 /\ \A g \in Folders \ {f} : folders'[g] = folders[g]
    BY <2>1 DEF Types, Tree
  <2>6. folders[f] = NoPlace
    BY <2>1 DEF Given
  <2>7. \A g \in Folders : folders[g].parent # f
    BY <2>6 DEF Rows
  <2>8. f # q.to
    BY <2>4, <2>6, TopApart DEF liveFolder
  <2>9. f \notin Chain(folders, q.to)
    <3>1. Chain(folders, q.to) \subseteq Folders /\ ClosedFrom(folders, q.to, Chain(folders, q.to))
      BY <2>4, ParentsOfFolders, ChainClosed
    <3>2. ClosedFrom(folders, q.to, Chain(folders, q.to) \ {f})
      BY <3>1, <2>7, <2>8 DEF ClosedFrom
    <3>3. QED
      BY <3>1, <3>2, ChainLeast
  <2>10. Acyclic(folders')
    BY <2>3, <2>4, <2>5, <2>9, ParentsOfFolders, AcyclicMoved DEF Reachable
  <2>11. folders'[f] # NoPlace
    <3>1. q.to # NoOne
      BY <2>4, LibraryAssumption DEF LibraryAssumption
    <3>2. QED
      BY <2>5, <3>1 DEF NoPlace
  <2>12. \A p : liveFolder(p) => LiveIn(folders', p)
    BY <2>5, <2>11 DEF liveFolder, LiveIn
  <2>13. \A g \in Folders : folders'[g] # NoPlace /\ folders'[g].trashed = 0 => LiveIn(folders', folders'[g].parent)
    BY <2>3, <2>4, <2>5, <2>12 DEF Reachable
  <2>14. \A x \in Files : liveFile(x)' => LiveIn(folders', files'[x].folder)
    BY <1>1, <2>3, <2>12 DEF Reachable, liveFile
  <2>15. Reachable'
    BY <2>10, <2>13, <2>14 DEF Reachable, liveFolder, LiveIn
  <2>16. InTurn'
    <3>1. \A g \in Folders : folders'[g].trashed > 0 /\ folders'[g].parent \in Folders =>
            \/ folders'[folders'[g].parent].trashed = 0
            \/ folders'[folders'[g].parent].trashed >= folders'[g].trashed
      BY <2>3, <2>5, <2>7 DEF InTurn
    <3>2. \A x \in Files : files[x].trashed > 0 /\ files[x].folder \in Folders =>
            \/ folders'[files[x].folder].trashed = 0
            \/ folders'[files[x].folder].trashed >= files[x].trashed
            \/ \A g \in Folders : folders'[g].trashed # files[x].trashed
      BY <2>3, <2>5 DEF InTurn
    <3>3. QED
      BY <1>1, <3>1, <3>2 DEF InTurn
  <2>17. QED
    BY <2>15, <2>16
<1>4. QED
  BY <1>2, <1>3

\* A folder moves.
LEMMA TreeMove ==
  ASSUME Types, Rows, Types', TreeInv, NEW r \in Requests, Knows(request[r]), updateFolder(r)
  PROVE  TreeInv'
<1> DEFINE q == request[r]
<1>1. UNCHANGED files
  BY DEF updateFolder
<1>2. CASE UNCHANGED <<folders, stale>>
  BY <1>1, <1>2, TreeUnchanged
<1>3. CASE ~UNCHANGED <<folders, stale>>
  <2> SUFFICES ASSUME ~stale' PROVE Reachable' /\ InTurn'
    BY DEF TreeInv
  <2> DEFINE f == q.folder
  <2>1. /\ stale' = (stale \/ q.index # folders)
        /\ folders' = [folders EXCEPT ![f].parent = q.to, ![f].version = @ + 1]
    BY <1>3 DEF updateFolder, Decided
  <2>2. ~stale /\ q.index = folders
    BY <2>1
  <2>3. Reachable /\ InTurn
    BY <2>2 DEF TreeInv
  <2>4. /\ f \in Folders /\ q.to \in Places /\ liveFolder(f) /\ liveFolder(q.to)
        /\ f \notin Chain(folders, q.to)
    BY <2>2 DEF updateFolder, Knows, LiveIn, liveFolder
  <2>5. /\ folders'[f].parent = q.to /\ folders'[f].trashed = folders[f].trashed
        /\ \A g \in Folders \ {f} : folders'[g] = folders[g]
    BY <2>1, <2>4 DEF Types, Tree
  <2>6. folders[f].trashed = 0
    BY <2>4, TopApart DEF liveFolder
  <2>7. Acyclic(folders')
    BY <2>3, <2>4, <2>5, ParentsOfFolders, AcyclicMoved DEF Reachable
  <2>8. folders'[f] # NoPlace
    <3>1. q.to # NoOne
      BY <2>4, LibraryAssumption DEF LibraryAssumption
    <3>2. QED
      BY <2>5, <3>1 DEF NoPlace
  <2>9. \A p : liveFolder(p) => LiveIn(folders', p)
    BY <2>5, <2>6, <2>8 DEF liveFolder, LiveIn
  <2>10. \A g \in Folders : folders'[g] # NoPlace /\ folders'[g].trashed = 0 => LiveIn(folders', folders'[g].parent)
    BY <2>3, <2>4, <2>5, <2>9 DEF Reachable
  <2>11. \A x \in Files : liveFile(x)' => LiveIn(folders', files'[x].folder)
    BY <1>1, <2>3, <2>9 DEF Reachable, liveFile
  <2>12. Reachable'
    BY <2>7, <2>10, <2>11 DEF Reachable, liveFolder, LiveIn
  <2>13. \A g \in Folders : folders'[g].trashed = folders[g].trashed
    BY <2>5
  <2>14. InTurn'
    <3>1. \A g \in Folders : folders'[g].trashed > 0 /\ folders'[g].parent \in Folders =>
            \/ folders'[folders'[g].parent].trashed = 0
            \/ folders'[folders'[g].parent].trashed >= folders'[g].trashed
      BY <2>3, <2>5, <2>6, <2>13 DEF InTurn
    <3>2. \A x \in Files : files[x].trashed > 0 /\ files[x].folder \in Folders =>
            \/ folders'[files[x].folder].trashed = 0
            \/ folders'[files[x].folder].trashed >= files[x].trashed
            \/ \A g \in Folders : folders'[g].trashed # files[x].trashed
      BY <2>3, <2>13 DEF InTurn
    <3>3. QED
      BY <1>1, <3>1, <3>2 DEF InTurn
  <2>15. QED
    BY <2>12, <2>14
<1>4. QED
  BY <1>2, <1>3

\* Everything live beneath a folder goes to the trash with it.
LEMMA SubtreeOfParent ==
  ASSUME Types, Rows, NEW f \in Folders, NEW g \in Folders, folders[g] # NoPlace,
         folders[g].parent \in subtree(folders, f)
  PROVE  g \in subtree(folders, f)
<1>1. f \in Chain(folders, folders[g].parent)
  BY DEF subtree
<1>2. f \in Chain(folders, g)
  BY <1>1, ParentsOfFolders, ChainOfParent
<1>3. QED
  BY <1>2 DEF subtree

LEMMA TreeTrash ==
  ASSUME Types, Rows, Types', Stamped, TreeInv, NEW r \in Requests, Knows(request[r]), trashFolder(r)
  PROVE  TreeInv'
<1> DEFINE q == request[r]   ids == q.ids
<1> SUFFICES ASSUME ~stale' PROVE Reachable' /\ InTurn'
  BY DEF TreeInv
<1>1. stale' = (stale \/ q.index # folders) /\ q.step = "trash"
  BY DEF trashFolder, Decided
<1>2. ~stale /\ q.index = folders
  BY <1>1
<1>3. Reachable /\ InTurn
  BY <1>2 DEF TreeInv
<1>4. q.folder \in Folders /\ ids = subtree(folders, q.folder) /\ ids \subseteq Folders
  BY <1>1, <1>2 DEF Knows, subtree
<1>5. \A f \in Folders :
        /\ folders'[f].parent = folders[f].parent /\ (folders'[f] # NoPlace => folders[f] # NoPlace)
        /\ folders'[f].trashed = IF f \in ids /\ folders[f] # NoPlace /\ folders[f].trashed = 0 THEN stamp ELSE folders[f].trashed
        /\ folders[f] # NoPlace => folders'[f] # NoPlace
  <2>1. \A f \in Folders :
        /\ folders'[f].parent = folders[f].parent /\ (folders'[f] # NoPlace => folders[f] # NoPlace)
        /\ folders'[f].trashed = IF f \in ids /\ folders[f] # NoPlace /\ folders[f].trashed = 0 THEN stamp ELSE folders[f].trashed
    BY DEF trashFolder, Types, Tree
  <2>2. \A f \in Folders : folders[f] # NoPlace => folders[f].parent # NoOne
    BY Absent
  <2>3. QED
    BY <2>1, <2>2 DEF NoPlace
<1>6. \A x \in Files :
        /\ files'[x].folder = files[x].folder
        /\ files'[x].trashed = IF files[x].folder \in ids /\ files[x].trashed = 0 THEN stamp ELSE files[x].trashed
        /\ files'[x] # NoFile /\ files'[x].trashed = 0 => files[x] # NoFile
  <2>1. \A x \in Files :
        /\ files'[x].folder = files[x].folder
        /\ files'[x].trashed = IF files[x].folder \in ids /\ files[x].trashed = 0 THEN stamp ELSE files[x].trashed
        /\ files'[x] = files[x] \/ files'[x].trashed = stamp
    BY DEF trashFolder, Types, File
  <2>2. stamp # 0
    BY DEF Types
  <2>3. QED
    BY <2>1, <2>2
<1>7. stamp > 0 /\ stamp \in Nat
      /\ (\A f \in Folders : folders[f].trashed \in Nat /\ folders[f].trashed < stamp)
      /\ \A x \in Files : files[x].trashed \in Nat /\ files[x].trashed < stamp
  BY DEF Types, Tree, File, Stamped
<1>8. \A p : liveFolder(p) /\ p \notin ids => LiveIn(folders', p)
  BY <1>5 DEF liveFolder, LiveIn
<1>9. Acyclic(folders')
  BY <1>3, <1>5, ParentsOfFolders, AcyclicPruned DEF Reachable
<1>10. ASSUME NEW g \in Folders, folders'[g] # NoPlace, folders'[g].trashed = 0
       PROVE  LiveIn(folders', folders'[g].parent)
  <2>1. folders[g] # NoPlace /\ folders[g].trashed = 0 /\ g \notin ids
    BY <1>5, <1>7, <1>10
  <2>2. liveFolder(folders[g].parent) /\ folders[g].parent \notin ids
    BY <2>1, <1>3, <1>4, SubtreeOfParent DEF Reachable
  <2>3. QED
    BY <2>2, <1>5, <1>8
<1>11. ASSUME NEW x \in Files, files'[x] # NoFile, files'[x].trashed = 0
       PROVE  LiveIn(folders', files'[x].folder)
  <2>1. files[x] # NoFile /\ files[x].trashed = 0 /\ files[x].folder \notin ids
    BY <1>6, <1>7, <1>11
  <2>2. QED
    BY <2>1, <1>3, <1>6, <1>8 DEF Reachable, liveFile
<1>12. Reachable'
  BY <1>9, <1>10, <1>11 DEF Reachable, liveFile, liveFolder, LiveIn
<1>13. ASSUME NEW g \in Folders, folders'[g].trashed > 0, folders'[g].parent \in Folders
       PROVE  \/ folders'[folders'[g].parent].trashed = 0
              \/ folders'[folders'[g].parent].trashed >= folders'[g].trashed
  <2> DEFINE p == folders[g].parent
  <2>1. p \in Folders /\ folders'[g].parent = p
    BY <1>5, <1>13
  <2>2. CASE folders[g].trashed > 0
    <3>1. folders[p].trashed = 0 \/ folders[p].trashed >= folders[g].trashed
      BY <1>3, <2>1, <2>2 DEF InTurn
    <3>2. folders'[g].trashed = folders[g].trashed /\ (folders'[p].trashed = folders[p].trashed \/ folders'[p].trashed = stamp)
      BY <1>5, <2>1, <2>2
    <3>3. QED
      BY <3>1, <3>2, <2>1, <1>7
  <2>3. CASE folders[g].trashed = 0
    <3>1. g \in ids /\ folders[g] # NoPlace /\ folders'[g].trashed = stamp
      BY <1>5, <1>13, <2>3
    <3>2. folders[p] # NoPlace /\ folders[p].trashed = 0
      BY <1>3, <2>1, <2>3, <3>1, TopApart DEF Reachable, liveFolder
    <3>3. folders'[p].trashed \in {0, stamp}
      BY <1>5, <2>1, <3>2
    <3>4. QED
      BY <2>1, <3>1, <3>3, <1>7
  <2>4. QED
    BY <2>2, <2>3, <1>7
<1>14. ASSUME NEW x \in Files, files'[x].trashed > 0, files'[x].folder \in Folders
       PROVE  \/ folders'[files'[x].folder].trashed = 0
              \/ folders'[files'[x].folder].trashed >= files'[x].trashed
              \/ \A f \in Folders : folders'[f].trashed # files'[x].trashed
  <2> DEFINE p == files[x].folder
  <2>1. p \in Folders /\ files'[x].folder = p
    BY <1>6, <1>14
  <2>2. CASE files[x].trashed > 0
    <3>1. files'[x].trashed = files[x].trashed
      BY <1>6, <2>2
    <3>2. \/ folders[p].trashed = 0
          \/ folders[p].trashed >= files[x].trashed
          \/ \A f \in Folders : folders[f].trashed # files[x].trashed
      BY <1>3, <2>1, <2>2 DEF InTurn
    <3>3. \A f \in Folders : folders'[f].trashed = folders[f].trashed \/ folders'[f].trashed = stamp
      BY <1>5
    <3>4. QED
      BY <3>1, <3>2, <3>3, <2>1, <1>7
  <2>3. CASE files[x].trashed = 0
    <3>1. p \in ids /\ files'[x].trashed = stamp
      BY <1>6, <1>14, <2>3
    <3>2. files[x] # NoFile
      BY <2>1, TopApart DEF NoFile
    <3>3. folders[p] # NoPlace /\ folders[p].trashed = 0
      BY <1>3, <2>1, <2>3, <3>2, TopApart DEF Reachable, liveFolder, liveFile
    <3>4. QED
      BY <1>5, <1>7, <2>1, <3>1, <3>3
  <2>4. QED
    BY <2>2, <2>3, <1>7
<1>15. QED
  BY <1>12, <1>13, <1>14 DEF InTurn

\* What is beneath a folder that is in the trash is in the trash, and went
\* there no later.
LEMMA BeneathTrashed ==
  ASSUME Types, Rows, Reachable, InTurn, NEW f \in Folders, NEW p \in Folders,
         f \in Chain(folders, p), folders[f].trashed > 0
  PROVE  0 < folders[p].trashed /\ folders[p].trashed <= folders[f].trashed
<1> DEFINE seen == folders[f].trashed
           S == {h \in Folders : folders[h].trashed > seen \/ folders[h].trashed = 0}
<1>1. \A h \in Folders : folders[h].trashed \in Nat /\ folders[h].parent \in Places \cup {NoOne}
  BY DEF Types, Tree
<1>2. ASSUME NEW h \in S PROVE folders[h].parent \in S \cup {Top, NoOne}
  <2>1. CASE folders[h] = NoPlace
    BY <2>1 DEF NoPlace
  <2>2. CASE folders[h] # NoPlace /\ folders[h].trashed = 0
    BY <2>2, <1>2 DEF Reachable, liveFolder
  <2>3. CASE folders[h].trashed > seen
    <3>1. CASE folders[h].parent \in Folders
      <4>1. folders[h].trashed > 0
        BY <2>3, <1>1, <1>2
      <4>2. \/ folders[folders[h].parent].trashed = 0
            \/ folders[folders[h].parent].trashed >= folders[h].trashed
        BY <3>1, <4>1, <1>2 DEF InTurn
      <4>3. QED
        BY <4>2, <3>1, <2>3, <1>1, <1>2
    <3>2. QED
      BY <3>1, <1>1, <1>2 DEF Places
  <2>4. QED
    BY <2>1, <2>2, <2>3, <1>2
<1>3. CASE p \in S
  <2>1. ClosedFrom(folders, p, S)
    BY <1>2, <1>3 DEF ClosedFrom
  <2>2. S \in SUBSET Folders
    OBVIOUS
  <2>3. f \in S
    BY <2>1, <2>2, ChainLeast
  <2>4. QED
    BY <2>3, <1>1
<1>4. QED
  BY <1>3, <1>1

\* A folder comes back, with what went with it.
LEMMA TreeRestore ==
  ASSUME Types, Rows, Types', Stamped, TreeInv, NEW r \in Requests, Knows(request[r]), restore(r)
  PROVE  TreeInv'
<1> DEFINE q == request[r]   ids == q.ids   f == q.folder   seen == q.seen
<1> SUFFICES ASSUME ~stale' PROVE Reachable' /\ InTurn'
  BY DEF TreeInv
<1>1. stale' = (stale \/ q.index # folders) /\ q.step = "restore"
  BY DEF restore, Decided
<1>2. ~stale /\ q.index = folders
  BY <1>1
<1>3. Reachable /\ InTurn
  BY <1>2 DEF TreeInv
<1>4. /\ f \in Folders /\ ids = subtree(folders, f) /\ ids \subseteq Folders /\ folders[f].trashed = seen
      /\ 0 < seen /\ q.to = IF LiveIn(folders, folders[f].parent) THEN NoOne ELSE Top
  BY <1>1, <1>2 DEF Knows, Stamped, subtree
<1>5. folders[f] # NoPlace
  BY <1>4 DEF NoPlace
<1>6. /\ \A g \in Folders : folders[g].trashed \in Nat /\ folders[g].parent \in Places \cup {NoOne}
      /\ \A x \in Files : files[x].trashed \in Nat /\ files[x].folder \in Places \cup {NoOne}
      /\ seen \in Nat
  BY DEF Types, Tree, File, Request
<1>7. /\ folders'[f].trashed = 0 /\ folders'[f].parent = (IF q.to = Top THEN Top ELSE folders[f].parent)
      /\ \A g \in Folders \ {f} :
           /\ folders'[g].parent = folders[g].parent
           /\ folders'[g].trashed = IF g \in ids /\ folders[g].trashed = seen THEN 0 ELSE folders[g].trashed
           /\ folders'[g] = folders[g] \/ folders'[g].trashed = 0
  <2>1. folders'[f] = [folders[f] EXCEPT !.trashed = 0, !.parent = IF q.to = Top THEN Top ELSE @]
    BY <1>4, <1>5 DEF restore
  <2>2. folders'[f].trashed = 0 /\ folders'[f].parent = (IF q.to = Top THEN Top ELSE folders[f].parent)
    <3>1. CASE q.to = Top
      BY <2>1, <3>1, <1>4 DEF Types, Tree
    <3>2. CASE q.to # Top
      BY <2>1, <3>2, <1>4 DEF Types, Tree
    <3>3. QED
      BY <3>1, <3>2
  <2>3. ASSUME NEW g \in Folders \ {f}
        PROVE  folders'[g] = IF g \in ids /\ folders[g].trashed = seen THEN [folders[g] EXCEPT !.trashed = 0] ELSE folders[g]
    BY <2>3 DEF restore
  <2>4. \A g \in Folders : LET n == [folders[g] EXCEPT !.trashed = 0] IN n.trashed = 0 /\ n.parent = folders[g].parent
    BY DEF Types, Tree
  <2>5. QED
    BY <2>2, <2>3, <2>4
<1>8. \A x \in Files :
        /\ files'[x].folder = files[x].folder
        /\ files'[x].trashed = IF files[x].folder \in ids /\ files[x].trashed = seen THEN 0 ELSE files[x].trashed
  <2>1. \A x \in Files : files'[x] = IF files[x].folder \in ids /\ files[x].trashed = seen
                                    THEN [files[x] EXCEPT !.trashed = 0] ELSE files[x]
    BY DEF restore
  <2>2. \A x \in Files : LET n == [files[x] EXCEPT !.trashed = 0] IN n.trashed = 0 /\ n.folder = files[x].folder
    BY DEF Types, File
  <2>3. QED
    BY <2>1, <2>2
<1>9. \A g \in Folders : folders[g] = NoPlace <=> folders[g].parent = NoOne
  BY Absent
<1>10. \A g \in Folders : folders[g] # NoPlace <=> folders'[g] # NoPlace
  <2>1. \A g \in Folders : folders'[g] = NoPlace => folders'[g].parent = NoOne
    BY DEF NoPlace
  <2>2. \A g \in Folders : folders[g] = NoPlace => folders'[g] = folders[g] \/ folders'[g] = [folders[g] EXCEPT !.trashed = 0]
    BY <1>5 DEF restore
  <2>3. \A g \in Folders : folders[g] = NoPlace => folders'[g] = NoPlace
    BY <2>2 DEF NoPlace
  <2>4. QED
    BY <2>1, <2>3, <1>4, <1>5, <1>7, <1>9, TopApart
<1>11. \A x \in Files : files[x] # NoFile <=> files'[x] # NoFile
  <2>1. \A x \in Files : (files[x] = NoFile <=> files[x].folder = NoOne) /\ files'[x] \in {files[x], [files[x] EXCEPT !.trashed = 0]}
    BY Absent DEF restore
  <2>2. \A x \in Files : files'[x] = NoFile => files'[x].folder = NoOne
    BY DEF NoFile
  <2>3. \A x \in Files : files[x] = NoFile => files'[x] = NoFile
    BY <2>1 DEF NoFile
  <2>4. QED
    BY <2>1, <2>2, <2>3, <1>8
<1>12. \A p : liveFolder(p) => LiveIn(folders', p)
  BY <1>7, <1>10 DEF liveFolder, LiveIn
\* Beneath f, what is still live or went with f is live now.
<1>13. ASSUME NEW p \in Folders, f \in Chain(folders, p), folders[p] # NoPlace,
              folders[p].trashed = 0 \/ folders[p].trashed >= seen
       PROVE  LiveIn(folders', p)
  <2>1. 0 < folders[p].trashed /\ folders[p].trashed <= seen
    BY <1>3, <1>4, <1>13, BeneathTrashed
  <2>2. folders[p].trashed = seen /\ p \in ids
    BY <2>1, <1>4, <1>6, <1>13 DEF subtree
  <2>3. folders'[p].trashed = 0
    BY <2>2, <1>7
  <2>4. QED
    BY <2>3, <1>10, <1>13 DEF LiveIn
<1>14. Acyclic(folders')
  <2>1. \A g \in Folders : folders'[g].parent \in {folders[g].parent, Top, NoOne}
    BY <1>7, <1>4
  <2>2. QED
    BY <2>1, <1>3, ParentsOfFolders, AcyclicPruned DEF Reachable
<1>15. ASSUME NEW g \in Folders, folders'[g] # NoPlace, folders'[g].trashed = 0
       PROVE  LiveIn(folders', folders'[g].parent)
  <2>1. CASE g = f
    <3>1. CASE q.to = Top
      BY <3>1, <2>1, <1>7 DEF LiveIn
    <3>2. CASE q.to # Top
      <4>1. LiveIn(folders, folders[f].parent) /\ folders'[f].parent = folders[f].parent
        BY <3>2, <1>4, <1>7
      <4>2. QED
        BY <4>1, <2>1, <1>12, LiveInIndex
    <3>3. QED
      BY <3>1, <3>2
  <2>2. CASE g # f /\ folders[g].trashed = 0
    <3>1. liveFolder(folders[g].parent)
      BY <2>2, <1>3, <1>10, <1>15 DEF Reachable
    <3>2. QED
      BY <3>1, <2>2, <1>7, <1>12
  <2>3. CASE g # f /\ folders[g].trashed # 0
    <3> DEFINE p == folders[g].parent
    <3>1. g \in ids /\ folders[g].trashed = seen /\ folders'[g].parent = p
      BY <2>3, <1>7, <1>15
    <3>2. f \in Chain(folders, g)
      BY <3>1, <1>4 DEF subtree
    <3>3. f \in Chain(folders, p)
      BY <3>2, <2>3, ParentsOfFolders, ChainOfParent
    <3>4. p \in Folders
      BY <3>3, <1>6, ChainOfTop DEF Places
    <3>5. folders[p] # NoPlace
      BY <3>4 DEF Rows
    <3>6. folders[p].trashed = 0 \/ folders[p].trashed >= seen
      BY <3>1, <3>4, <1>3, <1>4 DEF InTurn
    <3>7. QED
      BY <3>1, <3>3, <3>4, <3>5, <3>6, <1>13
  <2>4. QED
    BY <2>1, <2>2, <2>3
<1>16. ASSUME NEW x \in Files, files'[x] # NoFile, files'[x].trashed = 0
       PROVE  LiveIn(folders', files'[x].folder)
  <2> DEFINE p == files[x].folder
  <2>1. files'[x].folder = p /\ files[x] # NoFile
    BY <1>8, <1>11, <1>16
  <2>2. CASE files[x].trashed = 0
    BY <2>1, <2>2, <1>3, <1>12 DEF Reachable, liveFile
  <2>3. CASE files[x].trashed # 0
    <3>1. p \in ids /\ files[x].trashed = seen
      BY <2>3, <1>8, <1>16
    <3>2. p \in Folders /\ folders[p] # NoPlace /\ f \in Chain(folders, p)
      BY <3>1, <1>4 DEF subtree
    <3>3. folders[p].trashed = 0 \/ folders[p].trashed >= seen
      BY <3>1, <3>2, <1>3, <1>4 DEF InTurn
    <3>4. QED
      BY <2>1, <3>2, <3>3, <1>13
  <2>4. QED
    BY <2>2, <2>3
<1>17. Reachable'
  BY <1>14, <1>15, <1>16 DEF Reachable, liveFile, liveFolder, LiveIn
<1>18. \A g \in Folders : folders'[g].trashed \in {0, folders[g].trashed}
  BY <1>7
<1>19. ASSUME NEW g \in Folders, folders'[g].trashed > 0, folders'[g].parent \in Folders
       PROVE  \/ folders'[folders'[g].parent].trashed = 0
              \/ folders'[folders'[g].parent].trashed >= folders'[g].trashed
  <2> DEFINE p == folders[g].parent
  <2>1. folders'[g].trashed = folders[g].trashed /\ folders'[g].parent = p
    BY <1>7, <1>19
  <2>2. folders[p].trashed = 0 \/ folders[p].trashed >= folders[g].trashed
    BY <2>1, <1>3, <1>19 DEF InTurn
  <2>3. QED
    BY <2>1, <2>2, <1>18, <1>19
<1>20. ASSUME NEW x \in Files, files'[x].trashed > 0, files'[x].folder \in Folders
       PROVE  \/ folders'[files'[x].folder].trashed = 0
              \/ folders'[files'[x].folder].trashed >= files'[x].trashed
              \/ \A h \in Folders : folders'[h].trashed # files'[x].trashed
  <2> DEFINE p == files[x].folder
  <2>1. files'[x].trashed = files[x].trashed /\ files'[x].folder = p
    BY <1>8, <1>20
  <2>2. \/ folders[p].trashed = 0
        \/ folders[p].trashed >= files[x].trashed
        \/ \A h \in Folders : folders[h].trashed # files[x].trashed
    BY <2>1, <1>3, <1>20 DEF InTurn
  <2>3. CASE \A h \in Folders : folders[h].trashed # files[x].trashed
    BY <2>1, <2>3, <1>18, <1>20
  <2>4. CASE folders[p].trashed = 0 \/ folders[p].trashed >= files[x].trashed
    BY <2>1, <2>4, <1>18, <1>20
  <2>5. QED
    BY <2>2, <2>3, <2>4
<1>21. QED
  BY <1>17, <1>19, <1>20 DEF InTurn

\* Folders and files are taken away, and what stays keeps its folder.
LEMMA TreePruned ==
  ASSUME Types, Rows, TreeInv, stale' = stale,
         \A f \in Folders : folders'[f] \in {folders[f], NoPlace},
         \A x \in Files : files'[x] \in {files[x], NoFile},
         \A f \in Folders : folders'[f] # NoPlace /\ folders[f].parent \in Folders =>
            folders'[folders[f].parent] = folders[folders[f].parent],
         \A x \in Files : files'[x] # NoFile /\ files[x].folder \in Folders =>
            folders'[files[x].folder] = folders[files[x].folder]
  PROVE  TreeInv'
<1> SUFFICES ASSUME ~stale' PROVE Reachable' /\ InTurn'
  BY DEF TreeInv
<1>1. Reachable /\ InTurn
  BY DEF TreeInv
<1>2. NoPlace.trashed = 0 /\ NoPlace.parent = NoOne /\ NoFile.trashed = 0 /\ NoFile.folder = NoOne
  BY DEF NoPlace, NoFile
<1>3. Acyclic(folders')
  <2>1. \A g \in Folders : folders'[g].parent \in {folders[g].parent, Top, NoOne}
    BY <1>2
  <2>2. QED
    BY <2>1, <1>1, ParentsOfFolders, AcyclicPruned DEF Reachable
<1>4. ASSUME NEW g \in Folders, folders'[g] # NoPlace, folders'[g].trashed = 0
      PROVE  LiveIn(folders', folders'[g].parent)
  <2>1. folders'[g] = folders[g]
    BY <1>4
  <2>2. liveFolder(folders[g].parent)
    BY <2>1, <1>1, <1>4 DEF Reachable
  <2>3. QED
    BY <2>1, <2>2, <1>4 DEF liveFolder, LiveIn
<1>5. ASSUME NEW x \in Files, files'[x] # NoFile, files'[x].trashed = 0
      PROVE  LiveIn(folders', files'[x].folder)
  <2>1. files'[x] = files[x]
    BY <1>5
  <2>2. liveFolder(files[x].folder)
    BY <2>1, <1>1, <1>5 DEF Reachable, liveFile
  <2>3. QED
    BY <2>1, <2>2, <1>5 DEF liveFolder, LiveIn
<1>6. Reachable'
  BY <1>3, <1>4, <1>5 DEF Reachable, liveFile, liveFolder, LiveIn
<1>7. ASSUME NEW g \in Folders, folders'[g].trashed > 0, folders'[g].parent \in Folders
      PROVE  \/ folders'[folders'[g].parent].trashed = 0
             \/ folders'[folders'[g].parent].trashed >= folders'[g].trashed
  <2>1. folders'[g] # NoPlace /\ folders'[g] = folders[g]
    BY <1>2, <1>7
  <2>2. QED
    BY <2>1, <1>1, <1>7 DEF InTurn
<1>8. ASSUME NEW x \in Files, files'[x].trashed > 0, files'[x].folder \in Folders
      PROVE  \/ folders'[files'[x].folder].trashed = 0
             \/ folders'[files'[x].folder].trashed >= files'[x].trashed
             \/ \A h \in Folders : folders'[h].trashed # files'[x].trashed
  <2>1. files'[x] # NoFile /\ files'[x] = files[x]
    BY <1>2, <1>8
  <2>2. folders'[files[x].folder] = folders[files[x].folder]
    BY <2>1, <1>8
  <2>3. \A h \in Folders : folders'[h].trashed \in {0, folders[h].trashed}
    BY <1>2
  <2>4. files[x].trashed > 0 /\ files[x].folder \in Folders
    BY <2>1, <1>8
  <2>5. \/ folders[files[x].folder].trashed = 0
        \/ folders[files[x].folder].trashed >= files[x].trashed
        \/ \A h \in Folders : folders[h].trashed # files[x].trashed
    BY <2>4, <1>1 DEF InTurn
  <2>6. QED
    BY <2>1, <2>2, <2>3, <2>4, <2>5
<1>9. QED
  BY <1>6, <1>7, <1>8 DEF InTurn

LEMMA TreePurge ==
  ASSUME Types, Rows, TreeInv, NEW r \in Requests, purge(r) \/ purgeExpiredFolders(r)
  PROVE  TreeInv'
<1> DEFINE q == request[r]
<1>1. CASE purge(r)
  <2>1. CASE UNCHANGED rows
    BY <1>1, <2>1, TreeUnchanged DEF purge, rows
  <2>2. CASE ~UNCHANGED rows
    <3>1. /\ folders' = [f \in Folders |-> IF f \in q.ids THEN NoPlace ELSE folders[f]]
          /\ files' = [x \in Files |-> IF x \in q.doomed THEN NoFile ELSE files[x]]
          /\ \A x \in Files \ q.doomed : files[x].folder \notin q.ids
          /\ \A f \in Folders \ q.ids : folders[f].parent \notin q.ids
          /\ stale' = stale
      BY <1>1, <2>2 DEF purge
    <3>2. \A f \in Folders : folders'[f] \in {folders[f], NoPlace}
      BY <3>1
    <3>3. \A x \in Files : files'[x] \in {files[x], NoFile}
      BY <3>1
    <3>4. \A f \in Folders : folders'[f] # NoPlace /\ folders[f].parent \in Folders =>
            folders'[folders[f].parent] = folders[folders[f].parent]
      BY <3>1
    <3>5. \A x \in Files : files'[x] # NoFile /\ files[x].folder \in Folders =>
            folders'[files[x].folder] = folders[files[x].folder]
      BY <3>1
    <3>6. QED
      BY <3>1, <3>2, <3>3, <3>4, <3>5, TreePruned
  <2>3. QED
    BY <2>1, <2>2
<1>2. CASE purgeExpiredFolders(r)
  <2>1. /\ files' = files /\ stale' = stale
        /\ folders' = [f \in Folders |->
             IF /\ folders[f].trashed \in 1..request[r].seen
                /\ \A x \in Files : files[x].folder # f
                /\ \A g \in Folders : folders[g].parent # f
             THEN NoPlace ELSE folders[f]]
    BY <1>2 DEF purgeExpiredFolders, history
  <2>2. \A f \in Folders : folders'[f] \in {folders[f], NoPlace}
    BY <2>1
  <2>3. \A f \in Folders : folders[f].parent \in Folders => folders'[folders[f].parent] = folders[folders[f].parent]
    BY <2>1
  <2>4. \A x \in Files : files[x].folder \in Folders => folders'[files[x].folder] = folders[files[x].folder]
    BY <2>1
  <2>5. QED
    BY <2>1, <2>2, <2>3, <2>4, TreePruned
<1>3. QED
  BY <1>1, <1>2

\* The steps that write a file, and no folder.
LEMMA TreeFiles ==
  ASSUME Types, Rows, Types', Stamped, TreeInv, NEW r \in Requests, Knows(request[r]),
         CommitVersion(r) \/ copyFile(r) \/ updateFile(r) \/ trashFile(r) \/ restoreFile(r)
  PROVE  TreeInv'
<1> DEFINE q == request[r]
           x == q.file
<1>1. q.file \in Files
  BY DEF CommitVersion, copyFile, updateFile, trashFile, restoreFile, Knows
<1>2. UNCHANGED folders /\ (~stale' => ~stale)
  BY DEF CommitVersion, copyFile, updateFile, trashFile, restoreFile, Decided, history
<1>3. \A y \in Files \ {x} : files'[y] = files[y]
  BY DEF CommitVersion, copyFile, updateFile, trashFile, restoreFile, Types
<1>4. ASSUME ~stale'
      PROVE  \/ files'[x].trashed = files[x].trashed /\ files'[x].folder = files[x].folder /\ (files'[x] # NoFile => files[x] # NoFile)
             \/ liveFolder(files'[x].folder)
             \/ files'[x].trashed = stamp
  <2>1. CASE UNCHANGED files
    BY <2>1
  <2>2. CASE CommitVersion(r) /\ ~UNCHANGED files
    <3> DEFINE new  == [folder |-> q.to, trashed |-> 0, current |-> q.version, count |-> 1, version |-> 1]
               next == [files[x] EXCEPT !.current = q.version, !.count = @ + 1, !.version = @ + 1]
               made == IF q.to # NoOne THEN new ELSE next
    <3>1. /\ q.step = "commit" /\ files' = [files EXCEPT ![x] = made]
          /\ stale' = (stale \/ (q.to # NoOne /\ q.index # folders))
          /\ q.to = NoOne => files[x] # NoFile
      BY <2>2 DEF CommitVersion
    <3>2. files'[x] = made
      BY <3>1, <1>1 DEF Types
    <3>3. CASE q.to # NoOne
      <4>1. liveFolder(q.to)
        BY <3>1, <3>3, <1>4 DEF Knows, LiveIn, liveFolder
      <4>2. QED
        BY <3>2, <3>3, <4>1
    <3>4. CASE q.to = NoOne
      <4>1. next.trashed = files[x].trashed /\ next.folder = files[x].folder
        BY <1>1 DEF Types, File
      <4>2. QED
        BY <3>1, <3>2, <3>4, <4>1
    <3>5. QED
      BY <3>3, <3>4
  <2>3. CASE copyFile(r) /\ ~UNCHANGED files
    <3>1. files' = [files EXCEPT ![x] = [folder |-> q.to, trashed |-> 0, current |-> q.version, count |-> 1, version |-> 1]]
          /\ q.step = "commitCopy" /\ stale' = (stale \/ q.index # folders)
      BY <2>3 DEF copyFile, Decided
    <3>2. liveFolder(q.to)
      BY <3>1, <1>4 DEF Knows, LiveIn, liveFolder
    <3>3. files'[x].folder = q.to
      BY <3>1, <1>1 DEF Types
    <3>4. QED
      BY <3>2, <3>3
  <2>4. CASE updateFile(r) /\ ~UNCHANGED files
    <3>1. files' = [files EXCEPT ![x].folder = q.to, ![x].version = @ + 1]
          /\ q.step = "moveFile" /\ stale' = (stale \/ q.index # folders)
      BY <2>4 DEF updateFile, Decided
    <3>2. liveFolder(q.to)
      BY <3>1, <1>4 DEF Knows, LiveIn, liveFolder
    <3>3. files'[x].folder = q.to
      BY <3>1, <1>1 DEF Types, File
    <3>4. QED
      BY <3>2, <3>3
  <2>5. CASE restoreFile(r) /\ ~UNCHANGED files
    <3>1. files' = [files EXCEPT ![x].trashed = 0, ![x].folder = q.to]
          /\ q.step = "restoreFile" /\ stale' = (stale \/ q.index # folders)
      BY <2>5 DEF restoreFile, Decided
    <3>2. liveFolder(q.to)
      BY <3>1, <1>4 DEF Knows, LiveIn, liveFolder
    <3>3. files'[x].folder = q.to
      BY <3>1, <1>1 DEF Types, File
    <3>4. QED
      BY <3>2, <3>3
  <2>6. CASE trashFile(r) /\ ~UNCHANGED files
    <3>1. files' = [files EXCEPT ![x].trashed = stamp]
      BY <2>6 DEF trashFile
    <3>2. QED
      BY <3>1, <1>1 DEF Types, File
  <2>7. QED
    BY <2>1, <2>2, <2>3, <2>4, <2>5, <2>6
<1>5. QED
  BY <1>2, <1>3, <1>4, TreeWithFiles

LEMMA GoesOnTree ==
  ASSUME Types, Rows, Types', Given, Stamped, TreeInv, NEW r \in Requests, Knows(request[r]), GoesOn(r) \/ Die(r)
  PROVE  TreeInv'
<1>1. CASE createFolder(r)
  BY <1>1, TreeCreate
<1>2. CASE updateFolder(r)
  BY <1>2, TreeMove
<1>3. CASE trashFolder(r)
  BY <1>3, TreeTrash
<1>4. CASE restore(r)
  BY <1>4, TreeRestore
<1>5. CASE CommitVersion(r) \/ copyFile(r) \/ updateFile(r) \/ trashFile(r) \/ restoreFile(r)
  BY <1>5, TreeFiles
<1>6. CASE purge(r) \/ purgeExpiredFolders(r)
  BY <1>6, TreePurge
<1>7. CASE PutObject(r) \/ UndoPut(r) \/ enqueueFileScan(r) \/ CopyObject(r) \/ deleteObjects(r) \/ Die(r)
  BY <1>7, TreeUnchanged DEF PutObject, UndoPut, enqueueFileScan, CopyObject, deleteObjects, Die, rows, history
<1>8. QED
  BY <1>1, <1>2, <1>3, <1>4, <1>5, <1>6, <1>7 DEF GoesOn

LEMMA ScanTree ==
  ASSUME Types, Rows, Types', Stamped, TreeInv, NEW v \in Versions, Scans(v) \/ ScanFails(v)
  PROVE  TreeInv'
<1>1. UNCHANGED <<folders, stale>>
  BY DEF Scans, ScanStart, Pass, DeleteInfected, Quarantine, ScanFails, rows, history
<1>2. CASE UNCHANGED files
  BY <1>1, <1>2, TreeUnchanged
<1>3. CASE ~UNCHANGED files
  <2> DEFINE x == versions[v].file
  <2>1. versions[v] # NoVersion /\ files' = [files EXCEPT ![x].trashed = stamp]
    BY <1>3 DEF Scans, ScanStart, Pass, DeleteInfected, Quarantine, ScanFails, rows
  <2>2. x \in Files
    BY <2>1, Absent DEF Types, Version
  <2>3. files'[x].trashed = stamp /\ \A y \in Files \ {x} : files'[y] = files[y]
    BY <2>1, <2>2 DEF Types, File
  <2>4. QED
    BY <1>1, <2>3, TreeWithFiles
<1>4. QED
  BY <1>2, <1>3

LEMMA OpensTree == ASSUME TreeInv, NEW r, NEW n, Opens(r, n) PROVE TreeInv'
BY TreeUnchanged DEF Opens, rows, history

-----------------------------------------------------------------------------
(* Rows and objects *)

\* The three parts of StoreAgrees.
Stocked ==
  \A v \in Versions : versions[v] # NoVersion =>
    /\ v \notin bad => v \in objects /\ versions[v].scan \in {"pending", "clean"}
    /\ v \in bad => versions[v].scan # "clean"
    /\ versions[v].scan \in {"infected", "error"} => v \notin objects
Accounted == \A v \in objects : versions[v] = NoVersion => InHand(v) \/ v \in leaked
Contained == \A x \in Files : liveFile(x) => versions[files[x].current].scan # "infected" \/ x \in rescued

LEMMA StoreParts == StoreAgrees <=> Stocked /\ Accounted /\ Contained
BY DEF StoreAgrees, Stocked, Accounted, Contained

Books == Types /\ Rows /\ Given /\ Makers /\ Keys /\ Jobs /\ Stocked /\ Accounted

\* The object is in the hands of the request.
Held(q, v) ==
  \/ q.step \in Unwritten /\ q.version = v
  \/ q.step \in {"unstore", "unstoreExpired"} /\ v \in q.keys

LEMMA HeldInHand == \A v : InHand(v) <=> \E p \in Requests : Held(request[p], v)
BY DEF InHand, Held, Unwritten

\* The request is another, and the others are what they were.
Turned(r, n) == \A p \in Requests : request'[p] = IF p = r THEN n ELSE request[p]

LEMMA TurnedBy == ASSUME Types, NEW r \in Requests, NEW n, Becomes(r, n) PROVE Turned(r, n)
BY DEF Types, Becomes, Turned

LEMMA AccountedNext ==
  ASSUME NEW r \in Requests, NEW n, Turned(r, n),
         \A v \in objects' : versions'[v] = NoVersion =>
           v \in leaked' \/ Held(n, v) \/ \E p \in Requests \ {r} : Held(request[p], v)
  PROVE  Accounted'
<1>1. \A v \in objects' : versions'[v] = NoVersion => v \in leaked' \/ \E p \in Requests : Held(request'[p], v)
  BY DEF Turned
<1>2. QED
  BY <1>1 DEF Accounted, InHand, Held, Unwritten

\* Nothing of the store changes, and the request has ended.
LEMMA BooksEnds ==
  ASSUME Books, NEW r \in Requests, Becomes(r, Idle), UNCHANGED <<versions, objects, bad, job>>,
         used \subseteq used', leaked \subseteq leaked', \A v \in objects : Held(request[r], v) => v \in leaked'
  PROVE  Makers' /\ Keys' /\ Jobs' /\ Stocked' /\ Accounted'
<1>1. Turned(r, Idle)
  BY TurnedBy DEF Books
<1>2. Idle.step \notin Making \cup {"copy", "unstore", "unstoreExpired"} /\ Idle.keys = {}
  BY DEF Idle, Making, Unwritten
<1>3. Makers'
  <2>1. \A p \in Requests : request'[p].keys = {} \/ request'[p].keys = request[p].keys
    BY <1>1, <1>2 DEF Turned
  <2>2. \A p \in Requests : request'[p].step \in Making \cup {"copy"} => request'[p] = request[p]
    BY <1>1, <1>2 DEF Turned
  <2>3. Unwritten \subseteq Making /\ "commitCopy" \in Making
    BY DEF Making, Unwritten
  <2>4. QED
    BY <2>1, <2>2, <2>3 DEF Makers, Books
<1>4. Keys'
  BY <1>1, <1>2 DEF Keys, Turned, Books
<1>5. Jobs' /\ Stocked'
  BY DEF Jobs, Stocked, Books
<1>6. Accounted'
  <2>1. \A v \in objects : versions[v] = NoVersion => v \in leaked \/ \E p \in Requests : Held(request[p], v)
    BY HeldInHand DEF Accounted, Books
  <2>2. QED
    BY <2>1, <1>1, AccountedNext
<1>7. QED
  BY <1>3, <1>4, <1>5, <1>6

LEMMA QuietBooks ==
  ASSUME Books, NEW r \in Requests, Knows(request[r]),
         \/ createFolder(r) \/ updateFolder(r) \/ trashFolder(r) \/ restore(r)
         \/ updateFile(r) \/ trashFile(r) \/ restoreFile(r) \/ purgeExpiredFolders(r) \/ Die(r)
  PROVE  Makers' /\ Keys' /\ Jobs' /\ Stocked' /\ Accounted'
<1>1. Becomes(r, Idle) /\ UNCHANGED <<versions, objects, bad, job>> /\ used \subseteq used' /\ leaked \subseteq leaked'
  BY DEF createFolder, updateFolder, trashFolder, restore, updateFile, trashFile, restoreFile,
         purgeExpiredFolders, Die, Ends, Becomes, rows, history
<1>2. \A v \in objects : Held(request[r], v) => v \in leaked'
  <2>1. CASE Die(r)
    BY <2>1 DEF Die, Held, Unwritten
  <2>2. CASE ~Die(r)
    <3>1. request[r].step \notin Unwritten \cup {"unstore", "unstoreExpired"}
      BY <2>2 DEF createFolder, updateFolder, trashFolder, restore, updateFile, trashFile, restoreFile,
                  purgeExpiredFolders, Unwritten
    <3>2. QED
      BY <3>1 DEF Held
  <2>3. QED
    BY <2>1, <2>2
<1>3. QED
  BY <1>1, <1>2, BooksEnds

\* An object that is put: a new version, in the hands of its request.
LEMMA BooksPut ==
  ASSUME Books, NEW r \in Requests, NEW n, Turned(r, n), NEW v \in Versions \ used,
         ~\E w : Held(request[r], w), request[r].step \notin Making,
         n.step \in {"commit", "commitCopy"}, n.version = v, n.keys = request[r].keys, n.doomed = request[r].doomed,
         objects' = objects \cup {v}, used \cup {v} \subseteq used', bad' \in {bad, bad \cup {v}},
         n.step = "commitCopy" => v \notin bad', UNCHANGED <<versions, job, leaked>>
  PROVE  Makers' /\ Keys' /\ Jobs' /\ Stocked' /\ Accounted'
<1>1. versions[v] = NoVersion /\ job[v] = "none" /\ v \notin bad /\ v \notin objects
  BY DEF Books, Given
<1>2. \A p \in Requests : v \notin request[p].keys
  BY DEF Books, Keys
<1>3. \A p \in Requests : request[p].step \in Making => request[p].version # v
  BY DEF Books, Makers
<1>4. n.step \in Unwritten /\ Unwritten \subseteq Making /\ n.step # "copy"
  BY DEF Unwritten, Making
<1>5. \A p \in Requests : request'[p].keys = request[p].keys /\ request'[p].doomed = request[p].doomed
  BY DEF Turned
<1>6. Makers'
  <2>1. ASSUME NEW p \in Requests, request'[p].step \in Making
        PROVE  /\ request'[p].version \in used' /\ job[request'[p].version] = "none"
               /\ \A s \in Requests \ {p} : request'[s].step \in Making => request'[s].version # request'[p].version
    <3>1. CASE p = r
      BY <3>1, <2>1, <1>1, <1>3 DEF Turned
    <3>2. CASE p # r
      <4>1. request'[p] = request[p]
        BY <3>2 DEF Turned
      <4>2. /\ request[p].version \in used /\ job[request[p].version] = "none"
            /\ \A s \in Requests \ {p} : request[s].step \in Making => request[s].version # request[p].version
        BY <4>1, <2>1 DEF Books, Makers
      <4>3. QED
        BY <4>1, <4>2, <1>3, <2>1 DEF Turned
    <3>3. QED
      BY <3>1, <3>2
  <2>2. ASSUME NEW p \in Requests, request'[p].step \in Unwritten
        PROVE  /\ request'[p].version \in objects' /\ versions[request'[p].version] = NoVersion
               /\ \A s \in Requests : request'[p].version \notin request'[s].keys
    BY <2>2, <1>1, <1>2, <1>5 DEF Books, Makers, Turned
  <2>3. ASSUME NEW p \in Requests, request'[p].step = "copy"
        PROVE  request'[p].version \in used' \ bad'
    <3>1. request'[p] = request[p]
      BY <2>3, <1>4 DEF Turned
    <3>2. request[p].version \in used \ bad
      BY <3>1, <2>3 DEF Books, Makers
    <3>3. QED
      BY <3>1, <3>2
  <2>4. ASSUME NEW p \in Requests, request'[p].step = "commitCopy"
        PROVE  request'[p].version \notin bad'
    <3>1. CASE p = r
      BY <3>1, <2>4 DEF Turned
    <3>2. CASE p # r
      <4>1. request'[p] = request[p]
        BY <3>2 DEF Turned
      <4>2. request[p].version \notin bad /\ request[p].version \in used
        BY <4>1, <2>4 DEF Books, Makers, Making, Unwritten
      <4>3. QED
        BY <4>1, <4>2
    <3>3. QED
      BY <3>1, <3>2
  <2>5. QED
    BY <2>1, <2>2, <2>3, <2>4 DEF Makers
<1>7. Keys'
  <2>1. ASSUME NEW p \in Requests, NEW w \in request'[p].keys
        PROVE  /\ w \in used' /\ (versions[w] = NoVersion \/ versions[w].file \in request'[p].doomed)
               /\ request'[p].step \in {"unstore", "unstoreExpired"} => versions[w] = NoVersion
    BY <2>1, <1>5 DEF Books, Keys, Turned
  <2>2. QED
    BY <2>1 DEF Keys
<1>8. Jobs' /\ Stocked'
  BY <1>1 DEF Jobs, Stocked, Books
<1>9. Accounted'
  <2>1. \A w \in objects : versions[w] = NoVersion => w \in leaked \/ \E p \in Requests \ {r} : Held(request[p], w)
    BY HeldInHand DEF Accounted, Books
  <2>2. Held(n, v)
    BY <1>4 DEF Held
  <2>3. QED
    BY <2>1, <2>2, AccountedNext
<1>10. QED
  BY <1>6, <1>7, <1>8, <1>9

LEMMA PutBooks ==
  ASSUME Books, NEW r \in Requests, Knows(request[r]), PutObject(r) \/ CopyObject(r)
  PROVE  Makers' /\ Keys' /\ Jobs' /\ Stocked' /\ Accounted'
<1> DEFINE q == request[r]
<1>0. q \in Request
  BY DEF Books, Types
<1>1. CASE Becomes(r, Idle) /\ UNCHANGED <<versions, objects, bad, job, used, leaked>>
  <2>1. \A v : ~Held(q, v)
    BY DEF PutObject, CopyObject, Held, Unwritten
  <2>2. QED
    BY <1>1, <2>1, BooksEnds
<1>2. CASE ~(Becomes(r, Idle) /\ UNCHANGED <<versions, objects, bad, job, used, leaked>>)
  <2>1. PICK v, x, s : /\ v \in Versions \ used /\ x \in Files /\ s \in {"commit", "commitCopy"}
                       /\ Becomes(r, [q EXCEPT !.step = s, !.version = v, !.file = x])
                       /\ objects' = objects \cup {v} /\ used' = used \cup {v, x} /\ bad' \in {bad, bad \cup {v}}
                       /\ s = "commitCopy" => bad' = bad
    <3>1. CASE PutObject(r)
      <4>1. Fresh(Versions) \in Versions /\ Fresh(Versions) \notin used /\ Fresh(Files) \in Files
            /\ q.step \in {"upload", "renew"} /\ (q.step = "renew" => q.file \in Files)
        BY <3>1, FreshIsNew DEF PutObject, Knows
      <4> DEFINE y == IF q.step = "upload" THEN Fresh(Files) ELSE q.file
      <4>2. y \in Files
        BY <4>1
      <4>3. /\ Becomes(r, [q EXCEPT !.step = "commit", !.version = Fresh(Versions), !.file = y])
            /\ objects' = objects \cup {Fresh(Versions)} /\ used' = used \cup {Fresh(Versions), y}
            /\ bad' \in {bad, bad \cup {Fresh(Versions)}}
        BY <3>1 DEF PutObject, Goes, Becomes
      <4>4. PICK v, x, s : v = Fresh(Versions) /\ x = y /\ s = "commit"
        OBVIOUS
      <4> HIDE DEF y, q
      <4>5. /\ Becomes(r, [q EXCEPT !.step = s, !.version = v, !.file = x])
            /\ objects' = objects \cup {v} /\ used' = used \cup {v, x} /\ bad' \in {bad, bad \cup {v}}
        BY <4>3, <4>4
      <4>6. v \in Versions \ used /\ x \in Files /\ s \in {"commit", "commitCopy"} /\ s # "commitCopy"
        BY <4>1, <4>2, <4>4
      <4>7. QED
        BY <4>5, <4>6
    <3>2. CASE CopyObject(r)
      <4>1. Fresh(Versions) \in Versions /\ Fresh(Versions) \notin used /\ Fresh(Files) \in Files /\ q.step = "copy"
        BY <3>2, FreshIsNew DEF CopyObject
      <4>2. q.version \in objects
        BY <3>2, <1>2 DEF CopyObject, Ends, Becomes, rows, history
      <4>3. q.version \notin bad
        BY <4>1 DEF Books, Makers
      <4>4. /\ Becomes(r, [q EXCEPT !.step = "commitCopy", !.version = Fresh(Versions), !.file = Fresh(Files)])
            /\ objects' = objects \cup {Fresh(Versions)} /\ used' = used \cup {Fresh(Versions), Fresh(Files)}
            /\ bad' = bad
        BY <3>2, <4>2, <4>3 DEF CopyObject, Goes, Becomes
      <4>5. QED
        BY <4>1, <4>4
    <3>3. QED
      BY <3>1, <3>2
  <2>2. PICK n : n = [q EXCEPT !.step = s, !.version = v, !.file = x]
    OBVIOUS
  <2>3. TurnsTo(q, n, s, v, x)
    <3> HIDE DEF q
    <3>1. s \in Steps
      BY <2>1 DEF Steps
    <3>2. QED
      BY <1>0, <2>1, <2>2, <3>1, WithVersion
  <2>4. Turned(r, n)
    BY <2>1, <2>2, TurnedBy DEF Books
  <2>5. (~\E w : Held(q, w)) /\ q.step \notin Making /\ UNCHANGED <<versions, job, leaked>>
    BY DEF PutObject, CopyObject, Held, Making, Unwritten, rows, history
  <2>6. v \notin bad
    BY <2>1 DEF Books, Given
  <2>7. QED
    <3>1. n.step = s /\ n.version = v /\ n.keys = q.keys /\ n.doomed = q.doomed
      BY <2>3 DEF TurnsTo, Keeps
    <3>2. QED
      BY <2>1, <2>4, <2>5, <2>6, <3>1, BooksPut
<1>3. QED
  BY <1>1, <1>2

\* The row of a new version is written, by the request that has its object in hand.
Writes(r, n, v, row) ==
  /\ Turned(r, n) /\ request[r].step \in Unwritten /\ v = request[r].version
  /\ row.scan \in {"pending", "clean"} /\ (row.scan = "clean" => v \notin bad)
  /\ versions' = [versions EXCEPT ![v] = row] /\ UNCHANGED <<objects, bad, job, used, leaked>>
  /\ n.step \in {"enqueue", "idle"} /\ (n.step = "enqueue" => n.version = v)
  /\ n.keys \subseteq request[r].keys /\ (n.doomed = request[r].doomed \/ n.keys = {})

LEMMA BooksWritten ==
  ASSUME Books, NEW r \in Requests, NEW n, NEW v \in Versions, NEW row, Writes(r, n, v, row)
  PROVE  Makers' /\ Keys' /\ Jobs' /\ Stocked' /\ Accounted'
<1> USE DEF Writes
<1> DEFINE q == request[r]
<1>1. /\ v \in used /\ job[v] = "none" /\ v \in objects
      /\ \A p \in Requests : v \notin request[p].keys
      /\ \A p \in Requests \ {r} : request[p].step \in Making => request[p].version # v
  BY DEF Books, Makers, Making
<1>2. versions'[v] = row /\ \A w \in Versions \ {v} : versions'[w] = versions[w]
  BY DEF Books, Types
<1>3. row # NoVersion
  BY DEF NoVersion
<1>4. \A p \in Requests : request'[p].keys \subseteq request[p].keys
  BY DEF Turned
<1>5. n.step \notin Unwritten \cup {"copy", "unstore", "unstoreExpired"} /\ Unwritten \subseteq Making
      /\ "enqueue" \in Making /\ "idle" \notin Making /\ "commitCopy" \in Unwritten
  BY DEF Unwritten, Making
<1>6. Makers'
  <2>1. ASSUME NEW p \in Requests, request'[p].step \in Making
        PROVE  /\ request'[p].version \in used /\ job[request'[p].version] = "none"
               /\ \A s \in Requests \ {p} : request'[s].step \in Making => request'[s].version # request'[p].version
    <3>1. CASE p = r
      BY <3>1, <2>1, <1>1, <1>5 DEF Turned
    <3>2. CASE p # r
      <4>1. request'[p] = request[p]
        BY <3>2 DEF Turned
      <4>2. /\ request[p].version \in used /\ job[request[p].version] = "none"
            /\ \A s \in Requests \ {p} : request[s].step \in Making => request[s].version # request[p].version
        BY <4>1, <2>1 DEF Books, Makers
      <4>3. request[p].version # v
        BY <3>2, <4>1, <2>1, <1>1
      <4>4. QED
        BY <4>1, <4>2, <4>3, <1>5 DEF Turned
    <3>3. QED
      BY <3>1, <3>2
  <2>2. ASSUME NEW p \in Requests, request'[p].step \in Unwritten
        PROVE  /\ request'[p].version \in objects /\ versions'[request'[p].version] = NoVersion
               /\ \A s \in Requests : request'[p].version \notin request'[s].keys
    <3>1. p # r /\ request'[p] = request[p]
      BY <2>2, <1>5 DEF Turned
    <3>2. /\ request[p].version \in objects /\ versions[request[p].version] = NoVersion
          /\ \A s \in Requests : request[p].version \notin request[s].keys
      BY <3>1, <2>2 DEF Books, Makers
    <3>3. request[p].version # v /\ request[p].version \in Versions
      BY <3>1, <3>2, <2>2, <1>1, <1>5 DEF Books, Types
    <3>4. QED
      BY <3>1, <3>2, <3>3, <1>2, <1>4
  <2>3. \A p \in Requests : request'[p].step \in {"copy", "commitCopy"} => request'[p] = request[p]
    BY <1>5 DEF Turned
  <2>4. QED
    BY <2>1, <2>2, <2>3 DEF Makers, Books
<1>7. Keys'
  <2>1. ASSUME NEW p \in Requests, NEW w \in request'[p].keys
        PROVE  /\ w \in used /\ (versions'[w] = NoVersion \/ versions'[w].file \in request'[p].doomed)
               /\ request'[p].step \in {"unstore", "unstoreExpired"} => versions'[w] = NoVersion
    <3>1. w \in request[p].keys /\ w # v /\ request'[p].doomed = request[p].doomed
      BY <2>1, <1>1, <1>4 DEF Turned
    <3>2. request'[p].step \in {"unstore", "unstoreExpired"} => request[p].step = request'[p].step
      BY <1>5 DEF Turned
    <3>3. w \in Versions
      BY <3>1 DEF Books, Types, Request
    <3>4. QED
      BY <3>1, <3>2, <3>3, <1>2 DEF Books, Keys
  <2>2. QED
    BY <2>1 DEF Keys
<1>8. Jobs'
  BY DEF Jobs, Books
<1>9. Stocked'
  BY <1>1, <1>2 DEF Stocked, Books
<1>10. Accounted'
  <2>1. ASSUME NEW w \in objects, versions'[w] = NoVersion
        PROVE  w \in leaked \/ \E p \in Requests \ {r} : Held(request[p], w)
    <3>1. w \in Versions /\ w # v /\ versions[w] = NoVersion
      BY <2>1, <1>2, <1>3 DEF Books, Types
    <3>2. w \in leaked \/ \E p \in Requests : Held(request[p], w)
      BY <3>1, <2>1, HeldInHand DEF Accounted, Books
    <3>3. ~Held(q, w)
      BY <3>1 DEF Held, Unwritten
    <3>4. QED
      BY <3>2, <3>3
  <2>2. QED
    BY <2>1, AccountedNext
<1>11. QED
  BY <1>6, <1>7, <1>8, <1>9, <1>10

\* The rows of an upload are refused: its object is still in its hands.
LEMMA BooksRefused ==
  ASSUME Books, NEW r \in Requests, NEW n, Turned(r, n), request[r].step = "commit",
         n.step = "undo", n.version = request[r].version, n.keys = request[r].keys, n.doomed = request[r].doomed,
         UNCHANGED <<versions, objects, bad, job, used, leaked>>
  PROVE  Makers' /\ Keys' /\ Jobs' /\ Stocked' /\ Accounted'
<1>1. \A p \in Requests : /\ request'[p].keys = request[p].keys /\ request'[p].doomed = request[p].doomed
                          /\ request'[p].version = request[p].version
  BY DEF Turned
<1>2. \A p \in Requests : /\ request'[p].step \in Making <=> request[p].step \in Making
                          /\ request'[p].step \in Unwritten <=> request[p].step \in Unwritten
                          /\ request'[p].step \in {"copy", "commitCopy", "unstore", "unstoreExpired"} => request'[p].step = request[p].step
  BY DEF Turned, Making, Unwritten
<1>3. Makers'
  BY <1>1, <1>2 DEF Makers, Books
<1>4. Keys'
  BY <1>1, <1>2 DEF Keys, Books
<1>5. Jobs' /\ Stocked'
  BY DEF Jobs, Stocked, Books
<1>6. Accounted'
  <2>1. \A w \in objects : versions[w] = NoVersion => w \in leaked \/ \E p \in Requests : Held(request[p], w)
    BY HeldInHand DEF Accounted, Books
  <2>2. \A w : Held(request[r], w) => Held(n, w)
    BY DEF Held, Unwritten
  <2>3. QED
    BY <2>1, <2>2, AccountedNext
<1>7. QED
  BY <1>3, <1>4, <1>5, <1>6

LEMMA CommitBooks ==
  ASSUME Books, NEW r \in Requests, Knows(request[r]), CommitVersion(r)
  PROVE  Makers' /\ Keys' /\ Jobs' /\ Stocked' /\ Accounted'
<1> DEFINE q == request[r]
<1>0. q \in Request /\ q.step = "commit" /\ q.version \in Versions /\ UNCHANGED <<objects, bad, job, used, leaked>>
  BY DEF Books, Types, CommitVersion, Knows
<1>1. CASE UNCHANGED versions /\ Becomes(r, [q EXCEPT !.step = "undo"])
  <2>1. PICK n : n = [q EXCEPT !.step = "undo"]
    OBVIOUS
  <2>2. Keeps(q, n) /\ n.step = "undo" /\ n.version = q.version
    <3> HIDE DEF q
    <3>1. "undo" \in Steps
      BY DEF Steps
    <3>2. QED
      BY <1>0, <2>1, <3>1, WithStep
  <2>3. Turned(r, n)
    BY <1>1, <2>1, TurnedBy DEF Books
  <2>4. QED
    BY <1>0, <1>1, <2>2, <2>3, BooksRefused DEF Keeps
<1>2. CASE versions' = [versions EXCEPT ![q.version] = [file |-> q.file, scan |-> "pending"]]
           /\ Becomes(r, [q EXCEPT !.step = "enqueue"])
  <2>1. PICK n, v, row : n = [q EXCEPT !.step = "enqueue"] /\ v = q.version /\ row = [file |-> q.file, scan |-> "pending"]
    OBVIOUS
  <2>2. Keeps(q, n) /\ n.step = "enqueue" /\ n.version = v
    <3> HIDE DEF q
    <3>1. "enqueue" \in Steps
      BY DEF Steps
    <3>2. QED
      BY <1>0, <2>1, <3>1, WithStep
  <2>3. Turned(r, n)
    BY <1>2, <2>1, TurnedBy DEF Books
  <2>4. row.scan = "pending" /\ versions' = [versions EXCEPT ![v] = row]
    BY <1>2, <2>1
  <2>5. q.step \in Unwritten /\ v \in Versions
    BY <1>0, <2>1 DEF Unwritten
  <2>6. n.keys = q.keys /\ n.doomed = q.doomed /\ v = q.version
    BY <2>1, <2>2 DEF Keeps
  <2>7. UNCHANGED <<objects, bad, job, used, leaked>>
    BY <1>0
  <2>8. n.step = "enqueue" /\ n.version = v
    BY <2>2
  <2>9. row.scan \in {"pending", "clean"} /\ (row.scan = "clean" => v \notin bad)
    BY <2>4
  <2>10. versions' = [versions EXCEPT ![v] = row]
    BY <2>4
  <2>11. Writes(r, n, v, row)
    BY <2>3, <2>5, <2>6, <2>7, <2>8, <2>9, <2>10 DEF Writes
  <2>12. QED
    BY <2>5, <2>11, BooksWritten
<1>3. QED
  BY <1>1, <1>2 DEF CommitVersion, Goes, Becomes

LEMMA CopyBooks ==
  ASSUME Books, NEW r \in Requests, Knows(request[r]), copyFile(r)
  PROVE  Makers' /\ Keys' /\ Jobs' /\ Stocked' /\ Accounted'
<1> DEFINE q == request[r]
<1>0. /\ q.step = "commitCopy" /\ q.version \in Versions /\ Becomes(r, Idle)
      /\ UNCHANGED <<objects, bad, job, used>>
  BY DEF copyFile, Knows, Ends, Becomes
<1>1. CASE UNCHANGED versions /\ leaked' = leaked \cup {q.version}
  <2>1. \A w : Held(q, w) => w = q.version
    BY <1>0 DEF Held
  <2>2. QED
    BY <1>0, <1>1, <2>1, BooksEnds
<1>2. CASE versions' = [versions EXCEPT ![q.version] = [file |-> q.file, scan |-> "clean"]] /\ UNCHANGED leaked
  <2>1. PICK v, row, n : v = q.version /\ row = [file |-> q.file, scan |-> "clean"] /\ n = Idle
    OBVIOUS
  <2>2. v \notin bad /\ q.step \in Unwritten /\ v \in Versions
    BY <1>0, <2>1 DEF Books, Makers, Unwritten
  <2>3. row.scan = "clean" /\ versions' = [versions EXCEPT ![v] = row]
    BY <1>2, <2>1
  <2>4. n.step = "idle" /\ n.keys = {}
    BY <2>1 DEF Idle
  <2>5. Turned(r, n)
    BY <1>0, <2>1, TurnedBy DEF Books
  <2>6. v = q.version /\ row.scan \in {"pending", "clean"} /\ (row.scan = "clean" => v \notin bad)
    BY <2>1, <2>2, <2>3
  <2>7. UNCHANGED <<objects, bad, job, used, leaked>>
    BY <1>0, <1>2
  <2>8. versions' = [versions EXCEPT ![v] = row]
    BY <2>3
  <2>9. n.step \in {"enqueue", "idle"} /\ (n.step = "enqueue" => n.version = v) /\ n.keys \subseteq q.keys
        /\ (n.doomed = q.doomed \/ n.keys = {})
    BY <2>4
  <2>10. Writes(r, n, v, row)
    BY <2>2, <2>5, <2>6, <2>7, <2>8, <2>9 DEF Writes
  <2>11. QED
    BY <2>2, <2>10, BooksWritten
<1>3. QED
  BY <1>1, <1>2 DEF copyFile

\* Objects that have no row and are in the hands of the request are deleted.
LEMMA BooksDelete ==
  ASSUME Books, NEW r \in Requests, NEW n, Turned(r, n), NEW S,
         objects' = objects \ S, UNCHANGED <<versions, bad, job, used, leaked>>,
         \A v \in S \cap Versions : versions[v] = NoVersion,
         \A v \in objects \ S : ~Held(request[r], v),
         \A p \in Requests \ {r} : request[p].step \in Unwritten => request[p].version \notin S,
         n.step \notin Making \cup {"copy", "unstore", "unstoreExpired"},
         n.keys \subseteq request[r].keys, n.doomed = request[r].doomed \/ n.keys = {}
  PROVE  Makers' /\ Keys' /\ Jobs' /\ Stocked' /\ Accounted'
<1>1. \A p \in Requests : request'[p].step \in Making \cup {"copy", "unstore", "unstoreExpired"} => p # r /\ request'[p] = request[p]
  BY DEF Turned
<1>2. \A p \in Requests : request'[p].keys \subseteq request[p].keys
  BY DEF Turned
<1>3. Unwritten \subseteq Making /\ "commitCopy" \in Making
  BY DEF Making, Unwritten
<1>4. Makers'
  BY <1>1, <1>2, <1>3 DEF Makers, Books
<1>5. Keys'
  <2>1. ASSUME NEW p \in Requests, NEW w \in request'[p].keys
        PROVE  /\ w \in used /\ (versions[w] = NoVersion \/ versions[w].file \in request'[p].doomed)
               /\ request'[p].step \in {"unstore", "unstoreExpired"} => versions[w] = NoVersion
    <3>1. w \in request[p].keys /\ request'[p].doomed = request[p].doomed
      BY <2>1, <1>2 DEF Turned
    <3>2. QED
      BY <3>1, <1>1 DEF Books, Keys
  <2>2. QED
    BY <2>1 DEF Keys
<1>6. Jobs' /\ Stocked'
  BY DEF Jobs, Stocked, Books
<1>7. Accounted'
  <2>1. \A w \in objects : versions[w] = NoVersion => w \in leaked \/ \E p \in Requests : Held(request[p], w)
    BY HeldInHand DEF Accounted, Books
  <2>2. QED
    BY <2>1, AccountedNext
<1>8. QED
  BY <1>4, <1>5, <1>6, <1>7

LEMMA UndoBooks ==
  ASSUME Books, NEW r \in Requests, Knows(request[r]), UndoPut(r)
  PROVE  Makers' /\ Keys' /\ Jobs' /\ Stocked' /\ Accounted'
<1> DEFINE q == request[r]
<1>0. q.step = "undo" /\ q.step \in Unwritten /\ Unwritten \subseteq Making
  BY DEF UndoPut, Unwritten, Making
<1>1. PICK n, S : n = Idle /\ S = {q.version}
  OBVIOUS
<1>2. Turned(r, n)
  BY <1>1, TurnedBy DEF UndoPut, Ends, Becomes, Books
<1>3. objects' = objects \ S /\ UNCHANGED <<versions, bad, job, used, leaked>>
  BY <1>1 DEF UndoPut, rows, history
<1>4. n.step \notin Making \cup {"copy", "unstore", "unstoreExpired"} /\ n.keys = {}
  BY <1>1 DEF Idle, Making, Unwritten
<1>5. \A v \in S \cap Versions : versions[v] = NoVersion
  BY <1>0, <1>1 DEF Books, Makers
<1>6. \A v \in objects \ S : ~Held(q, v)
  BY <1>0, <1>1 DEF Held
<1>7. \A p \in Requests \ {r} : request[p].step \in Unwritten => request[p].version \notin S
  BY <1>0, <1>1 DEF Books, Makers
<1>8. QED
  BY <1>2, <1>3, <1>4, <1>5, <1>6, <1>7, BooksDelete

LEMMA DeleteBooks ==
  ASSUME Books, NEW r \in Requests, Knows(request[r]), deleteObjects(r)
  PROVE  Makers' /\ Keys' /\ Jobs' /\ Stocked' /\ Accounted'
<1> DEFINE q == request[r]
<1>0. q \in Request /\ q.step \in {"unstore", "unstoreExpired"}
  BY DEF deleteObjects, Books, Types
<1>1. PICK n, S : n \in {Idle, [q EXCEPT !.step = "prune"]} /\ S = q.keys /\ Becomes(r, n)
  BY DEF deleteObjects, Ends, Goes, Becomes
<1>2. Turned(r, n)
  BY <1>1, TurnedBy DEF Books
<1>3. objects' = objects \ S /\ UNCHANGED <<versions, bad, job, used, leaked>>
  BY <1>1 DEF deleteObjects, rows, history
<1>4. n.step \notin Making \cup {"copy", "unstore", "unstoreExpired"} /\ n.keys \subseteq q.keys
      /\ (n.doomed = q.doomed \/ n.keys = {})
  <2>1. CASE n = Idle
    BY <2>1 DEF Idle, Making, Unwritten
  <2>2. CASE n = [q EXCEPT !.step = "prune"]
    <3>1. Keeps(q, n) /\ n.step = "prune"
      <4> HIDE DEF q
      <4>1. "prune" \in Steps
        BY DEF Steps
      <4>2. QED
        BY <1>0, <2>2, <4>1, WithStep
    <3>2. QED
      BY <3>1 DEF Keeps, Making, Unwritten
  <2>3. QED
    BY <1>1, <2>1, <2>2
<1>5. \A v \in S \cap Versions : versions[v] = NoVersion
  BY <1>0, <1>1 DEF Books, Keys
<1>6. \A v \in objects \ S : ~Held(q, v)
  BY <1>0, <1>1 DEF Held, Unwritten
<1>7. \A p \in Requests \ {r} : request[p].step \in Unwritten => request[p].version \notin S
  BY <1>0, <1>1 DEF Books, Makers
<1>8. QED
  BY <1>2, <1>3, <1>4, <1>5, <1>6, <1>7, BooksDelete

LEMMA EnqueueBooks ==
  ASSUME Books, NEW r \in Requests, Knows(request[r]), enqueueFileScan(r)
  PROVE  Makers' /\ Keys' /\ Jobs' /\ Stocked' /\ Accounted'
<1> DEFINE q == request[r]
<1>0. q.step = "enqueue" /\ q.step \in Making /\ UNCHANGED <<versions, objects, bad, used, leaked>>
  BY DEF enqueueFileScan, Making, rows, history
<1>1. Turned(r, Idle)
  BY TurnedBy DEF enqueueFileScan, Ends, Becomes, Books
<1>2. Idle.step \notin Making \cup {"copy", "unstore", "unstoreExpired"} /\ Idle.keys = {}
  BY DEF Idle, Making, Unwritten
<1>3. q.version \in Versions /\ job'[q.version] = "queued" /\ \A v \in Versions \ {q.version} : job'[v] = job[v]
  BY <1>0 DEF enqueueFileScan, Books, Types, Knows
<1>4. \A p \in Requests : request'[p].step \in Making \cup {"copy", "unstore", "unstoreExpired"} => p # r /\ request'[p] = request[p]
  BY <1>1, <1>2 DEF Turned
<1>5. \A p \in Requests : request'[p].keys \subseteq request[p].keys
  BY <1>1, <1>2 DEF Turned
<1>6. Unwritten \subseteq Making /\ "commitCopy" \in Making
  BY DEF Making, Unwritten
<1>7. Makers'
  <2>1. \A p \in Requests \ {r} : request[p].step \in Making => request[p].version # q.version
    BY <1>0 DEF Books, Makers
  <2>2. \A p \in Requests \ {r} : request[p].step \in Making =>
          job'[request[p].version] = "none"
    <3>1. \A p \in Requests \ {r} : request[p].step \in Making =>
             request[p].version \in used /\ job[request[p].version] = "none" /\ request[p].version \in Versions \cup {NoOne}
      BY DEF Books, Makers, Types, Request
    <3>2. ASSUME NEW p \in Requests \ {r}, request[p].step \in Making
          PROVE  request[p].version \in Versions
      <4>1. request[p].version \in used /\ request[p].version \in Versions \cup {NoOne}
        BY <3>1, <3>2
      <4>2. NoOne \notin used
        BY LibraryAssumption DEF LibraryAssumption, Books, Types, Places
      <4>3. QED
        BY <4>1, <4>2
    <3>3. QED
      BY <2>1, <3>1, <3>2, <1>3
  <2>3. QED
    BY <2>2, <1>0, <1>4, <1>5, <1>6 DEF Makers, Books
<1>8. Keys'
  BY <1>0, <1>1, <1>2 DEF Keys, Turned, Books
<1>9. Jobs' /\ Stocked'
  BY <1>0, <1>3 DEF Jobs, Stocked, Books
<1>10. Accounted'
  <2>1. \A w \in objects : versions[w] = NoVersion => w \in leaked \/ \E p \in Requests : Held(request[p], w)
    BY HeldInHand DEF Accounted, Books
  <2>2. \A w : ~Held(q, w)
    BY <1>0 DEF Held, Unwritten
  <2>3. QED
    BY <2>1, <2>2, <1>0, <1>1, AccountedNext
<1>11. QED
  BY <1>7, <1>8, <1>9, <1>10

LEMMA PurgeBooks ==
  ASSUME Books, NEW r \in Requests, Knows(request[r]), purge(r)
  PROVE  Makers' /\ Keys' /\ Jobs' /\ Stocked' /\ Accounted'
<1> DEFINE q == request[r]
<1>0. q \in Request /\ q.step \in {"purge", "purgeFile", "expire"} /\ UNCHANGED <<objects, bad, job, used>>
  BY DEF purge, Books, Types
<1>a. q.step \notin Making \cup {"copy", "unstore", "unstoreExpired"} /\ \A v : ~Held(q, v)
  BY <1>0 DEF Making, Unwritten, Held
<1>1. CASE UNCHANGED <<rows, leaked>> /\ Ends(r)
  BY <1>0, <1>1, <1>a, BooksEnds DEF rows, Ends, Becomes
<1>2. CASE ~(UNCHANGED <<rows, leaked>> /\ Ends(r))
  <2>1. PICK n, s : s \in {"unstore", "unstoreExpired"} /\ n = [q EXCEPT !.step = s] /\ Becomes(r, n)
    <3>1. Goes(r, [q EXCEPT !.step = IF q.step = "expire" THEN "unstoreExpired" ELSE "unstore"])
      BY <1>2 DEF purge
    <3>2. PICK s : s = IF q.step = "expire" THEN "unstoreExpired" ELSE "unstore"
      OBVIOUS
    <3>3. s \in {"unstore", "unstoreExpired"}
      BY <3>2
    <3>4. Becomes(r, [q EXCEPT !.step = s])
      BY <3>1, <3>2 DEF Goes, Becomes
    <3>5. QED
      BY <3>3, <3>4
  <2>2. /\ versions' = [v \in Versions |-> IF versions[v].file \in q.doomed THEN NoVersion ELSE versions[v]]
        /\ leaked' = leaked \cup (versionsOf(q.doomed) \ q.keys)
    BY <1>2 DEF purge
  <2>3. Keeps(q, n) /\ n.step = s
    <3> HIDE DEF q
    <3>1. s \in Steps
      BY <2>1 DEF Steps
    <3>2. QED
      BY <1>0, <2>1, <3>1, WithStep
  <2>4. Turned(r, n)
    BY <2>1, TurnedBy DEF Books
  <2>5. \A p \in Requests : /\ request'[p].step \in Making \cup {"copy"} => p # r /\ request'[p] = request[p]
                            /\ request'[p].keys = request[p].keys /\ request'[p].doomed = request[p].doomed
    <3>1. n.step \notin Making \cup {"copy"}
      BY <2>1, <2>3 DEF Making, Unwritten
    <3>2. QED
      BY <2>3, <2>4, <3>1 DEF Turned, Keeps
  <2>6. \A v \in Versions : /\ versions'[v] = versions[v] \/ versions'[v] = NoVersion
                            /\ versions[v] # NoVersion /\ versions'[v] = NoVersion => v \in versionsOf(q.doomed)
                            /\ versions[v].file \in q.doomed => versions'[v] = NoVersion
    BY <2>2 DEF versionsOf
  <2>7. Makers'
    <3>1. Unwritten \subseteq Making /\ "commitCopy" \in Making
      BY DEF Making, Unwritten
    <3>2. \A p \in Requests : request[p].step \in Unwritten => request[p].version \in Versions
      BY DEF Books, Makers, Types
    <3>3. QED
      BY <1>0, <2>5, <2>6, <3>1, <3>2 DEF Makers, Books
  <2>8. Keys'
    <3>1. ASSUME NEW p \in Requests, NEW w \in request'[p].keys
          PROVE  /\ w \in used' /\ (versions'[w] = NoVersion \/ versions'[w].file \in request'[p].doomed)
                 /\ request'[p].step \in {"unstore", "unstoreExpired"} => versions'[w] = NoVersion
      <4>1. w \in request[p].keys /\ w \in Versions
        BY <3>1, <2>5 DEF Books, Types, Request
      <4>2. /\ w \in used /\ (versions[w] = NoVersion \/ versions[w].file \in request[p].doomed)
            /\ request[p].step \in {"unstore", "unstoreExpired"} => versions[w] = NoVersion
        BY <4>1 DEF Books, Keys
      <4>3. CASE p = r
        BY <4>1, <4>2, <4>3, <1>0, <2>6
      <4>4. CASE p # r
        <5>1. request'[p] = request[p]
          BY <2>4, <4>4 DEF Turned
        <5>2. QED
          BY <4>1, <4>2, <5>1, <1>0, <2>6
      <4>5. QED
        BY <4>3, <4>4
    <3>2. QED
      BY <3>1 DEF Keys
  <2>9. Jobs' /\ Stocked'
    BY <1>0, <2>6 DEF Jobs, Stocked, Books
  <2>10. Accounted'
    <3>1. ASSUME NEW w \in objects, versions'[w] = NoVersion
          PROVE  w \in leaked' \/ Held(n, w) \/ \E p \in Requests \ {r} : Held(request[p], w)
      <4>1. w \in Versions
        BY DEF Books, Types
      <4>2. CASE versions[w] = NoVersion
        <5>1. w \in leaked \/ \E p \in Requests : Held(request[p], w)
          BY <3>1, <4>2, HeldInHand DEF Accounted, Books
        <5>2. QED
          BY <5>1, <1>a, <2>2
      <4>3. CASE versions[w] # NoVersion
        <5>1. w \in versionsOf(q.doomed)
          BY <3>1, <4>1, <4>3, <2>6
        <5>2. w \in q.keys => Held(n, w)
          BY <2>1, <2>3 DEF Held, Keeps
        <5>3. QED
          BY <5>1, <5>2, <2>2
      <4>4. QED
        BY <4>2, <4>3
    <3>2. QED
      BY <3>1, <1>0, <2>4, AccountedNext
  <2>11. QED
    BY <2>7, <2>8, <2>9, <2>10
<1>3. QED
  BY <1>1, <1>2

LEMMA GoesOnBooks ==
  ASSUME Books, NEW r \in Requests, Knows(request[r]), GoesOn(r) \/ Die(r)
  PROVE  Makers' /\ Keys' /\ Jobs' /\ Stocked' /\ Accounted'
BY QuietBooks, PutBooks, CommitBooks, CopyBooks, UndoBooks, DeleteBooks, EnqueueBooks, PurgeBooks DEF GoesOn

\* A request begins: what it means to copy or to take away has rows.
LEMMA OpensBooks ==
  ASSUME Books, NEW r \in Requests, NEW n, Opens(r, n)
  PROVE  Makers' /\ Keys' /\ Jobs' /\ Stocked' /\ Accounted'
<1>0. UNCHANGED <<versions, objects, bad, job, used, leaked>> /\ Reads(n)
  BY DEF Opens, rows, history
<1>1. Turned(r, n)
  BY TurnedBy DEF Opens, Becomes, Books
<1>2. n \in Request /\ n.step \notin Making \cup {"unstore", "unstoreExpired"}
  BY <1>0 DEF Reads, Operations, Making, Unwritten
<1>3. \A v \in n.keys : v \in used /\ versions[v] # NoVersion /\ versions[v].file \in n.doomed
  <2>1. \A v \in n.keys : v \in Versions
    BY <1>2 DEF Request
  <2>2. QED
    BY <1>0, <2>1 DEF Reads, Books, Given
<1>4. n.step = "copy" => n.version \in used \ bad
  <2>1. ASSUME n.step = "copy" PROVE n.version \in Versions /\ versions[n.version].scan = "clean"
    BY <1>0, <2>1 DEF Reads, Knows
  <2>2. ASSUME n.step = "copy" PROVE versions[n.version] # NoVersion
    BY <2>1, <2>2 DEF NoVersion
  <2>3. QED
    BY <2>1, <2>2 DEF Books, Given, Stocked
<1>5. Makers'
  <2>1. \A p \in Requests : request'[p].step \in Making => p # r /\ request'[p] = request[p]
    BY <1>1, <1>2 DEF Turned
  <2>2. \A p \in Requests : request[p].step \in Unwritten => request[p].version \notin n.keys
    BY <1>3 DEF Books, Makers
  <2>3. Unwritten \subseteq Making /\ "commitCopy" \in Making
    BY DEF Making, Unwritten
  <2>4. \A p \in Requests : request'[p].keys \in {request[p].keys, n.keys}
    BY <1>1 DEF Turned
  <2>5. \A p \in Requests : request'[p].step = "copy" => request'[p].version \in used \ bad
    BY <1>1, <1>4 DEF Turned, Books, Makers
  <2>6. QED
    BY <1>0, <2>1, <2>2, <2>3, <2>4, <2>5 DEF Makers, Books
<1>6. Keys'
  <2>1. ASSUME NEW p \in Requests, NEW w \in request'[p].keys
        PROVE  /\ w \in used /\ (versions[w] = NoVersion \/ versions[w].file \in request'[p].doomed)
               /\ request'[p].step \in {"unstore", "unstoreExpired"} => versions[w] = NoVersion
    <3>1. CASE p = r
      BY <3>1, <2>1, <1>1, <1>2, <1>3 DEF Turned
    <3>2. CASE p # r
      <4>1. request'[p] = request[p]
        BY <3>2, <1>1 DEF Turned
      <4>2. QED
        BY <4>1, <2>1 DEF Books, Keys
    <3>3. QED
      BY <3>1, <3>2
  <2>2. QED
    BY <2>1, <1>0 DEF Keys
<1>7. Jobs' /\ Stocked'
  BY <1>0 DEF Jobs, Stocked, Books
<1>8. Accounted'
  <2>1. \A w \in objects : versions[w] = NoVersion => w \in leaked \/ \E p \in Requests : Held(request[p], w)
    BY HeldInHand DEF Accounted, Books
  <2>2. \A w : ~Held(request[r], w)
    BY DEF Opens, Held, Idle, Unwritten
  <2>3. QED
    BY <2>1, <2>2, <1>0, <1>1, AccountedNext
<1>9. QED
  BY <1>5, <1>6, <1>7, <1>8

\* A scan writes what its job says of its version, and no version comes or goes.
LEMMA ScanBooks ==
  ASSUME Books, NEW v \in Versions, Scans(v) \/ ScanFails(v)
  PROVE  Makers' /\ Keys' /\ Jobs' /\ Stocked' /\ Accounted'
<1>0. UNCHANGED <<bad, request, used, leaked>> /\ (objects' = objects \/ (objects' = objects \ {v} /\ v \in bad))
  <2>1. job[v] = "delete" => v \in bad
    BY DEF Books, Jobs
  <2>2. QED
    BY <2>1 DEF Scans, ScanStart, Pass, DeleteInfected, Quarantine, ScanFails, rows, history
<1>1. job[v] # "none"
  BY DEF Scans, ScanStart, Pass, DeleteInfected, Quarantine, ScanFails
<1>2. job'[v] # "none" /\ \A w \in Versions \ {v} : job'[w] = job[w]
  BY DEF Scans, ScanStart, Pass, DeleteInfected, Quarantine, ScanFails, ScanOf, Books, Types
<1>3. \A w \in Versions \ {v} : versions'[w] = versions[w]
  BY DEF Scans, ScanStart, Pass, DeleteInfected, Quarantine, ScanFails, rows, Books, Types
<1>4. /\ versions[v] = NoVersion <=> versions'[v] = NoVersion
      /\ versions'[v].file = versions[v].file
      /\ versions'[v].scan = versions[v].scan \/
           /\ versions[v] # NoVersion
           /\ \/ versions'[v].scan = "clean" /\ v \notin bad
              \/ versions'[v].scan \in {"infected", "error"} /\ v \notin objects /\ objects' = objects
  <2>1. CASE UNCHANGED versions
    BY <2>1
  <2>2. CASE ~UNCHANGED versions
    <3>1. PICK s : /\ versions' = [versions EXCEPT ![v].scan = s] /\ versions[v] # NoVersion
                   /\ \/ s = "clean" /\ v \notin bad
                      \/ s \in {"infected", "error"} /\ v \notin objects /\ objects' = objects
      <4>1. /\ job[v] = "pass" => v \notin bad
            /\ job[v] = "mark" => v \notin objects
        BY DEF Books, Jobs
      <4>2. versions[v].scan = "pending" => versions[v] # NoVersion
        BY DEF NoVersion
      <4>3. QED
        BY <2>2, <4>1, <4>2 DEF Scans, ScanStart, Pass, DeleteInfected, Quarantine, ScanFails, rows
    <3>2. versions'[v].file = versions[v].file /\ versions'[v].scan = s
      BY <3>1 DEF Books, Types, Version
    <3>3. versions'[v] # NoVersion
      BY <3>1, <3>2 DEF NoVersion
    <3>4. QED
      BY <3>1, <3>2, <3>3
  <2>3. QED
    BY <2>1, <2>2
<1>5. \A w \in Versions : /\ versions[w] = NoVersion <=> versions'[w] = NoVersion
                          /\ versions'[w].file = versions[w].file
  BY <1>3, <1>4
<1>6. Makers'
  <2>1. ASSUME NEW p \in Requests, request[p].step \in Making
        PROVE  request[p].version \in Versions /\ request[p].version # v /\ job'[request[p].version] = "none"
    <3>1. request[p].version \in used /\ job[request[p].version] = "none" /\ request[p].version \in Versions \cup {NoOne}
      BY <2>1 DEF Books, Makers, Types, Request
    <3>2. NoOne \notin used
      BY LibraryAssumption DEF LibraryAssumption, Books, Types, Places
    <3>3. QED
      BY <3>1, <3>2, <1>1, <1>2
  <2>2. Unwritten \subseteq Making
    BY DEF Making, Unwritten
  <2>3. QED
    BY <1>0, <1>5, <2>1, <2>2 DEF Makers, Books
<1>7. Keys'
  <2>1. \A p \in Requests : \A w \in request[p].keys : w \in Versions
    BY DEF Books, Types, Request
  <2>2. QED
    BY <2>1, <1>0, <1>5 DEF Keys, Books
<1>8. Jobs'
  <2>1. /\ job'[v] = "pass" => v \notin bad
        /\ job'[v] \in {"delete", "mark"} => v \in bad
        /\ job'[v] = "mark" => v \notin objects'
    <3>1. job[v] \in {"delete", "mark"} => v \in bad
      BY DEF Books, Jobs
    <3>2. QED
      BY <3>1 DEF Scans, ScanStart, Pass, DeleteInfected, Quarantine, ScanFails, ScanOf, Books, Types
  <2>2. QED
    BY <2>1, <1>0, <1>2 DEF Jobs, Books
<1>9. Stocked'
  <2>1. ASSUME NEW w \in Versions \ {v}, versions'[w] # NoVersion
        PROVE  /\ w \notin bad => w \in objects' /\ versions'[w].scan \in {"pending", "clean"}
               /\ w \in bad => versions'[w].scan # "clean"
               /\ versions'[w].scan \in {"infected", "error"} => w \notin objects'
    BY <2>1, <1>0, <1>3 DEF Stocked, Books
  <2>2. ASSUME versions'[v] # NoVersion
        PROVE  /\ v \notin bad => v \in objects' /\ versions'[v].scan \in {"pending", "clean"}
               /\ v \in bad => versions'[v].scan # "clean"
               /\ versions'[v].scan \in {"infected", "error"} => v \notin objects'
    <3>1. /\ v \notin bad => v \in objects /\ versions[v].scan \in {"pending", "clean"}
          /\ v \in bad => versions[v].scan # "clean"
          /\ versions[v].scan \in {"infected", "error"} => v \notin objects
      BY <2>2, <1>4 DEF Stocked, Books
    <3>2. QED
      BY <3>1, <1>0, <1>4
  <2>3. QED
    BY <2>1, <2>2, <1>0 DEF Stocked
<1>10. Accounted'
  <2>1. \A w \in objects : versions[w] = NoVersion => w \in leaked \/ InHand(w)
    BY DEF Accounted, Books
  <2>2. objects \subseteq Versions
    BY DEF Books, Types
  <2>3. QED
    BY <2>1, <2>2, <1>0, <1>5 DEF Accounted, InHand
<1>11. QED
  BY <1>6, <1>7, <1>8, <1>9, <1>10

-----------------------------------------------------------------------------
(* Files whose current version is malware *)

Isolated == Quarantined /\ Contained

\* What happens to such a file: nothing, or it is restored, or goes to the trash
\* at a moment of its own.
LEMMA IsolatedStep ==
  ASSUME Types, Rows, Stamped, Isolated, \A p \in Requests : Knows(request[p]), rescued \subseteq rescued',
         \A p \in Requests : request'[p].step \in {"restore", "restoreFile"} => request'[p] = request[p],
         \A f \in Folders : folders'[f].trashed \in {folders[f].trashed, 0, stamp},
         \A x \in Files : files'[x] # NoFile /\ versions'[files'[x].current].scan = "infected" =>
           \/ /\ files[x] # NoFile /\ versions[files[x].current].scan = "infected"
              /\ files'[x].trashed = files[x].trashed
           \/ files'[x].trashed = 0 /\ x \in rescued'
           \/ files'[x].trashed = stamp /\ (x \in rescued' \/ \A f \in Folders : folders'[f].trashed # stamp)
  PROVE  Isolated'
<1>1. stamp \in Nat \ {0}
      /\ (\A f \in Folders : folders[f].trashed \in Nat /\ folders[f].trashed < stamp)
      /\ (\A x \in Files : files[x].trashed \in Nat /\ files[x].trashed < stamp)
      /\ \A p \in Requests : request[p].step \in {"restore", "restoreFile"} => 0 < request[p].seen /\ request[p].seen < stamp
                             /\ request[p].seen \in Nat
  BY DEF Types, Tree, File, Request, Stamped
<1>2. ASSUME NEW x \in Files, files'[x] # NoFile, versions'[files'[x].current].scan = "infected", x \notin rescued'
      PROVE  /\ files'[x].trashed # 0
             /\ \A f \in Folders : folders'[f].trashed # files'[x].trashed
             /\ \A p \in Requests : request'[p].step = "restore" => request'[p].seen # files'[x].trashed
  <2>1. CASE /\ files[x] # NoFile /\ versions[files[x].current].scan = "infected"
             /\ files'[x].trashed = files[x].trashed
    <3>1. x \notin rescued
      BY <1>2
    <3>2. files[x].trashed # 0
      BY <2>1, <3>1 DEF Isolated, Contained, liveFile
    <3>3. /\ \A f \in Folders : folders[f].trashed # files[x].trashed
          /\ \A p \in Requests : request[p].step = "restore" => request[p].seen # files[x].trashed
      BY <2>1, <3>1 DEF Isolated, Quarantined
    <3>4. files[x].trashed # stamp
      BY <1>1
    <3>5. QED
      BY <2>1, <3>2, <3>3, <3>4
  <2>2. CASE files'[x].trashed = stamp /\ \A f \in Folders : folders'[f].trashed # stamp
    BY <2>2, <1>1
  <2>3. QED
    BY <2>1, <2>2, <1>2
<1>3. ASSUME NEW p \in Requests, NEW x, x = request'[p].file, request'[p].step = "restoreFile",
             files'[x] # NoFile, files'[x].trashed = request'[p].seen
      PROVE  versions'[files'[x].current].scan # "infected"
  <2>1. request'[p] = request[p] /\ x = request[p].file /\ request[p].step = "restoreFile"
    BY <1>3
  <2>2. CASE x \in Files
    <3>1. files'[x].trashed # 0 /\ files'[x].trashed # stamp
      BY <2>1, <1>1, <1>3
    <3>2. ~(/\ files[x] # NoFile /\ versions[files[x].current].scan = "infected"
            /\ files'[x].trashed = files[x].trashed)
      BY <2>1, <1>3 DEF Isolated, Quarantined
    <3>3. QED
      BY <2>2, <3>1, <3>2, <1>3
  <2>3. QED
    BY <2>1, <2>2 DEF Knows
<1>4. Quarantined'
  BY <1>2, <1>3 DEF Quarantined
<1>5. Contained'
  BY <1>2 DEF Contained, liveFile
<1>6. QED
  BY <1>4, <1>5 DEF Isolated

\* The request that goes on restores nothing any more.
LEMMA RestoresNext ==
  ASSUME Types, Rows, NEW r \in Requests, Knows(request[r]), GoesOn(r) \/ Die(r)
  PROVE  \A p \in Requests : request'[p].step \in {"restore", "restoreFile"} => request'[p] = request[p]
<1>1. PICK n : Becomes(r, n) /\ Sequel(request[r], n)
  BY OwnStep
<1>2. n.step \notin {"restore", "restoreFile"}
  BY <1>1 DEF Sequel, Idle
<1>3. QED
  BY <1>1, <1>2 DEF Becomes, Types

\* Folders alone, or nothing, or objects.
LEMMA IsolatedElsewhere ==
  ASSUME Types, Rows, Stamped, Isolated, \A p \in Requests : Knows(request[p]), NEW r \in Requests,
         \/ createFolder(r) \/ updateFolder(r) \/ PutObject(r) \/ UndoPut(r) \/ enqueueFileScan(r)
         \/ CopyObject(r) \/ deleteObjects(r) \/ purgeExpiredFolders(r) \/ Die(r)
  PROVE  Isolated'
<1> DEFINE q == request[r]
<1>1. UNCHANGED <<files, versions, rescued>>
  BY DEF createFolder, updateFolder, PutObject, UndoPut, enqueueFileScan, CopyObject, deleteObjects,
         purgeExpiredFolders, Die, rows, history
<1>2. \A f \in Folders : folders'[f].trashed \in {folders[f].trashed, 0}
  <2>1. CASE createFolder(r)
    <3>1. \/ UNCHANGED folders
          \/ \E f \in Folders : folders' = [folders EXCEPT ![f] = [parent |-> q.to, trashed |-> 0, version |-> 1]]
      BY <2>1, FreshIsNew DEF createFolder
    <3>2. QED
      BY <3>1 DEF Types, Tree
  <2>2. CASE updateFolder(r)
    <3>1. folders' = folders \/ folders' = [folders EXCEPT ![q.folder].parent = q.to, ![q.folder].version = @ + 1]
      BY <2>2 DEF updateFolder
    <3>2. QED
      BY <3>1 DEF Types, Tree
  <2>3. CASE purgeExpiredFolders(r)
    <3>1. \A f \in Folders : folders'[f] \in {folders[f], NoPlace}
      BY <2>3 DEF purgeExpiredFolders
    <3>2. QED
      BY <3>1 DEF NoPlace
  <2>4. CASE ~(createFolder(r) \/ updateFolder(r) \/ purgeExpiredFolders(r))
    BY <2>4 DEF PutObject, UndoPut, enqueueFileScan, CopyObject, deleteObjects, Die, rows
  <2>5. QED
    BY <2>1, <2>2, <2>3, <2>4
<1>3. GoesOn(r) \/ Die(r)
  BY DEF GoesOn
<1>4. QED
  BY <1>1, <1>2, <1>3, RestoresNext, IsolatedStep

LEMMA IsolatedFolders ==
  ASSUME Types, Rows, Stamped, Isolated, \A p \in Requests : Knows(request[p]), NEW r \in Requests,
         trashFolder(r) \/ restore(r)
  PROVE  Isolated'
<1> DEFINE q == request[r]
<1>0. UNCHANGED <<versions, rescued>>
  BY DEF trashFolder, restore
<1>1. \A f \in Folders : folders'[f].trashed \in {folders[f].trashed, 0, stamp}
  <2>1. CASE trashFolder(r)
    BY <2>1 DEF trashFolder, Types, Tree
  <2>2. CASE restore(r)
    <3>1. ASSUME NEW f \in Folders, f = q.folder, folders[f] # NoPlace
          PROVE  folders'[f].trashed = 0
      <4>1. folders'[f] = [folders[f] EXCEPT !.trashed = 0, !.parent = IF q.to = Top THEN Top ELSE @]
        BY <2>2, <3>1 DEF restore
      <4>2. CASE q.to = Top
        BY <3>1, <4>1, <4>2 DEF Types, Tree
      <4>3. CASE q.to # Top
        BY <3>1, <4>1, <4>3 DEF Types, Tree
      <4>4. QED
        BY <4>2, <4>3
    <3>2. ASSUME NEW f \in Folders, ~(f = q.folder /\ folders[f] # NoPlace)
          PROVE  folders'[f] \in {folders[f], [folders[f] EXCEPT !.trashed = 0]}
      BY <2>2, <3>2 DEF restore
    <3>3. \A f \in Folders : [folders[f] EXCEPT !.trashed = 0].trashed = 0
      BY DEF Types, Tree
    <3>4. QED
      BY <3>1, <3>2, <3>3
  <2>3. QED
    BY <2>1, <2>2
<1>2. \A x \in Files : /\ files'[x].current = files[x].current
                       /\ \/ files'[x] = files[x]
                          \/ files'[x].trashed = stamp /\ files[x].trashed = 0
                          \/ files'[x].trashed = 0 /\ files[x].trashed = q.seen /\ q.step = "restore"
  <2>1. \A x \in Files :
          \/ files'[x] = files[x]
          \/ files'[x] = [files[x] EXCEPT !.trashed = stamp] /\ files[x].trashed = 0
          \/ files'[x] = [files[x] EXCEPT !.trashed = 0] /\ files[x].trashed = q.seen /\ q.step = "restore"
    <3>1. CASE trashFolder(r)
      BY <3>1 DEF trashFolder
    <3>2. CASE restore(r)
      BY <3>2 DEF restore
    <3>3. QED
      BY <3>1, <3>2
  <2>2. \A x \in Files : [files[x] EXCEPT !.trashed = stamp].trashed = stamp
                         /\ [files[x] EXCEPT !.trashed = stamp].current = files[x].current
    BY DEF Types, File
  <2>3. \A x \in Files : [files[x] EXCEPT !.trashed = 0].trashed = 0
                         /\ [files[x] EXCEPT !.trashed = 0].current = files[x].current
    BY DEF Types, File
  <2>4. QED
    BY <2>1, <2>2, <2>3
<1>3. \A x \in Files : files'[x] # NoFile => files[x] # NoFile
  <2>1. \A x \in Files : files[x] = NoFile => files[x].folder = NoOne
    BY DEF NoFile
  <2>2. q.ids \subseteq Folders
    BY DEF Types, Request
  <2>3. QED
    BY <2>1, <2>2, TopApart DEF trashFolder, restore
<1>4. ASSUME NEW x \in Files, files'[x] # NoFile, versions'[files'[x].current].scan = "infected"
      PROVE  \/ /\ files[x] # NoFile /\ versions[files[x].current].scan = "infected"
                /\ files'[x].trashed = files[x].trashed
             \/ files'[x].trashed = 0 /\ x \in rescued'
             \/ files'[x].trashed = stamp /\ (x \in rescued' \/ \A f \in Folders : folders'[f].trashed # stamp)
  <2>1. files[x] # NoFile /\ versions[files[x].current].scan = "infected"
    BY <1>0, <1>2, <1>3, <1>4
  <2>2. CASE files'[x] = files[x]
    BY <2>1, <2>2
  <2>3. CASE files'[x].trashed = stamp /\ files[x].trashed = 0
    <3>1. x \in rescued
      BY <2>1, <2>3 DEF Isolated, Contained, liveFile
    <3>2. QED
      BY <3>1, <2>3, <1>0
  <2>4. CASE files'[x].trashed = 0 /\ files[x].trashed = q.seen /\ q.step = "restore"
    <3>1. x \in rescued
      BY <2>1, <2>4 DEF Isolated, Quarantined
    <3>2. QED
      BY <3>1, <2>4, <1>0
  <2>5. QED
    BY <1>2, <2>2, <2>3, <2>4
<1>5. GoesOn(r)
  BY DEF GoesOn
<1>6. QED
  BY <1>0, <1>1, <1>4, <1>5, RestoresNext, IsolatedStep

\* A new version is not one the scan has decided on.
LEMMA IsolatedWritten ==
  ASSUME Types, Rows, Stamped, Makers, Isolated, \A p \in Requests : Knows(request[p]), NEW r \in Requests,
         CommitVersion(r) \/ copyFile(r)
  PROVE  Isolated'
<1> DEFINE q == request[r]
<1>0. UNCHANGED <<folders, rescued>>
  BY DEF CommitVersion, copyFile
<1>1. GoesOn(r)
  BY DEF GoesOn
<1>2. CASE UNCHANGED <<files, versions>>
  BY <1>0, <1>1, <1>2, RestoresNext, IsolatedStep
<1>3. CASE ~UNCHANGED <<files, versions>>
  <2>1. q.file \in Files /\ q.version \in Versions /\ q.step \in Unwritten
    BY DEF CommitVersion, copyFile, Knows, Unwritten
  <2>2. versions[q.version].file = NoOne
    BY <2>1 DEF Makers, NoVersion
  <2>3. /\ \A y \in Files \ {q.file} : files'[y] = files[y]
        /\ \A v \in Versions \ {q.version} : versions'[v] = versions[v]
    BY DEF CommitVersion, copyFile, Types
  <2>4. files'[q.file].current = q.version /\ versions'[q.version].scan # "infected"
    <3>1. CASE CommitVersion(r)
      <4> DEFINE new  == [folder |-> q.to, trashed |-> 0, current |-> q.version, count |-> 1, version |-> 1]
                 next == [files[q.file] EXCEPT !.current = q.version, !.count = @ + 1, !.version = @ + 1]
                 made == IF q.to # NoOne THEN new ELSE next
      <4>1. files' = [files EXCEPT ![q.file] = made]
            /\ versions' = [versions EXCEPT ![q.version] = [file |-> q.file, scan |-> "pending"]]
        BY <3>1, <1>3 DEF CommitVersion
      <4>2. new.current = q.version /\ next.current = q.version
        BY <2>1 DEF Types, File
      <4>3. made.current = q.version
        BY <4>2
      <4> HIDE DEF made
      <4>4. QED
        BY <4>1, <4>3, <2>1 DEF Types
    <3>2. CASE copyFile(r)
      <4>1. /\ files' = [files EXCEPT ![q.file] =
                  [folder |-> q.to, trashed |-> 0, current |-> q.version, count |-> 1, version |-> 1]]
            /\ versions' = [versions EXCEPT ![q.version] = [file |-> q.file, scan |-> "clean"]]
        BY <3>2, <1>3 DEF copyFile
      <4>2. QED
        BY <4>1, <2>1 DEF Types
    <3>3. QED
      BY <3>1, <3>2
  <2>5. ASSUME NEW x \in Files, files'[x] # NoFile, versions'[files'[x].current].scan = "infected"
        PROVE  /\ files[x] # NoFile /\ versions[files[x].current].scan = "infected"
               /\ files'[x].trashed = files[x].trashed
    <3>1. x # q.file /\ files'[x] = files[x]
      BY <2>3, <2>4, <2>5
    <3>2. files[x].current \in Versions /\ versions[files[x].current].file = x
      BY <3>1, <2>5, Absent DEF Types, File, Rows
    <3>3. files[x].current # q.version
      BY <3>2, <2>2, LibraryAssumption DEF LibraryAssumption
    <3>4. QED
      BY <3>1, <3>2, <3>3, <2>3, <2>5
  <2>6. QED
    BY <1>0, <1>1, <2>5, RestoresNext, IsolatedStep
<1>4. QED
  BY <1>2, <1>3

LEMMA IsolatedFiles ==
  ASSUME Types, Rows, Stamped, Isolated, \A p \in Requests : Knows(request[p]), NEW r \in Requests,
         updateFile(r) \/ trashFile(r) \/ restoreFile(r)
  PROVE  Isolated'
<1> DEFINE q == request[r]
           x == q.file
<1>0. UNCHANGED <<folders, versions>> /\ rescued \subseteq rescued' /\ x \in Files
  BY DEF updateFile, trashFile, restoreFile, history, Knows
<1>1. GoesOn(r)
  BY DEF GoesOn
<1>2. \A y \in Files \ {x} : files'[y] = files[y]
  BY DEF updateFile, trashFile, restoreFile, Types
<1>3. ASSUME files'[x] # NoFile, versions'[files'[x].current].scan = "infected"
      PROVE  \/ /\ files[x] # NoFile /\ versions[files[x].current].scan = "infected"
                /\ files'[x].trashed = files[x].trashed
             \/ files'[x].trashed = 0 /\ x \in rescued'
             \/ files'[x].trashed = stamp /\ \A f \in Folders : folders'[f].trashed # stamp
  <2>1. CASE UNCHANGED files
    BY <2>1, <1>0, <1>3
  <2>2. CASE updateFile(r) /\ ~UNCHANGED files
    <3>1. files[x] # NoFile /\ files' = [files EXCEPT ![x].folder = q.to, ![x].version = @ + 1]
      BY <2>2 DEF updateFile
    <3>2. files'[x].trashed = files[x].trashed /\ files'[x].current = files[x].current
      BY <3>1, <1>0 DEF Types, File
    <3>3. QED
      BY <3>1, <3>2, <1>0, <1>3
  <2>3. CASE trashFile(r) /\ ~UNCHANGED files
    <3>1. files'[x].trashed = stamp
      BY <2>3, <1>0 DEF trashFile, Types, File
    <3>2. \A f \in Folders : folders[f].trashed # stamp
      BY DEF Stamped, Types, Tree
    <3>3. QED
      BY <3>1, <3>2, <1>0
  <2>4. CASE restoreFile(r) /\ ~UNCHANGED files
    <3>1. /\ files[x] # NoFile /\ files' = [files EXCEPT ![x].trashed = 0, ![x].folder = q.to]
          /\ q.step = "restoreFile" /\ (files[x].trashed # q.seen => x \in rescued')
      BY <2>4 DEF restoreFile
    <3>2. files'[x].trashed = 0 /\ files'[x].current = files[x].current
      BY <3>1, <1>0 DEF Types, File
    <3>3. versions[files[x].current].scan = "infected"
      BY <3>2, <1>0, <1>3
    <3>4. files[x].trashed # q.seen
      BY <3>1, <3>3 DEF Isolated, Quarantined
    <3>5. QED
      BY <3>1, <3>2, <3>4
  <2>5. QED
    BY <2>1, <2>2, <2>3, <2>4
<1>4. QED
  BY <1>0, <1>1, <1>2, <1>3, RestoresNext, IsolatedStep

LEMMA IsolatedPurge ==
  ASSUME Types, Rows, Stamped, Isolated, \A p \in Requests : Knows(request[p]), NEW r \in Requests, purge(r)
  PROVE  Isolated'
<1> DEFINE q == request[r]
<1>0. UNCHANGED rescued /\ GoesOn(r)
  BY DEF purge, GoesOn
<1>1. CASE UNCHANGED rows
  BY <1>0, <1>1, RestoresNext, IsolatedStep DEF rows
<1>2. CASE ~UNCHANGED rows
  <2>1. /\ folders' = [f \in Folders |-> IF f \in q.ids THEN NoPlace ELSE folders[f]]
        /\ files' = [x \in Files |-> IF x \in q.doomed THEN NoFile ELSE files[x]]
        /\ versions' = [v \in Versions |-> IF versions[v].file \in q.doomed THEN NoVersion ELSE versions[v]]
    BY <1>2 DEF purge
  <2>2. \A f \in Folders : folders'[f].trashed \in {folders[f].trashed, 0}
    BY <2>1 DEF NoPlace
  <2>3. ASSUME NEW x \in Files, files'[x] # NoFile, versions'[files'[x].current].scan = "infected"
        PROVE  /\ files[x] # NoFile /\ versions[files[x].current].scan = "infected"
               /\ files'[x].trashed = files[x].trashed
    <3>1. files'[x] = files[x]
      BY <2>1, <2>3
    <3>2. files[x].current \in Versions
      BY <3>1, <2>3, Absent DEF Types, File
    <3>3. versions'[files[x].current] = versions[files[x].current]
      BY <2>1, <2>3, <3>1, <3>2 DEF NoVersion
    <3>4. QED
      BY <3>1, <3>3, <2>3
  <2>4. QED
    BY <1>0, <2>2, <2>3, RestoresNext, IsolatedStep
<1>3. QED
  BY <1>1, <1>2

LEMMA GoesOnIsolated ==
  ASSUME Types, Rows, Stamped, Makers, Isolated, \A p \in Requests : Knows(request[p]), NEW r \in Requests,
         GoesOn(r) \/ Die(r)
  PROVE  Isolated'
BY IsolatedElsewhere, IsolatedFolders, IsolatedWritten, IsolatedFiles, IsolatedPurge DEF GoesOn

LEMMA OpensIsolated ==
  ASSUME Types, Rows, Isolated, NEW r \in Requests, NEW n, Opens(r, n)
  PROVE  Isolated'
<1>0. UNCHANGED <<folders, files, versions, rescued>> /\ Reads(n)
  BY DEF Opens, rows, history
<1>1. \A p \in Requests : request'[p] = IF p = r THEN n ELSE request[p]
  BY DEF Opens, Types
<1>2. Contained'
  BY <1>0 DEF Isolated, Contained, liveFile
<1>3. ASSUME NEW x \in Files, files[x] # NoFile, versions[files[x].current].scan = "infected", x \notin rescued
      PROVE  /\ \A f \in Folders : folders[f].trashed # files[x].trashed
             /\ \A p \in Requests : request'[p].step = "restore" => request'[p].seen # files[x].trashed
  <2>1. /\ \A f \in Folders : folders[f].trashed # files[x].trashed
        /\ \A p \in Requests : request[p].step = "restore" => request[p].seen # files[x].trashed
    BY <1>3 DEF Isolated, Quarantined
  <2>2. n.step = "restore" => n.seen # files[x].trashed
    BY <1>0, <2>1 DEF Reads
  <2>3. QED
    BY <1>1, <2>1, <2>2
<1>4. ASSUME NEW p \in Requests, request'[p].step = "restoreFile", files[request'[p].file] # NoFile,
             files[request'[p].file].trashed = request'[p].seen
      PROVE  versions[files[request'[p].file].current].scan # "infected"
  <2>1. CASE p = r
    BY <2>1, <1>0, <1>1, <1>4 DEF Reads
  <2>2. CASE p # r
    BY <2>2, <1>1, <1>4 DEF Isolated, Quarantined
  <2>3. QED
    BY <2>1, <2>2
<1>5. Quarantined'
  BY <1>0, <1>3, <1>4 DEF Quarantined
<1>6. QED
  BY <1>2, <1>5 DEF Isolated

\* What the scan takes for malware goes to the trash at a moment of its own.
LEMMA ScanIsolated ==
  ASSUME Types, Rows, Stamped, Isolated, \A p \in Requests : Knows(request[p]), NEW v \in Versions,
         Scans(v) \/ ScanFails(v)
  PROVE  Isolated'
<1>0. UNCHANGED <<folders, request, rescued>>
  BY DEF Scans, ScanStart, Pass, DeleteInfected, Quarantine, ScanFails, rows, history
<1>1. \A f \in Folders : folders[f].trashed # stamp
  BY DEF Stamped, Types, Tree
<1>2. \A w \in Versions \ {v} : versions'[w] = versions[w]
  BY DEF Scans, ScanStart, Pass, DeleteInfected, Quarantine, ScanFails, rows, Types
<1>3. CASE UNCHANGED files /\ ~Quarantine(v)
  <2>1. versions'[v].scan = "infected" => versions[v].scan = "infected"
    BY <1>3 DEF Scans, ScanStart, Pass, DeleteInfected, ScanFails, rows, Types, Version
  <2>2. ASSUME NEW x \in Files, files'[x] # NoFile, versions'[files'[x].current].scan = "infected"
        PROVE  /\ files[x] # NoFile /\ versions[files[x].current].scan = "infected"
               /\ files'[x].trashed = files[x].trashed
    <3>1. files[x].current \in Versions
      BY <1>3, <2>2, Absent DEF Types, File
    <3>2. QED
      BY <1>2, <1>3, <2>1, <2>2, <3>1
  <2>3. QED
    BY <1>0, <2>2, IsolatedStep
<1>4. CASE Quarantine(v)
  <2> DEFINE y == versions[v].file
  <2>1. CASE versions[v] = NoVersion
    <3>1. UNCHANGED <<files, versions>>
      BY <1>4, <2>1 DEF Quarantine
    <3>2. QED
      BY <1>0, <3>1, IsolatedStep
  <2>2. CASE versions[v] # NoVersion
    <3>1. y \in Files /\ files' = IF files[y].current = v THEN [files EXCEPT ![y].trashed = stamp] ELSE files
      BY <1>4, <2>2, Absent DEF Quarantine, Types, Version
    <3>2. \A x \in Files : /\ files'[x].current = files[x].current
                           /\ files'[x] = files[x] \/ (x = y /\ files'[x].trashed = stamp)
                           /\ x = y /\ files[x].current = v => files'[x].trashed = stamp
      <4>1. CASE files[y].current = v
        BY <3>1, <4>1 DEF Types, File
      <4>2. CASE files[y].current # v
        BY <3>1, <4>2
      <4>3. QED
        BY <4>1, <4>2
    <3>3. ASSUME NEW x \in Files, files'[x] # NoFile, versions'[files'[x].current].scan = "infected"
          PROVE  \/ /\ files[x] # NoFile /\ versions[files[x].current].scan = "infected"
                    /\ files'[x].trashed = files[x].trashed
                 \/ files'[x].trashed = stamp
      <4>1. CASE files'[x] = files[x] /\ files[x].current # v
        <5>1. files[x].current \in Versions
          BY <3>3, <4>1, Absent DEF Types, File
        <5>2. QED
          BY <3>3, <4>1, <5>1, <1>2
      <4>2. CASE files'[x] = files[x] /\ files[x].current = v
        <5>1. y = x
          BY <3>3, <4>2 DEF Rows
        <5>2. QED
          BY <3>2, <4>2, <5>1
      <4>3. CASE files'[x] # files[x]
        BY <3>2, <3>3, <4>3
      <4>4. QED
        BY <4>1, <4>2, <4>3
    <3>4. QED
      BY <1>0, <1>1, <3>3, IsolatedStep
  <2>3. QED
    BY <2>1, <2>2
<1>5. QED
  BY <1>3, <1>4 DEF Scans, ScanStart, Pass, DeleteInfected, ScanFails, rows

-----------------------------------------------------------------------------
(* Every step keeps the invariant *)

LibraryInv == LBase /\ TreeInv /\ Makers /\ Keys /\ Jobs /\ Stocked /\ Accounted /\ Isolated

LEMMA InitStore == Init => Makers /\ Keys /\ Jobs /\ Stocked /\ Accounted /\ Isolated
<1> SUFFICES ASSUME Init PROVE Makers /\ Keys /\ Jobs /\ Stocked /\ Accounted /\ Isolated
  OBVIOUS
<1>0. Types /\ Rows
  BY InitTypes
<1>1. \A r \in Requests : request[r] = Idle
  BY DEF Init
<1>2. Idle.step = "idle" /\ Idle.keys = {}
  BY DEF Idle
<1>3. /\ objects = {v \in Versions : versions[v] # NoVersion} /\ bad = {}
      /\ job = [v \in Versions |-> IF v \in objects THEN "done" ELSE "none"]
  BY DEF Init
<1>4. \A v \in Versions : versions[v] # NoVersion => versions[v].scan = "clean"
  BY DEF Init
<1>5. Makers
  BY <1>1, <1>2 DEF Makers, Making, Unwritten
<1>6. Keys /\ Jobs
  BY <1>1, <1>2, <1>3 DEF Keys, Jobs
<1>7. Stocked /\ Accounted
  BY <1>3, <1>4 DEF Stocked, Accounted
<1>8. \A x \in Files : files[x] # NoFile => versions[files[x].current].scan # "infected"
  <2>1. \A x \in Files : files[x] # NoFile => files[x].current \in Versions /\ versions[files[x].current].file = x
    BY <1>0, Absent DEF Types, File, Rows
  <2>2. \A x \in Files : files[x] # NoFile => versions[files[x].current] # NoVersion
    BY <2>1, LibraryAssumption DEF LibraryAssumption, NoVersion
  <2>3. QED
    BY <2>1, <2>2, <1>4
<1>9. Isolated
  BY <1>1, <1>2, <1>8 DEF Isolated, Quarantined, Contained, liveFile
<1>10. QED
  BY <1>5, <1>6, <1>7, <1>9

LEMMA LibraryInit == Init => LibraryInv
BY InitTypes, InitKnows, InitGivenStamped, InitTree, InitStore DEF LibraryInv, LBase

LEMMA LibraryStep == LibraryInv /\ [Next]_vars => LibraryInv'
<1> SUFFICES ASSUME LibraryInv, [Next]_vars PROVE LibraryInv'
  OBVIOUS
<1>0. /\ Types /\ Rows /\ Given /\ Stamped /\ TreeInv /\ Makers /\ Keys /\ Jobs /\ Stocked /\ Accounted /\ Isolated
      /\ Books /\ \A p \in Requests : Knows(request[p])
  BY DEF LibraryInv, LBase, Books
<1>1. ASSUME NEW r \in Requests, Starts(r) PROVE LibraryInv'
  <2>1. PICK n : Opens(r, n)
    BY <1>0, <1>1, StartOpens
  <2>2. Types' /\ Rows' /\ Given' /\ Stamped' /\ TreeInv' /\ Isolated'
    BY <1>0, <2>1, OpensTypes, OpensRows, OpensGiven, OpensStamped, OpensTree, OpensIsolated
  <2>3. Makers' /\ Keys' /\ Jobs' /\ Stocked' /\ Accounted'
    BY <1>0, <2>1, OpensBooks
  <2>4. (\A p \in Requests : Knows(request[p]))'
    BY <1>0, <2>1, KnowsStep
  <2>5. QED
    BY <2>2, <2>3, <2>4 DEF LibraryInv, LBase
<1>2. ASSUME NEW r \in Requests, GoesOn(r) \/ Die(r) PROVE LibraryInv'
  <2>1. Types'
    BY <1>0, <1>2, GoesOnTypes
  <2>2. Rows' /\ Given' /\ Stamped'
    BY <1>0, <1>2, <2>1, GoesOnRows, GoesOnGiven, GoesOnStamped
  <2>3. TreeInv' /\ Isolated'
    BY <1>0, <1>2, <2>1, GoesOnTree, GoesOnIsolated
  <2>4. Makers' /\ Keys' /\ Jobs' /\ Stocked' /\ Accounted'
    BY <1>0, <1>2, GoesOnBooks
  <2>5. (\A p \in Requests : Knows(request[p]))'
    BY <1>0, <1>2, KnowsStep
  <2>6. QED
    BY <2>1, <2>2, <2>3, <2>4, <2>5 DEF LibraryInv, LBase
<1>3. ASSUME NEW v \in Versions, Scans(v) \/ ScanFails(v) PROVE LibraryInv'
  <2>1. Types'
    BY <1>0, <1>3, ScanTypes
  <2>2. Rows' /\ Given' /\ Stamped'
    BY <1>0, <1>3, <2>1, ScanRows, ScanGiven, ScanStamped
  <2>3. TreeInv' /\ Isolated'
    BY <1>0, <1>3, <2>1, ScanTree, ScanIsolated
  <2>4. Makers' /\ Keys' /\ Jobs' /\ Stocked' /\ Accounted'
    BY <1>0, <1>3, ScanBooks
  <2>5. (\A p \in Requests : Knows(request[p]))'
    BY <1>0, <1>3 DEF Scans, ScanStart, Pass, DeleteInfected, Quarantine, ScanFails
  <2>6. QED
    BY <2>1, <2>2, <2>3, <2>4, <2>5 DEF LibraryInv, LBase
<1>4. CASE UNCHANGED vars
  <2>1. /\ UNCHANGED <<folders, files, versions, objects, bad, job, request, stamp, used, left>>
        /\ UNCHANGED <<plan, faults, stale, rescued, leaked>>
    BY <1>4 DEF vars, rows, budget, history
  <2>2. Types' /\ Rows' /\ Given' /\ Stamped'
    BY <1>0, <2>1 DEF Types, Rows, Given, Stamped
  <2>3. (\A p \in Requests : Knows(request[p]))'
    BY <1>0, <2>1
  <2>4. TreeInv'
    BY <1>0, <2>1, TreeUnchanged
  <2>5. Makers' /\ Keys' /\ Jobs'
    BY <1>0, <2>1 DEF Makers, Keys, Jobs
  <2>6. Stocked' /\ Accounted' /\ Isolated'
    BY <1>0, <2>1 DEF Stocked, Accounted, InHand, Isolated, Quarantined, Contained, liveFile
  <2>7. QED
    BY <2>2, <2>3, <2>4, <2>5, <2>6 DEF LibraryInv, LBase
<1>5. QED
  BY <1>1, <1>2, <1>3, <1>4 DEF Next

LEMMA LibrarySafe == Spec => []LibraryInv
BY LibraryInit, LibraryStep, PTL DEF Spec

\* Every variable has its type and every row refers to rows that are there, for
\* all folders, files, versions, requests and plans: the foreign keys and the
\* types the tables declare (schema.ts).
THEOREM TypeCorrect == Spec => []TypeOK
<1>1. LibraryInv => TypeOK
  <2> SUFFICES ASSUME LibraryInv PROVE TypeOK
    OBVIOUS
  <2>0. Types /\ Rows
    BY DEF LibraryInv, LBase
  <2>1. \A f \in Folders : folders[f] = NoPlace \/ folders[f] \in [parent : Places, trashed : Nat, version : Nat]
    BY <2>0, Absent DEF Types, Tree
  <2>2. \A x \in Files :
          files[x] = NoFile \/ files[x] \in [folder : Places, trashed : Nat, current : Versions, count : Nat, version : Nat]
    BY <2>0, Absent DEF Types, File
  <2>3. \A v \in Versions :
          versions[v] = NoVersion \/ versions[v] \in [file : Files, scan : {"pending", "clean", "infected", "error"}]
    BY <2>0, Absent DEF Types, Version
  <2>4. \A r \in Requests : DOMAIN request[r] = DOMAIN Idle
    BY <2>0 DEF Types, Request, Idle
  <2>5. QED
    BY <2>0, <2>1, <2>2, <2>3, <2>4 DEF TypeOK, Types, Rows
<1>2. QED
  BY <1>1, LibrarySafe, PTL

\* What is live hangs from live folders up to the root, and no folder is above
\* itself, as long as nothing is written from an index that others made out of
\* date: for every tree there is at the start, and any moves, deletions and
\* restorations (updateFolder, trashFolder, restore and the purges of files.service.ts).
THEOREM TreeIsSound == Spec => []TreeSound
<1>1. LibraryInv => TreeSound
  BY DEF LibraryInv, TreeInv, Reachable, TreeSound
<1>2. QED
  BY <1>1, LibrarySafe, PTL

\* Rows and objects agree, whatever requests, scans, purges and faults overlap:
\* a good version keeps its object, malware is never passed as clean, what has
\* no row is being removed or was left by a fault, and a file whose current
\* version is malware is in the trash unless a restoration overlapped with its scan.
THEOREM RowsAndObjectsAgree == Spec => []StoreAgrees
<1>1. LibraryInv => StoreAgrees
  BY StoreParts DEF LibraryInv, Isolated
<1>2. QED
  BY <1>1, LibrarySafe, PTL
=============================================================================
