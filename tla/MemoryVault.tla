--------------------------- MODULE MemoryVault ---------------------------
(***************************************************************************)
(* The notes of one vault and their three homes: the file, the SQLite row  *)
(* that readers are served from, and the git history that undo works on.   *)
(*                                                                         *)
(* MemoryStore.write goes through them one after the other and may die     *)
(* between any two; revert leaves everything to git.  Both hold the write  *)
(* lock of their process, of which there may be several.  Other modules    *)
(* keep their files in the same repository and share its index, without a  *)
(* lock: the PM documents and the user profiles, which are committed, and  *)
(* the backlog's items, which nobody commits unless a sprint takes them.   *)
(*                                                                         *)
(* A text is the set of its lines.  Of git the model has the index, the    *)
(* unmerged entries, and what `git commit` and `git revert` do to them.  A *)
(* git command is one step: where two meet, git's locks refuse one.        *)
(***************************************************************************)
EXTENDS Naturals, Sequences

CONSTANTS
    Notes,       \* memory/<note>, served from SQLite
    Docs,        \* playbook, RAID log, sprints, status reports, profiles; which is which is left open
    Items,       \* backlog/<item>
    Lines,       \* the lines that texts may differ in
    DocLines,    \* those of documents and items
    Body,        \* the lines that all texts have in common
    Marker,      \* the line git puts around a conflict
    Writers,     \* as many writes may be under way at once
    Processes,   \* each with a MemoryStore, and a write lock, of its own
    MaxCommits, MaxWrites   \* bounds on the history, and on what is written

Files == Notes \union Docs \union Items
Text  == {{Body} \union c : c \in SUBSET Lines}  \* what a client may write
NoLock == 0                        \* what a write holds that takes no lock
Absent == {}                       \* no file, no row, no entry
Content == SUBSET (Lines \union {Body, Marker})

ASSUME FilesAssumption  ==
    /\ Notes # {} /\ "none" \notin Files
    /\ Notes \intersect (Docs \union Items) = {} /\ Docs \intersect Items = {}
ASSUME LinesAssumption  == DocLines \subseteq Lines /\ Marker \notin Lines \union {Body}
ASSUME ProcessesAssumption == NoLock \notin Processes
ASSUME BoundAssumption  == MaxCommits \in Nat \ {0} /\ MaxWrites \in Nat

VARIABLES
    disk,       \* disk[f]: the file in the working tree
    db,         \* db[n]: notes.content
    index,      \* index[f]: what is staged
    unmerged,   \* the files the index has conflict entries for
    history,    \* history[k][f]: the tree of the k-th commit
    writes,     \* how many writes there have been
    write,      \* write[w]: the write in hand
    receipt,    \* observer: the commit id handed out last, and what for, until the next write
    settled     \* observer: notes nothing went wrong with since their last write

repo == <<disk, index, unmerged, history>>
vars == <<disk, db, index, unmerged, history, writes, write, receipt, settled>>

Tip     == history[Len(history)]
Tracked == {f \in Files : index[f] # Absent}
Changed(k) == {f \in Files : history[k][f] # history[k - 1][f]}

\* crossed is an observer: another process has been at the same note meanwhile.
Writing(f, c, s, is, p, x) ==
    [file |-> f, text |-> c, step |-> s, items |-> is, todo |-> is, lock |-> p, crossed |-> x]
NoWrite == Writing("none", Absent, "none", {}, NoLock, FALSE)

Init ==
    /\ disk     = [f \in Files |-> Absent]
    /\ db       = [n \in Notes |-> Absent]
    /\ index    = [f \in Files |-> Absent]
    /\ unmerged = {}
    /\ history  = <<[f \in Files |-> Absent]>>    \* "chore: init memaix vault"
    /\ writes   = 0
    /\ write    = [w \in Writers |-> NoWrite]
    /\ receipt  = {}
    /\ settled  = {}

------------------------------------------------------------------------
(* Reading *)

\* memory_read and memory_list: the row, whatever the file says.
Reads(n) == db[n]

\* memory_search: the search rows are rewritten with the row.
Found(l) == {n \in Notes : l \in Reads(n)}

\* memory_history: the commits that changed the file, the first one of the vault aside.
HistoryOf(f) == {k \in 2..Len(history) : f \in Changed(k)}

------------------------------------------------------------------------
(* Writing a note, or another file *)

Counted == writes < MaxWrites /\ writes' = writes + 1

\* Writer v is at a note among fs, in another process than p.
Meets(v, fs, p) == write[v].file \in fs \intersect Notes /\ write[v].lock # p

Crossed(fs, p) ==
    [v \in Writers |-> IF Meets(v, fs, p) THEN [write[v] EXCEPT !.crossed = TRUE] ELSE write[v]]

\* The file comes first; nobody sees a write that has not got so far.
Begin(w, f, c, step, items, p) ==
    /\ write[w].step = "none" /\ Counted
    /\ disk' = [disk EXCEPT ![f] = c]
    /\ write' = [Crossed({f}, p) EXCEPT ![w] =
                    Writing(f, c, step, items, p, \E v \in Writers : Meets(v, {f}, p))]
    /\ settled' = settled \ {f}
    /\ receipt' = {}
    /\ UNCHANGED <<db, index, unmerged, history>>

\* Nobody in process p holds its write lock.
Free(p) == \A w \in Writers : write[w].lock # p

BeginNoteMutant(w, n, c) == \E p \in Processes : Begin(w, n, c, "db", {}, p)

\* MemoryStore.write, which is in hand until it gives the lock back.
BeginNote(w, n, c) == \E p \in Processes : Free(p) /\ Begin(w, n, c, "db", {}, p)

BeginDoc(w, d, c, step, items) == Begin(w, d, c, step, items, NoLock)

\* memory_write and memory_set_status: the whole text is replaced.
WriteNote(w, n, c) == BeginNote(w, n, c)

AppendFileMutant(w, n, l) == BeginNote(w, n, disk[n] \union {Body, l})

\* memory_append: the text readers are served, and one line more.  Who read it earlier,
\* before it had the lock, does the same as WriteNote.
AppendNote(w, n, l) == BeginNote(w, n, Reads(n) \union {Body, l})

\* A file with new frontmatter and the body it had, a conflict's markers included.
Restamped(f, ls) == (disk[f] \ Lines) \union {Body} \union ls

\* pm_set_methodology: the playbook's frontmatter.
SetMethodology(w, d, l) == BeginDoc(w, d, Restamped(d, {l}), "add", {})

\* pm_status_report quotes a note, as readers are served it.
StatusReport(w, d, n) == BeginDoc(w, d, {Body} \union Reads(n), "add", {})

\* pm_raid_add: the log as the file has it - a conflict's markers too - and one entry more.
RaidAdd(w, d, l) == BeginDoc(w, d, disk[d] \union {Body, l}, "add", {})

\* A sprint of items that there are no files for is refused.
Collected(is) == \A i \in is : disk[i] # Absent

\* pm_plan_sprint: the sprint's file, then the sprint is stamped on each of its items.
PlanSprint(w, d, l, is) ==
    /\ Collected(is)
    /\ BeginDoc(w, d, {Body, l}, IF is = {} THEN "add" ELSE "stamp", is)

\* An item whose file is gone by now is passed over, and not staged.
Stamp(w, i) ==
    /\ write[w].step = "stamp" /\ i \in write[w].todo
    /\ disk' = IF disk[i] = Absent THEN disk
               ELSE [disk EXCEPT ![i] = Restamped(i, write[w].text)]
    /\ write' = [write EXCEPT ![w] = [@ EXCEPT
          !.todo = write[w].todo \ {i},
          !.items = IF disk[i] = Absent THEN write[w].items \ {i} ELSE write[w].items,
          !.step = IF write[w].todo = {i} THEN "add" ELSE "stamp"]]
    /\ UNCHANGED <<db, index, unmerged, history, writes, receipt, settled>>

\* backlog_add, backlog_set_status and the board write an item's file and leave it at that.
EditItem(i, ls) ==
    /\ Counted
    /\ disk' = [disk EXCEPT ![i] = Restamped(i, ls)]
    /\ UNCHANGED <<db, index, unmerged, history, write, receipt, settled>>

\* complete_onboarding writes a profile.
CompleteOnboarding(w, d, c) == BeginDoc(w, d, c, "sweep", {})

Goes(w, s, t) == write[w].step = s /\ write' = [write EXCEPT ![w] = [@ EXCEPT !.step = t]]

\* leaves a row that is there alone
WriteDbMutant(w) ==
    /\ Goes(w, "db", "add")
    /\ db' = IF db[write[w].file] = Absent
             THEN [db EXCEPT ![write[w].file] = write[w].text] ELSE db
    /\ UNCHANGED <<repo, writes, receipt, settled>>

\* INSERT ... ON CONFLICT DO UPDATE, with the search rows, in one transaction.
WriteDb(w) ==
    /\ Goes(w, "db", "add")
    /\ db' = [db EXCEPT ![write[w].file] = write[w].text]
    /\ UNCHANGED <<repo, writes, receipt, settled>>

Staged(w) == {write[w].file} \union write[w].items

\* git add -- <files>: they are staged and any conflict of theirs is over.  It fails if
\* one is neither there nor known to git.
GitAdd(w) ==
    /\ Goes(w, "add", "commit")
    /\ \A f \in Staged(w) : ~(disk[f] = Absent /\ index[f] = Absent)
    /\ index' = [f \in Files |-> IF f \in Staged(w) THEN disk[f] ELSE index[f]]
    /\ unmerged' = unmerged \ Staged(w)
    /\ UNCHANGED <<disk, db, history, writes, receipt, settled>>

\* git add -A: every change in the working tree is staged, and every conflict counts as
\* solved.
Sweep(w) ==
    /\ Goes(w, "sweep", "commit")
    /\ index' = disk /\ unmerged' = {}
    /\ UNCHANGED <<disk, db, history, writes, receipt, settled>>

\* git commit records all that is staged, not only this file.  With nothing
\* staged it is a no-op, unless another tracked file is dirty: git then says "no
\* changes added to commit", which _is_empty_commit does not know.
GitCommit(w) ==
    /\ write[w].step = "commit"
    /\ unmerged = {}
    /\ \/ /\ index # Tip
          /\ Len(history) < MaxCommits
          /\ history' = Append(history, index)
       \/ /\ index = Tip
          /\ \A f \in Tracked : disk[f] = index[f]
          /\ UNCHANGED history
    /\ write' = [write EXCEPT ![w] = IF @.file \in Notes THEN [@ EXCEPT !.step = "head"] ELSE NoWrite]
    /\ UNCHANGED <<disk, db, index, unmerged, writes, receipt, settled>>

\* A write of a note returns with the id of the commit that HEAD is at by now, whose
\* ever it is.
Return(w) ==
    /\ write[w].step = "head"
    /\ write' = [write EXCEPT ![w] = NoWrite]
    /\ receipt' = {[file |-> write[w].file, text |-> write[w].text, id |-> Len(history),
                    crossed |-> write[w].crossed]}
    /\ settled' = IF write[w].crossed THEN settled ELSE settled \union {write[w].file}
    /\ UNCHANGED <<repo, db, writes>>

\* The commit is refused: GitError goes to the caller, and file, row and index
\* stay as they are.
CommitRefused(w) ==
    /\ write[w].step = "commit"
    /\ \/ unmerged # {}
       \/ index = Tip /\ \E f \in Tracked : disk[f] # index[f]
    /\ write' = [write EXCEPT ![w] = NoWrite]
    /\ UNCHANGED <<repo, db, writes, receipt, settled>>

\* A step of a write raises, or the process dies, which is that for each of its writes.
Crash(w) ==
    /\ write[w].step # "none"
    /\ write' = [write EXCEPT ![w] = NoWrite]
    /\ UNCHANGED <<repo, db, writes, receipt, settled>>

------------------------------------------------------------------------
(* Undo *)

\* What git makes of file f when commit k is taken back from HEAD: the lines k
\* put in go, the lines k took out come back.
TakenBack(f, k) ==
    (Tip[f] \ (history[k][f] \ history[k - 1][f]))
        \union (history[k - 1][f] \ history[k][f])

\* Files of k that HEAD has changed since, and those of them git cannot merge: one
\* side does not have the file.  The others it may merge or not, by how close the
\* lines are to each other.
Since(k)    == {f \in Changed(k) : Tip[f] \notin {history[k][f], history[k - 1][f]}}
Hopeless(k) == {f \in Since(k) :
                  Absent \in {Tip[f], history[k][f], history[k - 1][f]}}

\* git revert refuses staged changes, and dirty files it would have to touch.
MayRevert(k) ==
    /\ unmerged = {}
    /\ index = Tip
    /\ \A f \in Changed(k) : Tip[f] # history[k - 1][f] => disk[f] = index[f]

\* What a file git gave up on is left as: both sides between markers, or the one
\* side there is.
HalfMerged(f, k) ==
    LET sides == {Tip[f], history[k - 1][f]} IN
    (UNION sides) \union (IF Absent \in sides THEN {} ELSE {Marker})

Reverted(k) == [f \in Files |-> IF f \in Changed(k) THEN TakenBack(f, k) ELSE Tip[f]]

\* MemoryStore.revert in process p, under the write lock: a new commit, and the files as
\* in it; the rows that readers are served stay as they are.
Revert(p, k) ==
    /\ Free(p) /\ MayRevert(k)
    /\ Hopeless(k) = {}
    /\ Reverted(k) # Tip
    /\ Len(history) < MaxCommits
    /\ history' = Append(history, Reverted(k))
    /\ index' = Reverted(k)
    /\ disk' = [f \in Files |-> IF Reverted(k)[f] = Tip[f] THEN disk[f] ELSE Reverted(k)[f]]
    /\ settled' = settled \ Changed(k)
    /\ write' = Crossed(Changed(k), p)
    /\ UNCHANGED <<db, unmerged, writes, receipt>>

\* On a conflict git stops half way and revert raises: the files it could merge
\* are staged, the others unmerged and full of markers, until someone deals with
\* them.
RevertConflicts(p, k) ==
    /\ Free(p) /\ MayRevert(k)
    /\ \E stuck \in SUBSET Since(k) :
         /\ stuck # {} /\ Hopeless(k) \subseteq stuck
         /\ unmerged' = stuck
         /\ index' = [f \in Files |-> IF f \in stuck THEN Tip[f] ELSE Reverted(k)[f]]
         /\ disk' = [f \in Files |->
                       IF f \in stuck THEN HalfMerged(f, k)
                       ELSE IF Reverted(k)[f] = Tip[f] THEN disk[f]
                       ELSE Reverted(k)[f]]
    /\ settled' = settled \ Changed(k)
    /\ write' = Crossed(Changed(k), p)
    /\ UNCHANGED <<db, history, writes, receipt>>

Starts(w) ==
    \/ \E n \in Notes, c \in Text : WriteNote(w, n, c)
    \/ \E n \in Notes, l \in Lines : AppendNote(w, n, l)
    \/ \E d \in Docs, l \in DocLines : SetMethodology(w, d, l) \/ RaidAdd(w, d, l)
    \/ \E d \in Docs, n \in Notes : StatusReport(w, d, n)
    \/ \E d \in Docs, l \in DocLines, is \in SUBSET Items : PlanSprint(w, d, l, is)
    \/ \E d \in Docs, l \in DocLines : CompleteOnboarding(w, d, {Body, l})

WriteStep(w) ==
    \/ \E i \in Items : Stamp(w, i)
    \/ WriteDb(w) \/ GitAdd(w) \/ Sweep(w) \/ GitCommit(w) \/ Return(w) \/ CommitRefused(w)

Undo == \E p \in Processes, f \in Files : \E k \in HistoryOf(f) : Revert(p, k) \/ RevertConflicts(p, k)

Next ==
    \/ \E w \in Writers : Starts(w) \/ WriteStep(w) \/ Crash(w)
    \/ \E i \in Items, ls \in SUBSET DocLines : EditItem(i, ls)
    \/ Undo

Spec == Init /\ [][Next]_vars

------------------------------------------------------------------------
(* What must hold *)

WriteType == [file : Files \union {"none"}, text : Content,
              step : {"none", "db", "stamp", "add", "sweep", "commit", "head"},
              items : SUBSET Items, todo : SUBSET Items,
              lock : Processes \union {NoLock}, crossed : BOOLEAN]

\* Every variable keeps to its type: an id handed out is that of a commit there is.
TypeOK ==
    /\ disk     \in [Files -> Content]
    /\ db       \in [Notes -> Content]
    /\ index    \in [Files -> Content]
    /\ unmerged \subseteq Files
    /\ history  \in Seq([Files -> Content]) /\ Len(history) > 0
    /\ writes   \in 0..MaxWrites
    /\ write    \in [Writers -> WriteType]
    /\ receipt \subseteq [file : Notes, text : Content, id : 1..Len(history), crossed : BOOLEAN]
    /\ settled  \subseteq Notes

\* The id memory_write hands back is one at which the note has the text that was
\* written, unless another process was at the same note meanwhile: through commits of
\* other files in the same index, before it and in between, undos of other notes, no-op
\* writes, leftovers of crashed or refused writes that are committed along, half-finished
\* undos and sweeps by onboarding.
SnapshotHoldsText == \A r \in receipt : ~r.crossed => history[r.id][r.file] = r.text

\* Trouble with one note stays with it: as long as nothing has gone wrong with a
\* note since its last write, and no other process was at it during that, file, row,
\* index and HEAD agree on it, whatever crashes, refusals and conflicts its neighbours
\* in the repository have had, and whoever else commits.
SettledAgree ==
    \A n \in settled :
        /\ disk[n] = db[n] /\ index[n] = db[n] /\ Tip[n] = db[n]
        /\ n \notin unmerged

\* Git's conflict markers never reach who reads or searches, nor a later version of a note.
ReadersSeeNoMarkers == Found(Marker) = {}

------------------------------------------------------------------------
(* Why it holds: every step keeps IInv (MemoryVaultProofs) *)

\* The four homes of a note agree.
Quiet(n) ==
    /\ disk[n] = db[n] /\ index[n] = db[n] /\ Tip[n] = db[n]
    /\ n \notin unmerged

\* Two writes that hold locks hold different ones, and at one note each knows of the other.
LocksInv ==
    /\ \A w \in Writers : write[w].lock # NoLock <=> write[w].file \in Notes
    /\ \A v, w \in Writers : v # w /\ write[v].file \in Notes =>
          /\ write[v].lock # write[w].lock
          /\ write[v].file = write[w].file => write[v].crossed

\* What the steps of a write have done so far is still so, unless it was crossed: those
\* who take no lock write and take back other files.
StepsInv(x) ==
    /\ disk[x.file] = x.text
    /\ x.step \in {"add", "commit", "head"} => db[x.file] = x.text
    /\ x.step \in {"commit", "head"} => index[x.file] = x.text /\ x.file \notin unmerged
    /\ x.step = "head" => Tip[x.file] = x.text

WriteInv(x) ==
    /\ x.step # "none" => x.file \in Files \ Items
    /\ x.step \in {"db", "head"} => x.file \in Notes
    /\ x.step \in {"stamp", "sweep"} => x.file \notin Notes
    /\ x.file \notin settled
    /\ x.file \in Notes => x.step # "none" /\ Marker \notin x.text
    /\ x.file \in Notes /\ ~x.crossed => StepsInv(x)

\* Inductive.
IInv ==
    /\ TypeOK
    /\ LocksInv
    /\ \A w \in Writers : WriteInv(write[w])
    /\ SnapshotHoldsText
    /\ ReadersSeeNoMarkers
    /\ \A n \in settled : Quiet(n)

=============================================================================
