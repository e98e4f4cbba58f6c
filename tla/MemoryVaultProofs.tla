----------------------- MODULE MemoryVaultProofs -----------------------
(***************************************************************************)
(* Proofs about the vault, for any number of notes, documents and items,   *)
(* any lines, and whatever the bounds on commits and writes; and about the *)
(* syncs with Nextcloud, for any cards, copies and runs.                   *)
(***************************************************************************)
EXTENDS MemoryVault, CloudSync, FiniteSetTheorems, TLAPS

LEMMA TextIsContent ==
  /\ Text \subseteq Content /\ Absent \in Content
  /\ \A c \in Text : Marker \notin c
  /\ \A d \in Docs \union Items : d \notin Notes
  /\ Docs \subseteq Files \ Items /\ Notes \subseteq Files \ Items
  /\ "none" \notin Files /\ NoLock \notin Processes
  BY FilesAssumption, LinesAssumption, ProcessesAssumption DEF Text, Content, Absent, Files

\* A commit that is appended is the last one, and those before it stay.
LEMMA Appended ==
  ASSUME NEW S, NEW h \in Seq(S), NEW e \in S
  PROVE  /\ Append(h, e) \in Seq(S) /\ Len(Append(h, e)) = Len(h) + 1
         /\ Len(h) \in Nat
         /\ \A k \in 1..Len(h) : Append(h, e)[k] = h[k]
         /\ Append(h, e)[Len(h) + 1] = e
  OBVIOUS

------------------------------------------------------------------------
(* The inductive invariant, part by part.  What each part is about:         *)
(* receipt and history; the notes' rows; the settled notes; the writes.     *)

\* Commits are only added, so that what an id has been handed out for stays there.
LEMMA ReceiptKept ==
  ASSUME TypeOK, SnapshotHoldsText, UNCHANGED receipt,
         \/ UNCHANGED history
         \/ \E t \in [Files -> Content] : history' = Append(history, t)
  PROVE  /\ SnapshotHoldsText'
         /\ history' \in Seq([Files -> Content]) /\ Len(history') > 0
         /\ receipt' \subseteq [file : Notes, text : Content, id : 1..Len(history'), crossed : BOOLEAN]
  <1>1. CASE UNCHANGED history
    BY <1>1 DEF TypeOK, SnapshotHoldsText
  <1>2. CASE \E t \in [Files -> Content] : history' = Append(history, t)
    <2>1. PICK t \in [Files -> Content] : history' = Append(history, t)
      BY <1>2
    <2>2. /\ history' \in Seq([Files -> Content]) /\ Len(history') = Len(history) + 1
          /\ Len(history) \in Nat /\ \A k \in 1..Len(history) : history'[k] = history[k]
      BY <2>1, Appended DEF TypeOK
    <2>3. SnapshotHoldsText'
      <3> SUFFICES ASSUME NEW r \in receipt, ~r.crossed PROVE history'[r.id][r.file] = r.text
        BY DEF SnapshotHoldsText
      <3>1. r.id \in 1..Len(history) /\ history[r.id][r.file] = r.text
        BY DEF TypeOK, SnapshotHoldsText
      <3> QED
        BY <2>2, <3>1
    <2>4. 1..Len(history) \subseteq 1..Len(history')
      BY <2>2
    <2>5. receipt' \subseteq [file : Notes, text : Content, id : 1..Len(history'), crossed : BOOLEAN]
      <3> SUFFICES ASSUME NEW r \in receipt
                   PROVE  r \in [file : Notes, text : Content, id : 1..Len(history'), crossed : BOOLEAN]
        OBVIOUS
      <3> QED
        BY <2>4 DEF TypeOK
    <2> QED
      BY <2>2, <2>3, <2>5
  <1> QED
    BY <1>1, <1>2

\* Rows that did not change have no markers.
LEMMA RowsKept ==
  ASSUME ReadersSeeNoMarkers, UNCHANGED db
  PROVE  ReadersSeeNoMarkers'
  BY DEF ReadersSeeNoMarkers, Found, Reads

\* Who has nothing in hand holds no lock and is at no note.
LEMMA NoWriteIs ==
  /\ NoWrite \in WriteType /\ NoWrite.step = "none" /\ NoWrite.file = "none"
  /\ NoWrite.file \notin Notes /\ NoWrite.lock = NoLock
  BY TextIsContent DEF NoWrite, Writing, WriteType, Files

\* A writer that goes on or is done holds its lock or gives it back.
LEMMA LocksKept ==
  ASSUME IInv, NEW w \in Writers, NEW x \in WriteType,
         write' = [write EXCEPT ![w] = x],
         \/ x = NoWrite
         \/ x.file = write[w].file /\ x.lock = write[w].lock /\ x.crossed = write[w].crossed
  PROVE  LocksInv' /\ write' \in [Writers -> WriteType]
  <1>1. /\ write' \in [Writers -> WriteType] /\ write'[w] = x
        /\ \A v \in Writers \ {w} : write'[v] = write[v]
    BY DEF IInv, TypeOK
  <1>2. ASSUME NEW v \in Writers
        PROVE  \/ write'[v].file = "none" /\ write'[v].lock = NoLock
               \/ /\ write'[v].file = write[v].file /\ write'[v].lock = write[v].lock
                  /\ write'[v].crossed = write[v].crossed
    BY <1>1, NoWriteIs
  <1>3. \A v \in Writers : write'[v].lock # NoLock <=> write'[v].file \in Notes
    BY <1>2, TextIsContent DEF IInv, LocksInv
  <1>4. ASSUME NEW u \in Writers, NEW v \in Writers, u # v, write'[u].file \in Notes
        PROVE  /\ write'[u].lock # write'[v].lock
               /\ write'[u].file = write'[v].file => write'[u].crossed
    <2>1. /\ write'[u].file = write[u].file /\ write'[u].lock = write[u].lock
          /\ write'[u].crossed = write[u].crossed
      BY <1>2, <1>4, TextIsContent
    <2>2. CASE write'[v].file = "none" /\ write'[v].lock = NoLock
      BY <1>3, <1>4, <2>2, TextIsContent
    <2>3. CASE write'[v].file = write[v].file /\ write'[v].lock = write[v].lock
      BY <1>4, <2>1, <2>3 DEF IInv, LocksInv
    <2> QED
      BY <1>2, <2>2, <2>3
  <1> QED
    BY <1>1, <1>3, <1>4 DEF LocksInv

\* A write that others leave alone: what it has done is still so.
LEMMA OtherKept ==
  ASSUME NEW v \in Writers, WriteInv(write[v]), write'[v] = write[v],
         write[v].file \notin settled',
         write[v].file \in Notes /\ ~write[v].crossed /\ StepsInv(write[v]) => StepsInv(write[v])'
  PROVE  WriteInv(write[v])'
  BY DEF WriteInv

\* Two writers are at one note only if both are crossed.
LEMMA Apart ==
  ASSUME IInv, NEW v \in Writers, NEW w \in Writers, v # w,
         write[v].file \in Notes, ~write[v].crossed \/ ~write[w].crossed
  PROVE  write[v].file # write[w].file
  BY DEF IInv, LocksInv

\* Nothing in hand: nothing to keep to.
LEMMA IdleFits ==
  ASSUME NEW w \in Writers, write'[w] = NoWrite, settled' \subseteq Notes
  PROVE  WriteInv(write[w])'
  BY NoWriteIs, TextIsContent DEF WriteInv, Files

------------------------------------------------------------------------
(* The steps *)

LEMMA CrossedIs ==
  ASSUME TypeOK, NEW fs, NEW p
  PROVE  /\ Crossed(fs, p) \in [Writers -> WriteType]
         /\ \A v \in Writers :
               /\ Crossed(fs, p)[v].file = write[v].file /\ Crossed(fs, p)[v].text = write[v].text
               /\ Crossed(fs, p)[v].step = write[v].step /\ Crossed(fs, p)[v].lock = write[v].lock
               /\ Crossed(fs, p)[v].crossed <=> write[v].crossed \/ Meets(v, fs, p)
  <1> SUFFICES ASSUME NEW v \in Writers
               PROVE  /\ Crossed(fs, p)[v] \in WriteType
                      /\ Crossed(fs, p)[v].file = write[v].file /\ Crossed(fs, p)[v].text = write[v].text
                      /\ Crossed(fs, p)[v].step = write[v].step /\ Crossed(fs, p)[v].lock = write[v].lock
                      /\ Crossed(fs, p)[v].crossed <=> write[v].crossed \/ Meets(v, fs, p)
    BY DEF Crossed
  <1>1. write[v] \in WriteType
    BY DEF TypeOK
  <1>2. CASE Meets(v, fs, p)
    <2>1. Crossed(fs, p)[v] = [write[v] EXCEPT !.crossed = TRUE]
      BY <1>2 DEF Crossed
    <2> QED
      BY <1>1, <1>2, <2>1 DEF WriteType
  <1>3. CASE ~Meets(v, fs, p)
    <2>1. Crossed(fs, p)[v] = write[v]
      BY <1>3 DEF Crossed
    <2> QED
      BY <1>1, <1>3, <2>1
  <1> QED
    BY <1>2, <1>3

\* A write begins: of a note with a text that has no markers, under a lock that is free, or
\* of another file that is not an item.  Who is at the same note is in another process, and
\* both are crossed.
LEMMA BeginKeeps ==
  ASSUME IInv, NEW w \in Writers, NEW f \in Files \ Items, NEW c \in Content,
         NEW s \in {"db", "stamp", "add", "sweep"}, NEW is \in SUBSET Items,
         NEW p \in Processes \union {NoLock}, Begin(w, f, c, s, is, p),
         f \in Notes => Marker \notin c /\ s = "db" /\ p # NoLock /\ Free(p),
         f \notin Notes => s # "db" /\ p = NoLock
  PROVE  IInv'
  <1> DEFINE x == Writing(f, c, s, is, p, \E v \in Writers : Meets(v, {f}, p))
  <1>1. /\ write[w].step = "none" /\ write' = [Crossed({f}, p) EXCEPT ![w] = x]
        /\ disk' = [disk EXCEPT ![f] = c]
        /\ settled' = settled \ {f} /\ receipt' = {}
        /\ UNCHANGED <<db, index, unmerged, history>>
        /\ writes < MaxWrites /\ writes' = writes + 1
    BY DEF Begin, Counted
  <1>2. /\ x \in WriteType /\ x.file = f /\ x.text = c /\ x.step = s /\ x.lock = p
        /\ x.crossed <=> \E v \in Writers : Meets(v, {f}, p)
    BY DEF Writing, WriteType
  <1> HIDE DEF x
  <1>3. /\ write' \in [Writers -> WriteType] /\ write'[w] = x
        /\ \A v \in Writers \ {w} :
              /\ write'[v].file = write[v].file /\ write'[v].text = write[v].text
              /\ write'[v].step = write[v].step /\ write'[v].lock = write[v].lock
              /\ write'[v].crossed <=> write[v].crossed \/ Meets(v, {f}, p)
    BY <1>1, <1>2, CrossedIs DEF IInv
  <1>4. TypeOK'
    <2>1. writes' \in 0..MaxWrites
      BY <1>1, BoundAssumption DEF IInv, TypeOK
    <2>2. disk' \in [Files -> Content] /\ settled' \subseteq Notes
      BY <1>1 DEF IInv, TypeOK
    <2> QED
      BY <1>1, <1>3, <2>1, <2>2 DEF IInv, TypeOK
  <1>5. ASSUME NEW v \in Writers, write[v].file = f, f \in Notes PROVE v # w /\ Meets(v, {f}, p)
    BY <1>1, <1>5 DEF IInv, WriteInv, Meets, Free
  <1>6. LocksInv'
    <2>1. \A v \in Writers : write'[v].lock # NoLock <=> write'[v].file \in Notes
      BY <1>2, <1>3 DEF IInv, LocksInv
    <2>2. ASSUME NEW u \in Writers, NEW v \in Writers, u # v, write'[u].file \in Notes
          PROVE  /\ write'[u].lock # write'[v].lock
                 /\ write'[u].file = write'[v].file => write'[u].crossed
      <3>1. CASE u = w
        BY <1>2, <1>3, <1>5, <2>2, <3>1 DEF Free
      <3>2. CASE v = w
        BY <1>2, <1>3, <1>5, <2>1, <2>2, <3>2 DEF Free
      <3>3. CASE u # w /\ v # w
        BY <1>3, <2>2, <3>3 DEF IInv, LocksInv
      <3> QED
        BY <3>1, <3>2, <3>3
    <2> QED
      BY <2>1, <2>2 DEF LocksInv
  <1>7. ASSUME NEW v \in Writers PROVE WriteInv(write[v])'
    <2>1. CASE v = w
      BY <1>1, <1>2, <1>3, <2>1 DEF IInv, TypeOK, WriteInv, StepsInv
    <2>2. CASE v # w
      <3>1. WriteInv(write[v])
        BY DEF IInv
      <3>2. ASSUME write'[v].file \in Notes, ~write'[v].crossed PROVE StepsInv(write[v])'
        <4>1. write[v].file \in Notes /\ ~write[v].crossed /\ write[v].file # f
          BY <1>3, <1>5, <2>2, <3>2
        <4>2. StepsInv(write[v]) /\ disk'[write[v].file] = disk[write[v].file]
          BY <1>1, <3>1, <4>1, TextIsContent DEF IInv, TypeOK, WriteInv
        <4> QED
          BY <1>1, <1>3, <2>2, <4>2 DEF StepsInv, Tip
      <3> QED
        BY <1>1, <1>3, <2>2, <3>1, <3>2 DEF WriteInv
    <2> QED
      BY <2>1, <2>2
  <1>8. SnapshotHoldsText' /\ ReadersSeeNoMarkers'
    BY <1>1, RowsKept DEF IInv, SnapshotHoldsText
  <1>9. \A n \in settled' : Quiet(n)'
    BY <1>1 DEF IInv, TypeOK, Quiet, Tip
  <1> QED
    BY <1>4, <1>6, <1>7, <1>8, <1>9 DEF IInv

\* Stamping an item changes no note, and the file that is being written is none.
LEMMA StampKeeps ==
  ASSUME IInv, NEW w \in Writers, NEW i \in Items, Stamp(w, i)
  PROVE  IInv'
  <1> DEFINE x == [write[w] EXCEPT
          !.todo = write[w].todo \ {i},
          !.items = IF disk[i] = Absent THEN write[w].items \ {i} ELSE write[w].items,
          !.step = IF write[w].todo = {i} THEN "add" ELSE "stamp"]
  <1>1. /\ write[w].step = "stamp"
        /\ write' = [write EXCEPT ![w] = x]
        /\ disk' = IF disk[i] = Absent THEN disk
                   ELSE [disk EXCEPT ![i] = Restamped(i, write[w].text)]
        /\ UNCHANGED <<db, index, unmerged, history, writes, receipt, settled>>
    BY DEF Stamp
  <1>2. write[w] \in WriteType /\ write[w].file \in Files \ Items /\ write[w].file \notin Notes
    BY <1>1 DEF IInv, TypeOK, WriteInv
  <1>3. /\ x \in WriteType /\ x.file = write[w].file /\ x.lock = write[w].lock
        /\ x.crossed = write[w].crossed /\ x.step \in {"add", "stamp"}
    BY <1>2 DEF WriteType
  <1> HIDE DEF x
  <1>4. i \in Files /\ i \notin Notes /\ Restamped(i, write[w].text) \in Content
    BY <1>2, TextIsContent DEF IInv, TypeOK, WriteType, Restamped, Content, Files
  <1>5. /\ disk' \in [Files -> Content] /\ \A n \in Notes : disk'[n] = disk[n]
    BY <1>1, <1>4 DEF IInv, TypeOK
  <1>6. LocksInv' /\ write' \in [Writers -> WriteType]
    BY <1>1, <1>3, LocksKept
  <1>7. TypeOK'
    BY <1>1, <1>5, <1>6 DEF IInv, TypeOK
  <1>8. ASSUME NEW v \in Writers PROVE WriteInv(write[v])'
    <2>1. CASE v = w
      <3>1. write'[v] = x
        BY <1>1, <2>1 DEF IInv, TypeOK
      <3> QED
        BY <1>1, <1>2, <1>3, <2>1, <3>1 DEF IInv, TypeOK, WriteInv
    <2>2. CASE v # w
      <3>1. write'[v] = write[v] /\ WriteInv(write[v])
        BY <1>1, <2>2 DEF IInv, TypeOK
      <3>2. write[v].file \in Notes /\ StepsInv(write[v]) => StepsInv(write[v])'
        BY <1>1, <1>5, <3>1 DEF StepsInv, Tip
      <3>3. write[v].file \notin settled'
        BY <1>1, <3>1 DEF WriteInv
      <3> QED
        BY <3>1, <3>2, <3>3, OtherKept
    <2> QED
      BY <2>1, <2>2
  <1>9. SnapshotHoldsText' /\ ReadersSeeNoMarkers'
    BY <1>1, ReceiptKept, RowsKept DEF IInv
  <1>10. \A n \in settled' : Quiet(n)'
    BY <1>1, <1>5 DEF IInv, TypeOK, Quiet, Tip
  <1> QED
    BY <1>6, <1>7, <1>8, <1>9, <1>10 DEF IInv

\* A writer takes its next step.
LEMMA GoesIs ==
  ASSUME IInv, NEW w \in Writers,
         NEW s \in {"db", "add", "sweep"}, NEW t \in {"add", "commit"}, Goes(w, s, t)
  PROVE  /\ write[w].step = s /\ write[w] \in WriteType
         /\ write'[w] = [write[w] EXCEPT !.step = t] /\ write'[w] \in WriteType
         /\ write'[w].step = t /\ write'[w].file = write[w].file /\ write'[w].text = write[w].text
         /\ write'[w].crossed = write[w].crossed
         /\ \A v \in Writers \ {w} : write'[v] = write[v]
         /\ LocksInv' /\ write' \in [Writers -> WriteType]
         /\ write[w].file \in Files \ Items /\ write[w].file \notin settled
  <1> DEFINE x == [write[w] EXCEPT !.step = t]
  <1>1. write[w].step = s /\ write[w] \in WriteType /\ write' = [write EXCEPT ![w] = x]
    BY DEF Goes, IInv, TypeOK
  <1>2. /\ x \in WriteType /\ x.file = write[w].file /\ x.lock = write[w].lock
        /\ x.crossed = write[w].crossed /\ x.step = t /\ x.text = write[w].text
    BY <1>1 DEF WriteType
  <1>3. write[w].file \in Files \ Items /\ write[w].file \notin settled
    BY <1>1 DEF IInv, WriteInv
  <1>4. write'[w] = x /\ \A v \in Writers \ {w} : write'[v] = write[v]
    BY <1>1 DEF IInv, TypeOK
  <1> HIDE DEF x
  <1>5. LocksInv' /\ write' \in [Writers -> WriteType]
    BY <1>1, <1>2, LocksKept
  <1> QED
    BY <1>1, <1>2, <1>3, <1>4, <1>5 DEF x

\* The row gets the text, which has no markers.
LEMMA WriteDbKeeps ==
  ASSUME IInv, NEW w \in Writers, WriteDb(w)
  PROVE  IInv'
  <1>1. /\ Goes(w, "db", "add")
        /\ db' = [db EXCEPT ![write[w].file] = write[w].text]
        /\ UNCHANGED <<disk, index, unmerged, history, writes, receipt, settled>>
    BY DEF WriteDb, repo
  <1>2. /\ write[w].step = "db" /\ write[w].text \in Content
        /\ write'[w].step = "add" /\ write'[w].file = write[w].file /\ write'[w].text = write[w].text
        /\ write'[w].crossed = write[w].crossed
        /\ \A v \in Writers \ {w} : write'[v] = write[v]
        /\ LocksInv' /\ write' \in [Writers -> WriteType]
        /\ write[w].file \in Files \ Items /\ write[w].file \notin settled
    BY <1>1, GoesIs DEF WriteType
  <1>3. write[w].file \in Notes /\ Marker \notin write[w].text /\ WriteInv(write[w])
    BY <1>2 DEF IInv, WriteInv
  <1>4. TypeOK'
    BY <1>1, <1>2, <1>3 DEF IInv, TypeOK
  <1>5. ASSUME NEW v \in Writers PROVE WriteInv(write[v])'
    <2>1. CASE v = w
      <3>1. ~write[w].crossed => disk[write[w].file] = write[w].text /\ db'[write[w].file] = write[w].text
        BY <1>1, <1>3 DEF IInv, TypeOK, WriteInv, StepsInv
      <3> QED
        BY <1>1, <1>2, <1>3, <2>1, <3>1 DEF WriteInv, StepsInv
    <2>2. CASE v # w
      <3>1. write'[v] = write[v] /\ WriteInv(write[v]) /\ write[v].file \notin settled'
        BY <1>1, <1>2, <2>2 DEF IInv, WriteInv
      <3>2. write[v].file \in Notes /\ ~write[v].crossed => db'[write[v].file] = db[write[v].file]
        BY <1>1, <1>3, <2>2, Apart DEF IInv, TypeOK
      <3>3. write[v].file \in Notes /\ ~write[v].crossed /\ StepsInv(write[v]) => StepsInv(write[v])'
        BY <1>1, <3>1, <3>2 DEF StepsInv, Tip
      <3> QED
        BY <3>1, <3>3, OtherKept
    <2> QED
      BY <2>1, <2>2
  <1>6. SnapshotHoldsText'
    BY <1>1, ReceiptKept DEF IInv
  <1>7. ReadersSeeNoMarkers'
    BY <1>1, <1>3 DEF IInv, TypeOK, ReadersSeeNoMarkers, Found, Reads
  <1>8. \A n \in settled' : Quiet(n)'
    BY <1>1, <1>2, <1>3 DEF IInv, TypeOK, Quiet, Tip
  <1> QED
    BY <1>2, <1>4, <1>5, <1>6, <1>7, <1>8 DEF IInv

\* What is staged, of this write or of all files, is what the files say; it is so of a
\* settled note anyway, and of what another write has staged.
LEMMA StagingKeeps ==
  ASSUME IInv, NEW w \in Writers, GitAdd(w) \/ Sweep(w)
  PROVE  IInv'
  <1>1. PICK staged \in SUBSET Files, s \in {"add", "sweep"} :
        /\ Goes(w, s, "commit") /\ (s = "add" => write[w].file \in staged)
        /\ index' = [f \in Files |-> IF f \in staged THEN disk[f] ELSE index[f]]
        /\ unmerged' = unmerged \ staged
        /\ UNCHANGED <<disk, db, history, writes, receipt, settled>>
    <2>1. CASE GitAdd(w)
      <3>1. write[w].file \in Files /\ write[w].items \subseteq Files
        BY <2>1, GoesIs DEF GitAdd, WriteType, Files
      <3>2. Staged(w) \in SUBSET Files /\ write[w].file \in Staged(w)
        BY <3>1 DEF Staged
      <3> QED
        BY <2>1, <3>2 DEF GitAdd
    <2>2. CASE Sweep(w)
      <3>1. /\ index' = [f \in Files |-> IF f \in Files THEN disk[f] ELSE index[f]]
            /\ unmerged' = unmerged \ Files
        BY <2>2 DEF Sweep, IInv, TypeOK
      <3> QED
        BY <2>2, <3>1 DEF Sweep
    <2> QED
      BY <2>1, <2>2
  <1>2. /\ write[w].step = s
        /\ write'[w].step = "commit" /\ write'[w].file = write[w].file /\ write'[w].text = write[w].text
        /\ write'[w].crossed = write[w].crossed
        /\ \A v \in Writers \ {w} : write'[v] = write[v]
        /\ LocksInv' /\ write' \in [Writers -> WriteType]
        /\ write[w].file \in Files \ Items /\ write[w].file \notin settled
    BY <1>1, GoesIs
  <1>3. TypeOK'
    BY <1>1, <1>2 DEF IInv, TypeOK
  <1>4. ASSUME NEW v \in Writers PROVE WriteInv(write[v])'
    <2>1. CASE v = w
      <3>1. WriteInv(write[w])
        BY DEF IInv
      <3>2. s = "sweep" => write[w].file \notin Notes
        BY <1>2, <3>1 DEF WriteInv
      <3>3. write[w].file \in Notes /\ ~write[w].crossed =>
              /\ disk[write[w].file] = write[w].text /\ db[write[w].file] = write[w].text
              /\ index'[write[w].file] = write[w].text /\ write[w].file \notin unmerged'
        BY <1>1, <1>2, <3>1, <3>2 DEF WriteInv, StepsInv
      <3> QED
        BY <1>1, <1>2, <2>1, <3>1, <3>3 DEF WriteInv, StepsInv
    <2>2. CASE v # w
      <3>1. write'[v] = write[v] /\ WriteInv(write[v]) /\ write[v].file \notin settled'
        BY <1>1, <1>2, <2>2 DEF IInv, WriteInv
      <3>2. write[v].file \in Notes /\ StepsInv(write[v]) => StepsInv(write[v])'
        BY <1>1, <3>1, TextIsContent DEF StepsInv, Tip
      <3> QED
        BY <3>1, <3>2, OtherKept
    <2> QED
      BY <2>1, <2>2
  <1>5. SnapshotHoldsText' /\ ReadersSeeNoMarkers'
    BY <1>1, ReceiptKept, RowsKept DEF IInv
  <1>6. \A n \in settled' : Quiet(n)'
    BY <1>1, TextIsContent DEF IInv, TypeOK, Quiet, Tip
  <1> QED
    BY <1>2, <1>3, <1>4, <1>5, <1>6 DEF IInv

\* The commit at HEAD has what is staged, be it new or there already.
LEMMA GitCommitKeeps ==
  ASSUME IInv, NEW w \in Writers, GitCommit(w)
  PROVE  IInv'
  <1> DEFINE x == IF write[w].file \in Notes THEN [write[w] EXCEPT !.step = "head"] ELSE NoWrite
  <1>1. /\ write[w].step = "commit" /\ write' = [write EXCEPT ![w] = x]
        /\ UNCHANGED <<disk, db, index, unmerged, writes, receipt, settled>>
        /\ \/ history' = Append(history, index)
           \/ history' = history /\ index = Tip
    BY DEF GitCommit
  <1>2. write[w] \in WriteType /\ WriteInv(write[w])
    BY DEF IInv, TypeOK
  <1>3. /\ x \in WriteType
        /\ \/ x = NoWrite
           \/ /\ x.file = write[w].file /\ x.lock = write[w].lock /\ x.crossed = write[w].crossed
              /\ x.file \in Notes /\ x.step = "head" /\ x.text = write[w].text
    BY <1>2, NoWriteIs DEF WriteType
  <1>4. write'[w] = x /\ \A v \in Writers \ {w} : write'[v] = write[v]
    BY <1>1 DEF IInv, TypeOK
  <1> HIDE DEF x
  <1>5. Tip' = index
    BY <1>1, Appended DEF IInv, TypeOK, Tip
  <1>6. LocksInv' /\ write' \in [Writers -> WriteType]
    BY <1>1, <1>3, LocksKept
  <1>7. /\ SnapshotHoldsText' /\ ReadersSeeNoMarkers'
        /\ history' \in Seq([Files -> Content]) /\ Len(history') > 0
        /\ receipt' \subseteq [file : Notes, text : Content, id : 1..Len(history'), crossed : BOOLEAN]
    <2>1. index \in [Files -> Content]
      BY DEF IInv, TypeOK
    <2> QED
      BY <1>1, <2>1, ReceiptKept, RowsKept DEF IInv
  <1>8. TypeOK'
    BY <1>1, <1>6, <1>7 DEF IInv, TypeOK
  <1>9. ASSUME NEW v \in Writers PROVE WriteInv(write[v])'
    <2>1. CASE v = w /\ x = NoWrite
      <3>1. settled' \subseteq Notes
        BY <1>1 DEF IInv, TypeOK
      <3> QED
        BY <1>4, <2>1, <3>1, IdleFits
    <2>2. CASE v = w /\ x # NoWrite
      <3>1. ~write[w].crossed => StepsInv(write[w])
        BY <1>2, <1>3, <2>2 DEF WriteInv
      <3>2. ~write[w].crossed => StepsInv(write[w])'
        BY <1>1, <1>3, <1>4, <1>5, <2>2, <3>1 DEF StepsInv
      <3> QED
        BY <1>1, <1>2, <1>3, <1>4, <2>2, <3>2 DEF WriteInv
    <2>3. CASE v # w
      <3>1. write'[v] = write[v] /\ WriteInv(write[v]) /\ write[v].file \notin settled'
        BY <1>1, <1>4, <2>3 DEF IInv, WriteInv
      <3>2. StepsInv(write[v]) => StepsInv(write[v])'
        BY <1>1, <1>5, <3>1 DEF StepsInv
      <3> QED
        BY <3>1, <3>2, OtherKept
    <2> QED
      BY <2>1, <2>2, <2>3
  <1>10. \A n \in settled' : Quiet(n)'
    BY <1>1, <1>5 DEF IInv, Quiet
  <1> QED
    BY <1>6, <1>7, <1>8, <1>9, <1>10 DEF IInv

\* A write of a note that was not crossed returns: the commit at HEAD has its text, and
\* nobody else is at the note.
LEMMA ReturnKeeps ==
  ASSUME IInv, NEW w \in Writers, Return(w)
  PROVE  IInv'
  <1>1. /\ write[w].step = "head" /\ write' = [write EXCEPT ![w] = NoWrite]
        /\ receipt' = {[file |-> write[w].file, text |-> write[w].text, id |-> Len(history),
                        crossed |-> write[w].crossed]}
        /\ settled' = IF write[w].crossed THEN settled ELSE settled \union {write[w].file}
        /\ UNCHANGED <<disk, db, index, unmerged, history, writes>>
    BY DEF Return, repo
  <1>2. /\ write[w] \in WriteType /\ write[w].file \in Notes
        /\ ~write[w].crossed => StepsInv(write[w])
    BY <1>1 DEF IInv, TypeOK, WriteInv
  <1>3. write'[w] = NoWrite /\ \A v \in Writers \ {w} : write'[v] = write[v]
    BY <1>1 DEF IInv, TypeOK
  <1>4. LocksInv' /\ write' \in [Writers -> WriteType]
    BY <1>1, NoWriteIs, LocksKept
  <1>5. Len(history) \in Nat /\ Len(history) \in 1..Len(history) /\ settled' \subseteq Notes
    BY <1>1, <1>2 DEF IInv, TypeOK
  <1>6. TypeOK'
    <2>1. receipt' \subseteq [file : Notes, text : Content, id : 1..Len(history), crossed : BOOLEAN]
      BY <1>1, <1>2, <1>5 DEF WriteType
    <2> QED
      BY <1>1, <1>4, <1>5, <2>1 DEF IInv, TypeOK
  <1>7. ASSUME NEW v \in Writers PROVE WriteInv(write[v])'
    <2>1. CASE v = w
      BY <1>3, <1>5, <2>1, IdleFits
    <2>2. CASE v # w
      <3>1. write'[v] = write[v] /\ WriteInv(write[v])
        BY <1>3, <2>2 DEF IInv
      <3>2. ~write[w].crossed => write[v].file # write[w].file
        BY <1>2, <2>2, Apart
      <3>3. write[v].file \notin settled'
        BY <1>1, <3>1, <3>2 DEF WriteInv
      <3>4. StepsInv(write[v]) => StepsInv(write[v])'
        BY <1>1, <3>1 DEF StepsInv, Tip
      <3> QED
        BY <3>1, <3>3, <3>4, OtherKept
    <2> QED
      BY <2>1, <2>2
  <1>8. SnapshotHoldsText' /\ ReadersSeeNoMarkers'
    BY <1>1, <1>2, RowsKept DEF IInv, SnapshotHoldsText, StepsInv, Tip
  <1>9. \A n \in settled' : Quiet(n)'
    BY <1>1, <1>2 DEF IInv, Quiet, StepsInv, Tip
  <1> QED
    BY <1>4, <1>6, <1>7, <1>8, <1>9 DEF IInv

\* A refused commit and a crash leave everything but the write.
LEMMA StopsKeep ==
  ASSUME IInv, NEW w \in Writers, CommitRefused(w) \/ Crash(w)
  PROVE  IInv'
  <1>1. /\ write' = [write EXCEPT ![w] = NoWrite]
        /\ UNCHANGED <<disk, index, unmerged, history, db, writes, receipt, settled>>
    BY DEF CommitRefused, Crash, repo
  <1>2. write'[w] = NoWrite /\ \A v \in Writers \ {w} : write'[v] = write[v]
    BY <1>1 DEF IInv, TypeOK
  <1>3. LocksInv' /\ write' \in [Writers -> WriteType]
    BY <1>1, NoWriteIs, LocksKept
  <1>4. TypeOK'
    BY <1>1, <1>3 DEF IInv, TypeOK
  <1>5. ASSUME NEW v \in Writers PROVE WriteInv(write[v])'
    <2>1. CASE v = w
      <3>1. settled' \subseteq Notes
        BY <1>1 DEF IInv, TypeOK
      <3> QED
        BY <1>2, <2>1, <3>1, IdleFits
    <2>2. CASE v # w
      BY <1>1, <1>2, <2>2 DEF IInv, WriteInv, StepsInv, Tip
    <2> QED
      BY <2>1, <2>2
  <1>6. SnapshotHoldsText' /\ ReadersSeeNoMarkers'
    BY <1>1, ReceiptKept, RowsKept DEF IInv
  <1>7. \A n \in settled' : Quiet(n)'
    BY <1>1 DEF IInv, Quiet, Tip
  <1> QED
    BY <1>3, <1>4, <1>5, <1>6, <1>7 DEF IInv

\* The board's edits change no note.
LEMMA EditItemKeeps ==
  ASSUME IInv, NEW i \in Items, NEW ls \in SUBSET DocLines, EditItem(i, ls)
  PROVE  IInv'
  <1>1. /\ writes < MaxWrites /\ writes' = writes + 1
        /\ disk' = [disk EXCEPT ![i] = Restamped(i, ls)]
        /\ UNCHANGED <<db, index, unmerged, history, write, receipt, settled>>
    BY DEF EditItem, Counted
  <1>2. i \in Files /\ i \notin Notes /\ Restamped(i, ls) \in Content
    BY TextIsContent, LinesAssumption DEF IInv, TypeOK, Restamped, Content, Files
  <1>3. TypeOK'
    BY <1>1, <1>2, BoundAssumption DEF IInv, TypeOK
  <1>4. LocksInv' /\ \A v \in Writers : WriteInv(write[v])'
    <2>1. LocksInv'
      BY <1>1 DEF IInv, LocksInv
    <2>2. \A n \in Notes : disk'[n] = disk[n]
      BY <1>1, <1>2 DEF IInv, TypeOK
    <2> QED
      BY <1>1, <2>1, <2>2 DEF IInv, WriteInv, StepsInv, Tip
  <1>5. SnapshotHoldsText' /\ ReadersSeeNoMarkers'
    BY <1>1, ReceiptKept, RowsKept DEF IInv
  <1>6. \A n \in settled' : Quiet(n)'
    BY <1>1, <1>2 DEF IInv, TypeOK, Quiet, Tip
  <1> QED
    BY <1>3, <1>4, <1>5, <1>6 DEF IInv

\* What git makes of the files when a commit is taken back.
LEMMA RevertedTyped ==
  ASSUME TypeOK, NEW f \in Files, NEW k \in HistoryOf(f)
  PROVE  /\ k \in 2..Len(history) /\ history[k] \in [Files -> Content] /\ history[k - 1] \in [Files -> Content]
         /\ Tip \in [Files -> Content] /\ Reverted(k) \in [Files -> Content]
         /\ \A g \in Files \ Changed(k) : Reverted(k)[g] = Tip[g]
         /\ \A g \in Files : HalfMerged(g, k) \in Content
  <1>1. /\ k \in 2..Len(history) /\ Len(history) \in Nat /\ Len(history) > 0
        /\ \A j \in 1..Len(history) : history[j] \in [Files -> Content]
    BY DEF HistoryOf, TypeOK
  <1>2. k \in 1..Len(history) /\ k - 1 \in 1..Len(history) /\ Len(history) \in 1..Len(history)
    BY <1>1
  <1>3. history[k] \in [Files -> Content] /\ history[k - 1] \in [Files -> Content] /\ Tip \in [Files -> Content]
    BY <1>1, <1>2 DEF Tip
  <1>4. \A g \in Files : TakenBack(g, k) \in Content
    BY <1>3 DEF TakenBack, Content
  <1>5. Reverted(k) \in [Files -> Content] /\ \A g \in Files \ Changed(k) : Reverted(k)[g] = Tip[g]
    BY <1>3, <1>4 DEF Reverted
  <1>6. \A g \in Files : HalfMerged(g, k) \in Content
    <2> SUFFICES ASSUME NEW g \in Files PROVE HalfMerged(g, k) \in Content
      OBVIOUS
    <2>1. Tip[g] \subseteq Lines \union {Body, Marker}
      BY <1>3 DEF Content
    <2>2. history[k - 1][g] \subseteq Lines \union {Body, Marker}
      BY <1>3 DEF Content
    <2>3. ASSUME NEW x \in HalfMerged(g, k)
          PROVE  x \in Tip[g] \/ x \in history[k - 1][g] \/ x = Marker
      BY DEF HalfMerged
    <2>4. HalfMerged(g, k) \subseteq Lines \union {Body, Marker}
      BY <2>1, <2>2, <2>3
    <2> QED
      BY <2>4 DEF Content
  <1> QED
    BY <1>1, <1>3, <1>5, <1>6

\* An undo touches the files of the commit it takes back, and no row.
LEMMA RevertKeeps ==
  ASSUME IInv, NEW p, NEW f \in Files, NEW k \in HistoryOf(f),
         Revert(p, k) \/ RevertConflicts(p, k)
  PROVE  IInv'
  <1>0. /\ k \in 2..Len(history) /\ Tip \in [Files -> Content] /\ Reverted(k) \in [Files -> Content]
        /\ \A g \in Files \ Changed(k) : Reverted(k)[g] = Tip[g]
        /\ \A g \in Files : HalfMerged(g, k) \in Content
    BY RevertedTyped DEF IInv
  <1>1. /\ Free(p) /\ index = Tip /\ unmerged = {} /\ write' = Crossed(Changed(k), p)
        /\ settled' = settled \ Changed(k) /\ UNCHANGED <<db, writes, receipt>>
    BY DEF Revert, RevertConflicts, MayRevert
  <1>2. /\ history' = history \/ history' = Append(history, Reverted(k))
        /\ disk' \in [Files -> Content] /\ index' \in [Files -> Content] /\ unmerged' \subseteq Files
        /\ \A g \in Files \ Changed(k) :
              disk'[g] = disk[g] /\ index'[g] = Tip[g] /\ Tip'[g] = Tip[g] /\ g \notin unmerged'
    <2>1. CASE Revert(p, k)
      <3>1. /\ history' = Append(history, Reverted(k)) /\ index' = Reverted(k) /\ unmerged' = unmerged
            /\ disk' = [g \in Files |-> IF Reverted(k)[g] = Tip[g] THEN disk[g] ELSE Reverted(k)[g]]
        BY <2>1 DEF Revert
      <3>2. Tip' = Reverted(k)
        BY <1>0, <3>1, Appended DEF IInv, TypeOK, Tip
      <3>3. disk' \in [Files -> Content]
        BY <1>0, <3>1 DEF IInv, TypeOK
      <3> QED
        BY <1>0, <1>1, <3>1, <3>2, <3>3
    <2>2. CASE RevertConflicts(p, k)
      <3>1. PICK stuck \in SUBSET Since(k) :
              /\ unmerged' = stuck
              /\ index' = [g \in Files |-> IF g \in stuck THEN Tip[g] ELSE Reverted(k)[g]]
              /\ disk' = [g \in Files |-> IF g \in stuck THEN HalfMerged(g, k)
                                          ELSE IF Reverted(k)[g] = Tip[g] THEN disk[g]
                                          ELSE Reverted(k)[g]]
        BY <2>2 DEF RevertConflicts
      <3>2. history' = history /\ Tip' = Tip
        BY <2>2 DEF RevertConflicts, Tip
      <3>3. stuck \subseteq Changed(k) /\ stuck \subseteq Files
        BY DEF Since, Changed
      <3>4. disk' \in [Files -> Content]
        BY <1>0, <3>1 DEF IInv, TypeOK
      <3>5. index' \in [Files -> Content]
        BY <1>0, <3>1
      <3> QED
        BY <1>0, <3>1, <3>2, <3>3, <3>4, <3>5
    <2> QED
      BY <2>1, <2>2
  <1>3. /\ SnapshotHoldsText'
        /\ history' \in Seq([Files -> Content]) /\ Len(history') > 0
        /\ receipt' \subseteq [file : Notes, text : Content, id : 1..Len(history'), crossed : BOOLEAN]
    BY <1>0, <1>1, <1>2, ReceiptKept DEF IInv
  <1>7. /\ write' \in [Writers -> WriteType]
        /\ \A v \in Writers :
              /\ write'[v].file = write[v].file /\ write'[v].text = write[v].text
              /\ write'[v].step = write[v].step /\ write'[v].lock = write[v].lock
              /\ write'[v].crossed <=> write[v].crossed \/ Meets(v, Changed(k), p)
    BY <1>1, CrossedIs DEF IInv
  <1>4. TypeOK'
    BY <1>1, <1>2, <1>3, <1>7 DEF IInv, TypeOK
  <1>8. LocksInv'
    BY <1>7 DEF IInv, LocksInv
  <1>9. ASSUME NEW v \in Writers PROVE WriteInv(write[v])'
    <2>1. WriteInv(write[v]) /\ write'[v].file \notin settled'
      BY <1>1, <1>7 DEF IInv, WriteInv
    <2>2. ASSUME write'[v].file \in Notes, ~write'[v].crossed PROVE StepsInv(write[v])'
      <3>1. write[v].file \in Files \ Changed(k) /\ StepsInv(write[v])
        BY <1>1, <1>7, <2>1, <2>2, TextIsContent DEF Meets, Free, WriteInv, Files
      <3> QED
        BY <1>1, <1>2, <1>7, <3>1 DEF StepsInv
    <2> QED
      BY <1>7, <2>1, <2>2 DEF WriteInv
  <1>5. ReadersSeeNoMarkers'
    BY <1>1, RowsKept DEF IInv
  <1>6. \A n \in settled' : Quiet(n)'
    <2> SUFFICES ASSUME NEW n \in settled, n \notin Changed(k) PROVE Quiet(n)'
      BY <1>1
    <2>1. n \in Files /\ Quiet(n)
      BY TextIsContent DEF IInv, TypeOK, Files
    <2> QED
      BY <1>1, <1>2, <2>1 DEF Quiet
  <1> QED
    BY <1>3, <1>4, <1>5, <1>6, <1>8, <1>9 DEF IInv

------------------------------------------------------------------------
(* The theorems *)

LEMMA InitInv == Init => IInv
  <1> SUFFICES ASSUME Init PROVE IInv
    OBVIOUS
  <1>1. TypeOK
    <2>1. <<[f \in Files |-> Absent]>> \in Seq([Files -> Content])
      BY TextIsContent
    <2> QED
      BY <2>1, NoWriteIs, TextIsContent, BoundAssumption DEF Init, TypeOK
  <1>2. LocksInv
    BY NoWriteIs DEF Init, LocksInv
  <1>3. \A w \in Writers : WriteInv(write[w])
    BY NoWriteIs DEF Init, WriteInv
  <1> QED
    BY <1>1, <1>2, <1>3 DEF Init, IInv, SnapshotHoldsText, ReadersSeeNoMarkers, Found, Reads, Absent

\* A write of a note begins under a lock that is free.
LEMMA BeginNoteKeeps ==
  ASSUME IInv, NEW w \in Writers, NEW n \in Notes, NEW c \in Content, Marker \notin c,
         BeginNote(w, n, c)
  PROVE  IInv'
  <1>1. PICK p \in Processes : Free(p) /\ Begin(w, n, c, "db", {}, p)
    BY DEF BeginNote
  <1>2. n \in Files \ Items /\ p # NoLock
    BY TextIsContent
  <1> QED
    BY <1>1, <1>2, BeginKeeps

\* A write of another file takes no lock.
LEMMA BeginDocKeeps ==
  ASSUME IInv, NEW w \in Writers, NEW d \in Docs, NEW c \in Content,
         NEW s \in {"stamp", "add", "sweep"}, NEW is \in SUBSET Items, BeginDoc(w, d, c, s, is)
  PROVE  IInv'
  <1>1. d \in Files \ Items /\ d \notin Notes /\ Begin(w, d, c, s, is, NoLock)
    BY TextIsContent DEF BeginDoc
  <1> QED
    BY <1>1, BeginKeeps

LEMMA StartsKeep ==
  ASSUME IInv, NEW w \in Writers, Starts(w)
  PROVE  IInv'
  <1>1. ASSUME NEW n \in Notes, NEW c \in Text, WriteNote(w, n, c) PROVE IInv'
    BY <1>1, BeginNoteKeeps, TextIsContent DEF WriteNote
  <1>2. ASSUME NEW n \in Notes, NEW l \in Lines, AppendNote(w, n, l) PROVE IInv'
    <2>1. Reads(n) \union {Body, l} \in Content /\ Marker \notin Reads(n) \union {Body, l}
      BY LinesAssumption DEF IInv, TypeOK, ReadersSeeNoMarkers, Found, Reads, Content
    <2> QED
      BY <1>2, <2>1, BeginNoteKeeps DEF AppendNote
  <1>3. ASSUME NEW d \in Docs, NEW l \in DocLines,
               \/ SetMethodology(w, d, l) \/ RaidAdd(w, d, l)
               \/ CompleteOnboarding(w, d, {Body, l})
               \/ \E is \in SUBSET Items : PlanSprint(w, d, l, is)
        PROVE  IInv'
    <2>1. d \in Files /\ disk[d] \in Content /\ l \in Lines /\ {Body, l} \in Content
      BY TextIsContent, LinesAssumption DEF IInv, TypeOK, Content
    <2>2. CASE SetMethodology(w, d, l)
      <3>1. Restamped(d, {l}) \in Content
        BY <2>1 DEF Content, Restamped
      <3> QED
        BY <2>2, <3>1, BeginDocKeeps DEF SetMethodology
    <2>3. CASE RaidAdd(w, d, l)
      <3>1. disk[d] \union {Body, l} \in Content
        BY <2>1 DEF Content
      <3> QED
        BY <2>3, <3>1, BeginDocKeeps DEF RaidAdd
    <2>4. CASE CompleteOnboarding(w, d, {Body, l})
      BY <2>1, <2>4, BeginDocKeeps DEF CompleteOnboarding
    <2>5. ASSUME NEW is \in SUBSET Items, PlanSprint(w, d, l, is) PROVE IInv'
      <3>1. \E st \in {"add", "stamp"} : BeginDoc(w, d, {Body, l}, st, is)
        BY <2>5 DEF PlanSprint
      <3> QED
        BY <2>1, <3>1, BeginDocKeeps
    <2> QED
      BY <1>3, <2>2, <2>3, <2>4, <2>5
  <1>4. ASSUME NEW d \in Docs, NEW n \in Notes, StatusReport(w, d, n) PROVE IInv'
    <2>1. {Body} \union Reads(n) \in Content
      BY DEF IInv, TypeOK, Reads, Content
    <2> QED
      BY <1>4, <2>1, BeginDocKeeps DEF StatusReport
  <1> QED
    BY <1>1, <1>2, <1>3, <1>4 DEF Starts

LEMMA StepInv == IInv /\ [Next]_vars => IInv'
  <1> SUFFICES ASSUME IInv, [Next]_vars PROVE IInv'
    OBVIOUS
  <1>1. ASSUME NEW w \in Writers, Starts(w) PROVE IInv'
    BY <1>1, StartsKeep
  <1>2. ASSUME NEW w \in Writers, WriteStep(w) PROVE IInv'
    BY <1>2, StampKeeps, WriteDbKeeps, StagingKeeps, GitCommitKeeps, ReturnKeeps, StopsKeep DEF WriteStep
  <1>3. ASSUME NEW w \in Writers, Crash(w) PROVE IInv'
    BY <1>3, StopsKeep
  <1>4. ASSUME NEW i \in Items, NEW ls \in SUBSET DocLines, EditItem(i, ls) PROVE IInv'
    BY <1>4, EditItemKeeps
  <1>5. CASE Undo
    BY <1>5, RevertKeeps DEF Undo
  <1>6. CASE UNCHANGED vars
    <2>1. UNCHANGED <<disk, db, index, unmerged, history, writes, write, receipt, settled>>
      BY <1>6 DEF vars, repo
    <2>2. TypeOK' /\ LocksInv' /\ \A w \in Writers : WriteInv(write[w])'
      BY <2>1 DEF IInv, TypeOK, LocksInv, WriteInv, StepsInv, Tip
    <2>3. SnapshotHoldsText' /\ ReadersSeeNoMarkers'
      BY <2>1, ReceiptKept, RowsKept DEF IInv
    <2>4. \A n \in settled' : Quiet(n)'
      BY <2>1 DEF IInv, Quiet, Tip
    <2> QED
      BY <2>2, <2>3, <2>4 DEF IInv
  <1> QED
    BY <1>1, <1>2, <1>3, <1>4, <1>5, <1>6 DEF Next

LEMMA InvAlways == Spec => []IInv
  BY InitInv, StepInv, PTL DEF Spec

\* Every variable keeps to its type: an id handed out is that of a commit there is.
THEOREM Typed == Spec => []TypeOK
  <1>1. IInv => TypeOK
    BY DEF IInv
  <1> QED
    BY <1>1, InvAlways, PTL

\* The id memory_write hands back is one at which the note has the text that was written,
\* also when the commit was a no-op, swept up what others had left, or was another's that
\* came first or after it - unless another process was at the same note meanwhile.
THEOREM SnapshotsHold == Spec => []SnapshotHoldsText
  <1>1. IInv => SnapshotHoldsText
    BY DEF IInv
  <1> QED
    BY <1>1, InvAlways, PTL

\* As long as nothing has gone wrong with a note since its last write, its file, row,
\* index entry and commit agree, whatever has happened to its neighbours and whoever commits
\* them at the same time.
THEOREM SettledNotesAgree == Spec => []SettledAgree
  <1>1. IInv => SettledAgree
    BY DEF IInv, SettledAgree, Quiet
  <1> QED
    BY <1>1, InvAlways, PTL

\* Git's conflict markers never get into a row, from where notes are read, searched
\* and appended to.
THEOREM NoMarkersRead == Spec => []ReadersSeeNoMarkers
  <1>1. IInv => ReadersSeeNoMarkers
    BY DEF IInv
  <1> QED
    BY <1>1, InvAlways, PTL

------------------------------------------------------------------------
(* Numbers.                                                                 *)

\* A finite set of numbers has a largest one: the one that the fewest are above.
LEMMA LargestOf ==
  ASSUME NEW S \in SUBSET Nat, IsFiniteSet(S), S # {}
  PROVE  Max(S) \in S
  <1> DEFINE Above(x) == {y \in S : y > x}
             All == {Above(x) : x \in S}
  <1>1. All \subseteq FiniteSubsetsOf(S) /\ All # {} /\ All \subseteq SUBSET S
    <2>1. All # {} /\ All \subseteq SUBSET S
      OBVIOUS
    <2> HIDE DEF All
    <2> QED
      BY <2>1, FS_FiniteSubsetsOfFinite
  <1>2. PICK A \in All : \A B \in All : <<B, A>> \notin StrictSubsetOrdering(S)
    <2> HIDE DEF All
    <2> QED
      BY <1>1, FS_StrictSubsetOrderingWellFounded, WFMin
  <1>3. PICK x \in S : A = Above(x)
    OBVIOUS
  <1>4. \A y \in S : x >= y
    <2> SUFFICES ASSUME NEW y \in S, y > x PROVE FALSE
      OBVIOUS
    <2>1. Above(y) \in All
      OBVIOUS
    <2>2. Above(y) \subseteq A
      <3>1. \A z \in S : z \in Nat
        OBVIOUS
      <3>2. \A z \in S : z > y => z > x
        BY <3>1
      <3> QED
        BY <1>3, <3>2
    <2>4. y \in A /\ y \notin Above(y)
      BY <1>3
    <2>3. <<Above(y), A>> \in StrictSubsetOrdering(S)
      BY <1>1, <2>1, <2>2, <2>4 DEF StrictSubsetOrdering
    <2> QED
      BY <1>2, <2>1, <2>3
  <1> QED
    BY <1>4 DEF Max

------------------------------------------------------------------------
(* The syncs with Nextcloud: the inductive invariant.                       *)

CardIn(n)    == [text : 0..n, at : Nat]
CopyIn(n, t) == [text : 0..n, at : 0..t, card : Cards \union {0}, synced : Nat]
ListSteps    == {"none", "list", "next"}
WorkSteps    == {"pull", "push", "read", "skip", "file", "stamp"}
RunIn(n, t)  ==
    [step : ListSteps \union WorkSteps \union {"link"},
     cards : [Cards -> CardIn(n)] \union {<<>>}, copies : [Copies -> CopyIn(n, t)] \union {<<>>},
     todo : SUBSET Cards, card : Cards \union {0}, slot : Copies \union {0},
     old : CopyIn(n, t), told : BOOLEAN]
RunFits(x) ==
    /\ x.step = "none" => x = NoRun
    /\ x.step = "list" => x.cards \in [Cards -> [text : Nat, at : Nat]]
    /\ x.step = "next" => x.todo # {}
    /\ x.todo # {} =>
         /\ x.cards \in [Cards -> [text : Nat, at : Nat]]
         /\ x.copies \in [Copies -> [text : Nat, at : Nat, card : Cards \union {0}, synced : Nat]]
         /\ \A c \in x.todo : x.cards[c].text # 0
    /\ x.step \in WorkSteps \union {"link"} => x.card \in Cards /\ x.slot \in Copies
SyncTypes ==
    /\ clock \in Nat /\ edits \in Nat
    /\ cards \in [Cards -> CardIn(edits)]
    /\ copies \in [Copies -> CopyIn(edits, clock)]
    /\ run \in [Runs -> RunIn(edits, clock)] /\ \A r \in Runs : RunFits(run[r])
    /\ unsent \subseteq [side : {"cloud", "memaix"}, card : Cards, text : 1..edits]

\* A copy once linked stays linked to its card, and what a run is at goes on with that pair.
LinkInv ==
    /\ \A r \in Runs : run[r].step \in WorkSteps =>
         /\ copies[run[r].slot].card = run[r].card
         /\ kind = "deck" /\ run[r].step = "stamp" => run[r].old.card = run[r].card
    /\ \A r \in Runs : run[r].step = "link" =>
         copies[run[r].slot].card = 0 /\ copies[run[r].slot].text # 0
    /\ \A r, q \in Runs : r # q /\ run[r].step = "link" /\ run[q].step = "link" =>
         run[r].slot # run[q].slot
    /\ \A r \in Runs, i \in Copies : run[r].todo # {} /\ run[r].copies[i].card # 0 =>
         copies[i].card = run[r].copies[i].card

\* An edit that waits is on its side, is not on the other, and shows by the stamps.
Waits(e) ==
    LET i == Partner(copies, e.card) IN
    /\ Linked(copies, e.card) # {} /\ cards[e.card].text # 0
    /\ e.side = "memaix" => /\ copies[i].text = e.text /\ copies[i].at > copies[i].synced
                            /\ cards[e.card].text # e.text
    /\ e.side = "cloud"  => /\ cards[e.card].text = e.text /\ cards[e.card].at > copies[i].synced
                            /\ copies[i].text # e.text

\* Every run began after it, and its lists show it too ...
Listed(r, e) ==
    LET c == e.card x == run[r] i == Partner(copies, c) IN
    /\ x.step = "list" \/ x.todo # {} =>
         /\ e.side = "cloud"  => x.cards[c] = cards[c]
         /\ e.side = "memaix" => x.cards[c].text # e.text
    /\ x.todo # {} =>
         /\ Linked(x.copies, c) = Linked(copies, c) /\ x.copies[i].synced = copies[i].synced
         /\ kind = "deck" /\ e.side = "cloud"  => x.copies[i].text # e.text
         /\ kind = "deck" /\ e.side = "memaix" =>
              x.copies[i].text = e.text /\ x.copies[i].at > x.copies[i].synced

\* ... so that, at its card, the run either carries it over or has noticed the conflict.
Minded(r, e) ==
    LET x == run[r] IN
    x.step \notin ListSteps /\ x.card = e.card =>
         /\ x.step \in {"pull", "push", "read"} /\ x.slot = Partner(copies, e.card)
         /\ x.step = "pull" => IF e.side = "cloud" THEN x.old.text = e.text
                               ELSE x.told /\ x.old.text # e.text
         /\ x.step = "push" => IF e.side = "cloud" THEN x.told /\ x.old.text # e.text
                               ELSE x.old.text = e.text
         /\ x.step = "read" /\ e.side = "cloud" => x.told
EditInv == \A e \in unsent : Waits(e) /\ \A r \in Runs : Listed(r, e) /\ Minded(r, e)

SyncInv == SyncTypes /\ LinkInv /\ EditInv /\ NoEditVanishes

------------------------------------------------------------------------
(* Records, and steps that a run takes.                                     *)

\* More texts and later instants leave the types those there were.
LEMMA Growing ==
  ASSUME NEW n \in Nat, NEW m \in Nat, n <= m, NEW t \in Nat, NEW u \in Nat, t <= u
  PROVE  /\ CardIn(n) \subseteq CardIn(m) /\ CopyIn(n, t) \subseteq CopyIn(m, u)
         /\ [Cards -> CardIn(n)] \subseteq [Cards -> CardIn(m)]
         /\ [Copies -> CopyIn(n, t)] \subseteq [Copies -> CopyIn(m, u)]
         /\ RunIn(n, t) \subseteq RunIn(m, u)
  <1>1. CardIn(n) \subseteq CardIn(m)
    BY DEF CardIn
  <1>2. CopyIn(n, t) \subseteq CopyIn(m, u)
    BY DEF CopyIn
  <1>3. [Cards -> CardIn(n)] \subseteq [Cards -> CardIn(m)]
    BY <1>1
  <1>4. [Copies -> CopyIn(n, t)] \subseteq [Copies -> CopyIn(m, u)]
    BY <1>2
  <1>5. RunIn(n, t) \subseteq RunIn(m, u)
    BY <1>2, <1>3, <1>4 DEF RunIn
  <1> QED
    BY <1>1, <1>2, <1>3, <1>4, <1>5

LEMMA CardIs ==
  ASSUME NEW n \in Nat, NEW x \in CardIn(n)
  PROVE  x.text \in 0..n /\ x.text \in Nat /\ x.at \in Nat
  BY DEF CardIn

LEMMA CopyIs ==
  ASSUME NEW n \in Nat, NEW t \in Nat, NEW x \in CopyIn(n, t)
  PROVE  /\ x.text \in 0..n /\ x.text \in Nat /\ x.at \in 0..t /\ x.at \in Nat
         /\ x.card \in Cards \union {0} /\ x.synced \in Nat
  BY DEF CopyIn

\* A run's record by its fields.
Going(s, cs, ps, td, c, i, o, t) ==
    [step |-> s, cards |-> cs, copies |-> ps, todo |-> td, card |-> c, slot |-> i, old |-> o, told |-> t]

LEMMA GoingIs ==
  ASSUME NEW s, NEW cs, NEW ps, NEW td, NEW c, NEW i, NEW o, NEW t
  PROVE  LET y == Going(s, cs, ps, td, c, i, o, t) IN
         /\ y.step = s /\ y.cards = cs /\ y.copies = ps /\ y.todo = td
         /\ y.card = c /\ y.slot = i /\ y.old = o /\ y.told = t
  BY DEF Going

LEMMA RunIs ==
  ASSUME NEW n \in Nat, NEW t \in Nat, NEW x \in RunIn(n, t)
  PROVE  /\ x.step \in ListSteps \union WorkSteps \union {"link"}
         /\ x.cards \in [Cards -> CardIn(n)] \union {<<>>}
         /\ x.copies \in [Copies -> CopyIn(n, t)] \union {<<>>}
         /\ x.todo \in SUBSET Cards /\ x.card \in Cards \union {0} /\ x.slot \in Copies \union {0}
         /\ x.old \in CopyIn(n, t) /\ x.told \in BOOLEAN
  BY DEF RunIn

LEMMA GoingIn ==
  ASSUME NEW n \in Nat, NEW t \in Nat,
         NEW s \in ListSteps \union WorkSteps \union {"link"},
         NEW cs \in [Cards -> CardIn(n)] \union {<<>>},
         NEW ps \in [Copies -> CopyIn(n, t)] \union {<<>>},
         NEW td \in SUBSET Cards, NEW c \in Cards \union {0}, NEW i \in Copies \union {0},
         NEW o \in CopyIn(n, t), NEW b \in BOOLEAN
  PROVE  Going(s, cs, ps, td, c, i, o, b) \in RunIn(n, t)
  BY DEF Going, RunIn

LEMMA GoingNext ==
  ASSUME NEW cs, NEW ps, NEW td
  PROVE  [NoRun EXCEPT !.step = "next", !.cards = cs, !.copies = ps, !.todo = td]
           = Going("next", cs, ps, td, 0, 0, NoCopy, FALSE)
  <1> PICK a, b, c, d, e, f, g, h, s :
        a = "none" /\ b = <<>> /\ c = <<>> /\ d = {} /\ e = 0 /\ f = 0 /\ g = NoCopy /\ h = FALSE
        /\ s = "next"
    OBVIOUS
  <1>1. PICK x : x = NoRun
    OBVIOUS
  <1>2. x = Going(a, b, c, d, e, f, g, h)
    BY <1>1 DEF NoRun, Going
  <1>3. PICK y : y = [x EXCEPT !.step = s]
    OBVIOUS
  <1>4. y = Going(s, b, c, d, e, f, g, h)
    BY <1>2, <1>3 DEF Going
  <1>5. PICK z : z = [y EXCEPT !.cards = cs]
    OBVIOUS
  <1>6. z = Going(s, cs, c, d, e, f, g, h)
    BY <1>4, <1>5 DEF Going
  <1>7. PICK w : w = [z EXCEPT !.copies = ps]
    OBVIOUS
  <1>8. w = Going(s, cs, ps, d, e, f, g, h)
    BY <1>6, <1>7 DEF Going
  <1>9. [w EXCEPT !.todo = td] = Going(s, cs, ps, td, e, f, g, h)
    BY <1>8 DEF Going
  <1> HIDE DEF NoRun, NoCopy
  <1>10. [w EXCEPT !.todo = td] = [NoRun EXCEPT !.step = s, !.cards = cs, !.copies = ps, !.todo = td]
    BY <1>1, <1>3, <1>5, <1>7
  <1> QED
    BY <1>9, <1>10

\* One run is now y, and all others are what they were.
Moves(r, y)  == run' = [run EXCEPT ![r] = y]
\* y goes on with the lists of x, or has none.
Carries(y, x) == y.todo \subseteq x.todo /\ (y.todo # {} => y.cards = x.cards /\ y.copies = x.copies)

LEMMA MovesIs ==
  ASSUME SyncTypes, NEW r \in Runs, NEW y, Moves(r, y)
  PROVE  run'[r] = y /\ \A q \in Runs \ {r} : run'[q] = run[q]
  BY DEF Moves, SyncTypes

\* A card with a link has a partner.
LEMMA PartnerIs ==
  ASSUME NEW list, NEW c, Linked(list, c) # {}
  PROVE  /\ Partner(list, c) \in Copies /\ list[Partner(list, c)].card = c
         /\ Partner(list, c) \in Linked(list, c)
  <1> DEFINE S == Linked(list, c)
  <1>1. S \in SUBSET Copies /\ S \in SUBSET Nat /\ IsFiniteSet(Copies)
    BY CopiesAssumption DEF Linked
  <1>2. PICK T : T = S
    OBVIOUS
  <1>3. IsFiniteSet(T)
    BY <1>1, <1>2, FS_Subset
  <1>4. Max(T) \in T
    BY <1>1, <1>2, <1>3, LargestOf
  <1> QED
    BY <1>2, <1>4 DEF Partner, Linked

LEMMA NoRunFits ==
  ASSUME SyncTypes
  PROVE  /\ NoCopy \in CopyIn(edits, clock) /\ NoRun \in RunIn(edits, clock) /\ RunFits(NoRun)
         /\ NoRun.step = "none" /\ NoRun.todo = {}
  <1>1. NoCopy \in CopyIn(edits, clock)
    BY DEF NoCopy, CopyIn, SyncTypes
  <1>2. NoRun = Going("none", <<>>, <<>>, {}, 0, 0, NoCopy, FALSE)
    BY DEF NoRun, Going
  <1>3. NoRun \in RunIn(edits, clock)
    BY <1>1, <1>2, GoingIn DEF SyncTypes, ListSteps
  <1>4. NoRun.step = "none" /\ NoRun.todo = {}
    BY DEF NoRun
  <1> QED
    BY <1>1, <1>3, <1>4 DEF RunFits, ListSteps, WorkSteps

LEMMA TextOnly ==
  ASSUME NEW n \in Nat, NEW t \in Nat, NEW v \in 0..n
  PROVE  \E o \in CopyIn(n, t) : o = [NoCopy EXCEPT !.text = v] /\ o.text = v
  <1>1. PICK o : o = [NoCopy EXCEPT !.text = v]
    OBVIOUS
  <1>2. o \in CopyIn(n, t) /\ o.text = v
    BY <1>1 DEF NoCopy, CopyIn
  <1> QED
    BY <1>1, <1>2

\* A run in hand, as its fields say.
LEMMA InHand ==
  ASSUME SyncTypes, NEW r \in Runs
  PROVE  run[r] \in RunIn(edits, clock) /\ RunFits(run[r]) /\ edits \in Nat /\ clock \in Nat
  BY DEF SyncTypes

\* Of a list that may be empty: it has what it is asked for.
LEMMA ListIs ==
  ASSUME NEW S, NEW T, NEW R, NEW c \in S, NEW f \in [S -> T] \union {<<>>}, f \in [S -> R]
  PROVE  f \in [S -> T]
  <1>1. CASE f = <<>>
    <2>1. DOMAIN f = S
      OBVIOUS
    <2>2. f \in Seq({}) /\ Len(f) = 0
      BY <1>1
    <2>3. DOMAIN f = {}
      BY <2>2
    <2> QED
      BY <2>1, <2>3
  <1> QED
    BY <1>1

LEMMA InLists ==
  ASSUME SyncTypes, NEW r \in Runs, NEW c \in Cards
  PROVE  /\ run[r].step = "list" \/ run[r].todo # {} => run[r].cards \in [Cards -> CardIn(edits)]
         /\ \A i \in Copies : run[r].todo # {} => run[r].copies \in [Copies -> CopyIn(edits, clock)]
  <1> PICK x : x = run[r]
    OBVIOUS
  <1>1. x \in RunIn(edits, clock) /\ RunFits(x) /\ edits \in Nat /\ clock \in Nat
    BY InHand
  <1>2. /\ x.cards \in [Cards -> CardIn(edits)] \union {<<>>}
        /\ x.copies \in [Copies -> CopyIn(edits, clock)] \union {<<>>}
    BY <1>1, RunIs
  <1>3. /\ x.step = "list" \/ x.todo # {} => x.cards \in [Cards -> [text : Nat, at : Nat]]
        /\ x.todo # {} => x.copies \in [Copies -> [text : Nat, at : Nat, card : Cards \union {0}, synced : Nat]]
    BY <1>1 DEF RunFits
  <1>4. ASSUME x.step = "list" \/ x.todo # {} PROVE x.cards \in [Cards -> CardIn(edits)]
    BY <1>2, <1>3, <1>4, ListIs
  <1>5. ASSUME NEW i \in Copies, x.todo # {} PROVE x.copies \in [Copies -> CopyIn(edits, clock)]
    <2> PICK f, T, R : f = x.copies /\ T = CopyIn(edits, clock)
                       /\ R = [text : Nat, at : Nat, card : Cards \union {0}, synced : Nat]
      OBVIOUS
    <2>1. f \in [Copies -> T] \union {<<>>}
      BY <1>2
    <2>2. f \in [Copies -> R]
      BY <1>3, <1>5
    <2>3. f \in [Copies -> T]
      BY <2>1, <2>2, ListIs
    <2> QED
      BY <2>3
  <1> QED
    BY <1>4, <1>5

\* After a card: the next one, or the end of the run.
LEMMA DoneMoves ==
  ASSUME SyncTypes, NEW r \in Runs, Done(r)
  PROVE  \E y \in RunIn(edits, clock) :
            Moves(r, y) /\ RunFits(y) /\ Carries(y, run[r]) /\ y.step \in {"none", "next"}
  <1> PICK x : x = run[r]
    OBVIOUS
  <1>1. x \in RunIn(edits, clock) /\ RunFits(x) /\ edits \in Nat /\ clock \in Nat
    BY InHand
  <1>2. CASE x.todo = {}
    <2>1. Moves(r, NoRun)
      BY <1>2 DEF Done, Fin, Moves
    <2> QED
      BY <2>1, NoRunFits DEF Carries
  <1>3. CASE x.todo # {}
    <2> DEFINE y == Going("next", x.cards, x.copies, x.todo, 0, 0, NoCopy, FALSE)
    <2>1. Moves(r, y)
      <3>1. [NoRun EXCEPT !.step = "next", !.cards = x.cards, !.copies = x.copies, !.todo = x.todo] = y
        BY GoingNext
      <3> QED
        BY <1>3, <3>1 DEF Done, Moves
    <2>2. y.step = "next" /\ y.cards = x.cards /\ y.copies = x.copies /\ y.todo = x.todo
      BY DEF Going
    <2>3. y \in RunIn(edits, clock)
      BY <1>1, RunIs, NoRunFits, GoingIn DEF ListSteps
    <2>4. RunFits(y)
      <3> HIDE DEF y
      <3> QED
        BY <1>1, <1>3, <2>2 DEF RunFits, ListSteps, WorkSteps
    <2> HIDE DEF y
    <2> QED
      BY <2>1, <2>2, <2>3, <2>4 DEF Carries
  <1> QED
    BY <1>2, <1>3

LEMMA FinMoves ==
  ASSUME SyncTypes, NEW r \in Runs, Fin(r)
  PROVE  /\ Moves(r, NoRun) /\ NoRun \in RunIn(edits, clock) /\ RunFits(NoRun)
         /\ Carries(NoRun, run[r]) /\ NoRun.step = "none"
  BY NoRunFits DEF Fin, Moves, Carries

\* A card is taken, and with the last one the lists go.
LEMMA TakesMoves ==
  ASSUME SyncTypes, NEW r \in Runs, NEW s \in WorkSteps \union {"link"}, NEW c \in Cards,
         NEW i \in Copies, NEW o \in CopyIn(edits, clock), NEW b \in BOOLEAN,
         Takes(r, s, c, i, o, b), run[r].step = "next"
  PROVE  \E y \in RunIn(edits, clock) :
            /\ Moves(r, y) /\ RunFits(y) /\ Carries(y, run[r])
            /\ y.step = s /\ y.card = c /\ y.slot = i /\ y.old = o /\ y.told = b
  <1> PICK x : x = run[r]
    OBVIOUS
  <1>1. x \in RunIn(edits, clock) /\ RunFits(x) /\ edits \in Nat /\ clock \in Nat /\ x.step = "next"
    BY InHand
  <1> DEFINE left == x.todo \ {c}
             cs == IF left = {} THEN <<>> ELSE x.cards
             ps == IF left = {} THEN <<>> ELSE x.copies
             y == Going(s, cs, ps, left, c, i, o, b)
  <1>2. Moves(r, y)
    BY DEF Takes, Moves, Going
  <1>3. y.step = s /\ y.cards = cs /\ y.copies = ps /\ y.todo = left
        /\ y.card = c /\ y.slot = i /\ y.old = o /\ y.told = b
    BY GoingIs
  <1>4. cs \in [Cards -> CardIn(edits)] \union {<<>>} /\ ps \in [Copies -> CopyIn(edits, clock)] \union {<<>>}
        /\ left \in SUBSET Cards
    BY <1>1, RunIs
  <1>5. y \in RunIn(edits, clock)
    <2> HIDE DEF cs, ps, left
    <2> QED
      BY <1>1, <1>4, GoingIn
  <1>6. RunFits(y)
    <2>1. y.step \notin {"none", "list", "next"}
      BY <1>3 DEF WorkSteps
    <2>2. y.todo # {} => /\ y.cards = x.cards /\ y.copies = x.copies /\ x.todo # {}
                         /\ \A d \in y.todo : d \in x.todo
      BY <1>3
    <2> HIDE DEF y
    <2> QED
      BY <1>1, <1>3, <2>1, <2>2 DEF RunFits
  <1>7. Carries(y, x)
    <2> HIDE DEF y
    <2> QED
      BY <1>3 DEF Carries
  <1> HIDE DEF y
  <1> QED
    BY <1>2, <1>3, <1>5, <1>6, <1>7

\* A run at a card goes on with it.
GoesOn(r, s, o) == run' = [run EXCEPT ![r].step = s, ![r].old = o]

LEMMA StepMoves ==
  ASSUME SyncTypes, NEW r \in Runs, NEW s \in WorkSteps, NEW o \in CopyIn(edits, clock),
         run[r].step \in WorkSteps, GoesOn(r, s, o)
  PROVE  \E y \in RunIn(edits, clock) :
            /\ Moves(r, y) /\ RunFits(y) /\ Carries(y, run[r])
            /\ y.step = s /\ y.card = run[r].card /\ y.slot = run[r].slot /\ y.old = o
            /\ y.told = run[r].told
  <1> PICK x : x = run[r]
    OBVIOUS
  <1>1. x \in RunIn(edits, clock) /\ RunFits(x) /\ edits \in Nat /\ clock \in Nat /\ x.step \in WorkSteps
    BY InHand
  <1> DEFINE y == Going(s, x.cards, x.copies, x.todo, x.card, x.slot, o, x.told)
  <1>2. Moves(r, y)
    <2>1. [x EXCEPT !.step = s, !.old = o] = y
      <3> PICK A : A = ListSteps \union WorkSteps \union {"link"}
        OBVIOUS
      <3> PICK B, C : B = [Cards -> CardIn(edits)] \union {<<>>}
                      /\ C = [Copies -> CopyIn(edits, clock)] \union {<<>>}
        OBVIOUS
      <3> PICK D, E : D = SUBSET Cards /\ E = Cards \union {0}
        OBVIOUS
      <3> PICK F, G : F = Copies \union {0} /\ G = CopyIn(edits, clock)
        OBVIOUS
      <3>1. x \in [step : A, cards : B, copies : C, todo : D, card : E, slot : F, old : G, told : BOOLEAN]
        BY <1>1 DEF RunIn
      <3>2. PICK u : u = [x EXCEPT !.step = s]
        OBVIOUS
      <3>3. u = Going(s, x.cards, x.copies, x.todo, x.card, x.slot, x.old, x.told)
        BY <3>1, <3>2 DEF Going
      <3>4. PICK z : z = [u EXCEPT !.old = o]
        OBVIOUS
      <3>5. z = y
        BY <3>3, <3>4 DEF Going
      <3> HIDE DEF y
      <3> QED
        BY <3>2, <3>4, <3>5
    <2>2. run' = [run EXCEPT ![r] = [x EXCEPT !.step = s, !.old = o]]
      BY DEF SyncTypes, GoesOn
    <2> QED
      BY <2>1, <2>2 DEF Moves
  <1>3. y.step = s /\ y.cards = x.cards /\ y.copies = x.copies /\ y.todo = x.todo
        /\ y.card = x.card /\ y.slot = x.slot /\ y.old = o /\ y.told = x.told
    BY GoingIs
  <1>4. y \in RunIn(edits, clock)
    <2>1. s \in ListSteps \union WorkSteps \union {"link"}
      OBVIOUS
    <2>2. /\ x.cards \in [Cards -> CardIn(edits)] \union {<<>>}
          /\ x.copies \in [Copies -> CopyIn(edits, clock)] \union {<<>>}
          /\ x.todo \in SUBSET Cards /\ x.card \in Cards \union {0} /\ x.slot \in Copies \union {0}
          /\ x.told \in BOOLEAN
      BY <1>1, RunIs
    <2> PICK f, g, d, c, i, b : f = x.cards /\ g = x.copies /\ d = x.todo
                                /\ c = x.card /\ i = x.slot /\ b = x.told
      OBVIOUS
    <2>3. Going(s, f, g, d, c, i, o, b) \in RunIn(edits, clock)
      <3>1. /\ f \in [Cards -> CardIn(edits)] \union {<<>>}
            /\ g \in [Copies -> CopyIn(edits, clock)] \union {<<>>}
            /\ d \in SUBSET Cards /\ c \in Cards \union {0} /\ i \in Copies \union {0}
            /\ o \in CopyIn(edits, clock) /\ b \in BOOLEAN
        BY <2>2
      <3>2. edits \in Nat /\ clock \in Nat
        BY <1>1
      <3> QED
        BY ONLY <2>1, <3>1, <3>2, GoingIn
    <2> QED
      BY <2>3
  <1>5. RunFits(y)
    <2> HIDE DEF y
    <2> QED
      BY <1>1, <1>3 DEF RunFits, ListSteps, WorkSteps
  <1>6. Carries(y, x)
    <2> HIDE DEF y
    <2> QED
      BY <1>3 DEF Carries
  <1> HIDE DEF y
  <1> QED
    BY <1>2, <1>3, <1>4, <1>5, <1>6

\* A step of a run keeps the types, what it writes being of them,
LEMMA TypesMove ==
  ASSUME SyncTypes, NEW r \in Runs, NEW y \in RunIn(edits, clock), Moves(r, y), RunFits(y),
         UNCHANGED <<clock, edits>>, unsent' \subseteq unsent,
         cards' \in [Cards -> CardIn(edits)], copies' \in [Copies -> CopyIn(edits, clock)]
  PROVE  SyncTypes'
  <1>1. run' \in [Runs -> RunIn(edits, clock)]
    BY DEF Moves, SyncTypes
  <1>2. \A q \in Runs : RunFits(run'[q])
    BY MovesIs DEF SyncTypes
  <1>3. SyncTypes
    OBVIOUS
  <1> HIDE DEF RunFits, Moves
  <1> QED
    BY <1>1, <1>2, <1>3 DEF SyncTypes

\* What a run that is now y has to be careful of with its pair.
Bound(y) ==
    /\ y.step \in WorkSteps => /\ copies'[y.slot].card = y.card
                               /\ kind = "deck" /\ y.step = "stamp" => y.old.card = y.card
    /\ y.step = "link" => copies'[y.slot].card = 0 /\ copies'[y.slot].text # 0

\* the links,
LEMMA LinksMove ==
  ASSUME SyncTypes, LinkInv, NEW r \in Runs, NEW y, Moves(r, y), kind' = kind,
         Carries(y, run[r]) \/ \A i \in Copies : y.copies[i].card = copies'[i].card,
         \A i \in Copies : copies'[i].card = copies[i].card \/ copies[i].card = 0,
         \A q \in Runs \ {r} : run[q].step = "link" =>
            copies'[run[q].slot].card = 0 /\ copies'[run[q].slot].text # 0
               /\ (y.step = "link" => run[q].slot # y.slot),
         Bound(y)
  PROVE  LinkInv'
  <1>1. run'[r] = y /\ \A q \in Runs \ {r} : run'[q] = run[q]
    BY MovesIs
  <1>2. \A q \in Runs : RunFits(run[q])
    BY DEF SyncTypes
  <1>3. ASSUME NEW q \in Runs, run'[q].step \in WorkSteps
        PROVE  copies'[run'[q].slot].card = run'[q].card
               /\ (kind' = "deck" /\ run'[q].step = "stamp" => run'[q].old.card = run'[q].card)
    <2>1. CASE q = r
      BY <1>1, <1>3, <2>1 DEF Bound
    <2>2. CASE q # r
      <3>1. run'[q] = run[q] /\ run[q].card \in Cards /\ run[q].slot \in Copies
        BY <1>1, <1>2, <1>3, <2>2 DEF RunFits
      <3>2. run[q].card # 0
        BY <3>1, CardsAssumption
      <3> QED
        BY <1>3, <3>1, <3>2 DEF LinkInv
    <2> QED
      BY <2>1, <2>2
  <1>4. ASSUME NEW q \in Runs, run'[q].step = "link"
        PROVE  copies'[run'[q].slot].card = 0 /\ copies'[run'[q].slot].text # 0
    BY <1>1, <1>4 DEF Bound
  <1>5. ASSUME NEW q \in Runs, NEW p \in Runs, q # p, run'[q].step = "link", run'[p].step = "link"
        PROVE  run'[q].slot # run'[p].slot
    <2>1. CASE q = r
      BY <1>1, <1>5, <2>1
    <2>2. CASE p = r
      BY <1>1, <1>5, <2>2
    <2>3. CASE q # r /\ p # r
      BY <1>1, <1>5, <2>3 DEF LinkInv
    <2> QED
      BY <2>1, <2>2, <2>3
  <1>6. ASSUME NEW q \in Runs, NEW i \in Copies, run'[q].todo # {}, run'[q].copies[i].card # 0
        PROVE  copies'[i].card = run'[q].copies[i].card
    <2>1. CASE run[q].todo # {} /\ run'[q].copies = run[q].copies
      <3>1. copies[i].card = run[q].copies[i].card
        BY <1>6, <2>1 DEF LinkInv
      <3> QED
        BY <1>6, <2>1, <3>1
    <2> QED
      BY <1>1, <1>6, <2>1 DEF Carries
  <1> QED
    BY <1>3, <1>4, <1>5, <1>6 DEF LinkInv

\* The pair of the edit e, as the lists of runs know it, stays as it is.
PairStays(e) ==
    /\ kind' = kind
    /\ Linked(copies', e.card) = Linked(copies, e.card)
    /\ copies'[Partner(copies, e.card)].synced = copies[Partner(copies, e.card)].synced
    /\ e.side = "cloud" => cards'[e.card] = cards[e.card]

LEMMA ListedStays ==
  ASSUME NEW e, NEW r, PairStays(e), Listed(r, e), run'[r] = run[r]
  PROVE  Listed(r, e)'
  <1>1. Partner(copies', e.card) = Partner(copies, e.card)
    BY DEF Partner, PairStays
  <1> QED
    BY <1>1 DEF Listed, PairStays

LEMMA ListedCarried ==
  ASSUME NEW e, NEW r, PairStays(e), Listed(r, e), Carries(run'[r], run[r]), run'[r].step # "list"
  PROVE  Listed(r, e)'
  <1>1. Partner(copies', e.card) = Partner(copies, e.card)
    BY DEF Partner, PairStays
  <1>2. CASE run'[r].todo = {}
    BY <1>2 DEF Listed
  <1>3. CASE run'[r].todo # {}
    <2>1. run[r].todo # {} /\ run'[r].cards = run[r].cards /\ run'[r].copies = run[r].copies
      BY <1>3 DEF Carries
    <2> QED
      BY <1>1, <2>1 DEF Listed, PairStays
  <1> QED
    BY <1>2, <1>3

LEMMA MindedStays ==
  ASSUME NEW e, NEW r, PairStays(e), Minded(r, e), run'[r] = run[r]
  PROVE  Minded(r, e)'
  <1>1. Partner(copies', e.card) = Partner(copies, e.card)
    BY DEF Partner, PairStays
  <1> QED
    BY <1>1 DEF Minded, PairStays

\* and the edits that wait, if their pairs stay as they are.
LEMMA EditsMove ==
  ASSUME SyncTypes, EditInv, NEW r \in Runs, NEW y, Moves(r, y), Carries(y, run[r]), y.step # "list",
         unsent' \subseteq unsent,
         \A e \in unsent' : /\ PairStays(e) /\ Waits(e)'
                            /\ y.step \in ListSteps \/ y.card # e.card \/ Minded(r, e)'
  PROVE  EditInv'
  <1> SUFFICES ASSUME NEW e \in unsent', NEW q \in Runs
               PROVE  Waits(e)' /\ Listed(q, e)' /\ Minded(q, e)'
    BY DEF EditInv
  <1>1. run'[r] = y /\ \A p \in Runs \ {r} : run'[p] = run[p]
    BY MovesIs
  <1>2. e \in unsent /\ Listed(q, e) /\ Minded(q, e) /\ PairStays(e)
    BY DEF EditInv
  <1>3. CASE q # r
    BY <1>1, <1>2, <1>3, ListedStays, MindedStays
  <1>4. CASE q = r
    <2>1. Listed(q, e)'
      BY <1>1, <1>2, <1>4, ListedCarried
    <2>2. Minded(q, e)'
      BY <1>1, <1>4 DEF Minded
    <2> QED
      BY <2>1, <2>2
  <1> QED
    BY <1>3, <1>4

------------------------------------------------------------------------
(* The steps, one by one.                                                   *)

\* A run's step that changes nothing but the run.
LEMMA StillMoves ==
  ASSUME SyncInv, NEW r \in Runs, NEW y \in RunIn(edits, clock), Moves(r, y), RunFits(y),
         Carries(y, run[r]), y.step \notin {"list", "link"}, Bound(y),
         UNCHANGED <<kind, clock, cards, copies, edits, unsent, lost>>,
         \A e \in unsent : y.step \in ListSteps \/ y.card # e.card \/ Minded(r, e)'
  PROVE  SyncInv'
  <1>1. SyncTypes'
    BY TypesMove DEF SyncInv, SyncTypes
  <1>2. LinkInv'
    <2>1. \A q \in Runs \ {r} : run[q].step = "link" =>
            copies'[run[q].slot].card = 0 /\ copies'[run[q].slot].text # 0
      BY DEF SyncInv, LinkInv
    <2> QED
      BY <2>1, LinksMove DEF SyncInv
  <1>3. EditInv'
    <2>1. \A e \in unsent : PairStays(e) /\ Waits(e)'
      BY DEF SyncInv, EditInv, PairStays, Waits
    <2> QED
      BY <2>1, EditsMove DEF SyncInv
  <1> QED
    BY <1>1, <1>2, <1>3 DEF SyncInv, NoEditVanishes

LEMMA FinStill ==
  ASSUME SyncInv, NEW r \in Runs, Fin(r),
         UNCHANGED <<kind, clock, cards, copies, edits, unsent, lost>>
  PROVE  SyncInv'
  <1>1. PICK y : y = NoRun
    OBVIOUS
  <1>2. /\ Moves(r, y) /\ y \in RunIn(edits, clock) /\ RunFits(y)
        /\ Carries(y, run[r]) /\ y.step = "none"
    BY <1>1, FinMoves DEF SyncInv
  <1>3. Bound(y) /\ y.step \notin {"list", "link"} /\ y.step \in ListSteps
    BY <1>2 DEF Bound, WorkSteps, ListSteps
  <1> QED
    BY <1>2, <1>3, StillMoves

LEMMA SkipKeeps ==
  ASSUME SyncInv, NEW r \in Runs, Skip(r)
  PROVE  SyncInv'
  <1>1. PICK y \in RunIn(edits, clock) :
            Moves(r, y) /\ RunFits(y) /\ Carries(y, run[r]) /\ y.step \in {"none", "next"}
    BY DoneMoves DEF Skip, SyncInv
  <1>2. Bound(y) /\ y.step \notin {"list", "link"} /\ y.step \in ListSteps
    BY <1>1 DEF Bound, WorkSteps, ListSteps
  <1> QED
    BY <1>1, <1>2, StillMoves DEF Skip

\* What is read of a note is what an edit of it has made it.
LEMMA ReadNoteKeeps ==
  ASSUME SyncInv, NEW r \in Runs, ReadNote(r)
  PROVE  SyncInv'
  <1> PICK x : x = run[r]
    OBVIOUS
  <1>1. x \in RunIn(edits, clock) /\ RunFits(x) /\ x.step = "read" /\ x.slot \in Copies /\ x.card \in Cards
    BY InHand DEF SyncInv, ReadNote, At, RunFits, WorkSteps
  <1>2. copies[x.slot] \in CopyIn(edits, clock) /\ edits \in Nat /\ clock \in Nat
    BY <1>1 DEF SyncInv, SyncTypes
  <1>3. PICK o : o = [NoCopy EXCEPT !.text = copies[x.slot].text]
    OBVIOUS
  <1>4. o \in CopyIn(edits, clock) /\ o.text = copies[x.slot].text
    <2>1. copies[x.slot].text \in 0..edits
      BY <1>2, CopyIs
    <2> QED
      BY <1>2, <1>3, <2>1 DEF NoCopy, CopyIn
  <1>5. PICK s \in WorkSteps : s = "push" /\ GoesOn(r, s, o)
    BY <1>3 DEF ReadNote, GoesOn, WorkSteps
  <1>6. PICK y \in RunIn(edits, clock) :
            /\ Moves(r, y) /\ RunFits(y) /\ Carries(y, run[r])
            /\ y.step = "push" /\ y.card = x.card /\ y.slot = x.slot /\ y.old = o
            /\ y.told = x.told
    BY <1>1, <1>4, <1>5, StepMoves DEF SyncInv, WorkSteps
  <1>7. Bound(y)
    BY <1>1, <1>6 DEF Bound, WorkSteps, SyncInv, LinkInv, ReadNote
  <1>8. ASSUME NEW e \in unsent, y.card = e.card PROVE Minded(r, e)'
    <2>1. Minded(r, e) /\ Waits(e)
      BY DEF SyncInv, EditInv
    <2>2. run'[r] = y /\ copies' = copies
      BY <1>6, MovesIs DEF SyncInv, ReadNote
    <2>3. x.slot = Partner(copies, e.card) /\ (e.side = "cloud" => x.told)
      BY <1>1, <1>6, <1>8, <2>1 DEF Minded, ListSteps
    <2>4. e.side \in {"cloud", "memaix"}
      BY DEF SyncInv, SyncTypes
    <2> QED
      BY <1>4, <1>6, <2>1, <2>2, <2>3, <2>4 DEF Minded, Waits
  <1> QED
    BY <1>6, <1>7, <1>8, StillMoves DEF ReadNote

LEMMA ReadFileKeeps ==
  ASSUME SyncInv, NEW r \in Runs, ReadFile(r)
  PROVE  SyncInv'
  <1> PICK x : x = run[r]
    OBVIOUS
  <1>1. x \in RunIn(edits, clock) /\ RunFits(x) /\ x.step = "file" /\ x.slot \in Copies /\ x.card \in Cards
    BY InHand DEF SyncInv, ReadFile, At, RunFits, WorkSteps
  <1>2. PICK o : o = copies[x.slot]
    OBVIOUS
  <1>3. o \in CopyIn(edits, clock)
    BY <1>1, <1>2 DEF SyncInv, SyncTypes
  <1>4. PICK s \in WorkSteps : s = "stamp" /\ GoesOn(r, s, o)
    BY <1>2 DEF ReadFile, GoesOn, WorkSteps
  <1>5. PICK y \in RunIn(edits, clock) :
            /\ Moves(r, y) /\ RunFits(y) /\ Carries(y, run[r])
            /\ y.step = "stamp" /\ y.card = x.card /\ y.slot = x.slot /\ y.old = o
    BY <1>1, <1>3, <1>4, StepMoves DEF SyncInv, WorkSteps
  <1>6. copies[x.slot].card = x.card
    BY <1>1 DEF SyncInv, LinkInv, WorkSteps
  <1>7. Bound(y)
    BY <1>2, <1>5, <1>6 DEF Bound, WorkSteps, ReadFile
  <1>8. ASSUME NEW e \in unsent PROVE y.card # e.card
    BY <1>1, <1>5 DEF SyncInv, EditInv, Minded, ListSteps
  <1> QED
    BY <1>5, <1>7, <1>8, StillMoves DEF ReadFile

\* Who has changed, is noticed by whoever decides: an edit that waits is sent on, or the
\* conflict is in the report.
LEMMA DecideKeeps ==
  ASSUME SyncInv, NEW r \in Runs, NEW c \in Cards, Decide(r, c)
  PROVE  SyncInv'
  <1> PICK x, i : x = run[r] /\ i = Partner(run[r].copies, c)
    OBVIOUS
  <1>1. /\ x \in RunIn(edits, clock) /\ RunFits(x) /\ x.step = "next" /\ c \in x.todo
        /\ Linked(x.copies, c) # {} /\ edits \in Nat /\ clock \in Nat /\ SyncTypes
        /\ UNCHANGED <<kind, clock, cards, copies, edits, unsent, lost>>
    BY InHand DEF SyncInv, Decide, At, New
  <1>2. i \in Copies /\ x.copies[i].card = c /\ copies[i].card = c
    <2>1. i \in Copies /\ x.copies[i].card = c
      BY <1>1, PartnerIs
    <2>2. c # 0
      BY CardsAssumption
    <2> QED
      BY <1>1, <2>1, <2>2 DEF SyncInv, LinkInv
  <1> PICK T, O : T = Theirs(r, c) /\ O = Ours(r, c)
    OBVIOUS
  <1>3. T = x.cards[c] /\ T \in CardIn(edits) /\ T.text \in 0..edits /\ T.at \in Nat
    BY <1>1, InLists, CardIs DEF Theirs
  <1>4. x.copies[i] \in CopyIn(edits, clock) /\ copies[i] \in CopyIn(edits, clock)
    BY <1>1, <1>2, InLists DEF SyncTypes
  <1>5. O = (IF kind = "deck" THEN x.copies[i] ELSE copies[i])
    BY DEF Ours
  <1>6. O.text \in 0..edits /\ O.at \in Nat /\ x.copies[i].synced \in Nat
    BY <1>1, <1>4, <1>5, CopyIs
  <1>7. /\ CardChanged(r, c) <=> T.at > x.copies[i].synced
        /\ CopyChanged(r, c) <=> O.at > x.copies[i].synced
    BY DEF CardChanged, CopyChanged
  <1>8. ASSUME NEW e \in unsent, e.card = c
        PROVE  /\ i = Partner(copies, c) /\ e.side \in {"cloud", "memaix"}
               /\ e.side = "cloud" => /\ T.text = e.text /\ CardChanged(r, c)
                                      /\ kind = "deck" => O.text # e.text
               /\ e.side = "memaix" => /\ T.text # e.text /\ CopyChanged(r, c)
                                       /\ kind = "deck" => O.text = e.text
    <2>1. Waits(e) /\ Listed(r, e) /\ e.side \in {"cloud", "memaix"}
      BY DEF SyncInv, EditInv, SyncTypes
    <2>2. i = Partner(copies, c)
      BY <1>1, <1>8, <2>1 DEF Listed, Partner
    <2>3. x.todo # {}
      BY <1>1
    <2>4. CASE e.side = "cloud"
      BY <1>3, <1>5, <1>7, <1>8, <2>1, <2>2, <2>3, <2>4 DEF Waits, Listed
    <2>5. CASE e.side = "memaix"
      BY <1>3, <1>5, <1>7, <1>8, <2>1, <2>2, <2>3, <2>5 DEF Waits, Listed
    <2> QED
      BY <2>1, <2>2, <2>4, <2>5
  <1>9. ASSUME NEW s \in WorkSteps, NEW o \in CopyIn(edits, clock), NEW b \in BOOLEAN,
               Takes(r, s, c, i, o, b), s # "stamp",
               \A e \in unsent : e.card = c =>
                 /\ s \in {"pull", "push", "read"}
                 /\ s = "pull" => IF e.side = "cloud" THEN o.text = e.text ELSE b /\ o.text # e.text
                 /\ s = "push" => IF e.side = "cloud" THEN b /\ o.text # e.text ELSE o.text = e.text
                 /\ s = "read" /\ e.side = "cloud" => b
        PROVE  SyncInv'
    <2>1. PICK y \in RunIn(edits, clock) :
            /\ Moves(r, y) /\ RunFits(y) /\ Carries(y, run[r])
            /\ y.step = s /\ y.card = c /\ y.slot = i /\ y.old = o /\ y.told = b
      BY <1>1, <1>2, <1>9, TakesMoves
    <2>2. Bound(y) /\ y.step \notin {"list", "link"}
      BY <1>1, <1>2, <1>9, <2>1 DEF Bound, WorkSteps
    <2>3. ASSUME NEW e \in unsent, y.card = e.card PROVE Minded(r, e)'
      <3>1. run'[r] = y
        BY <1>1, <2>1, MovesIs
      <3> QED
        BY <1>1, <1>8, <1>9, <2>1, <2>3, <3>1 DEF Minded
    <2> QED
      BY <1>1, <2>1, <2>2, <2>3, StillMoves
  <1>10. CASE Pulls(r, c)
    <2>0. PICK v \in 0..edits : v = T.text
      BY <1>3
    <2>1. PICK o \in CopyIn(edits, clock) : o = [NoCopy EXCEPT !.text = v] /\ o.text = v
      <3>1. edits \in Nat /\ clock \in Nat
        BY <1>1
      <3> QED
        BY ONLY <3>1, TextOnly
    <2>2. PICK s \in WorkSteps : s = "pull"
      BY DEF WorkSteps
    <2>3. PICK b \in BOOLEAN : b = Conflict(r, c)
      BY DEF Conflict, CopyChanged, CardChanged
    <2>4. Takes(r, s, c, i, o, b)
      BY <1>10, <2>0, <2>1, <2>2, <2>3 DEF Decide
    <2>5. CardChanged(r, c)
      BY <1>10 DEF Pulls
    <2>6. ASSUME NEW e \in unsent, e.card = c
          PROVE  IF e.side = "cloud" THEN o.text = e.text ELSE b /\ o.text # e.text
      BY <1>8, <2>0, <2>1, <2>3, <2>5, <2>6 DEF Conflict
    <2> QED
      BY <1>9, <2>2, <2>4, <2>6
  <1>11. CASE ~Pulls(r, c) /\ ~Pushes(r, c)
    <2>1. PICK o \in CopyIn(edits, clock) : o = NoCopy
      BY <1>1, NoRunFits
    <2>2. PICK s \in WorkSteps : s = "skip"
      BY DEF WorkSteps
    <2>3. PICK b \in BOOLEAN : b = FALSE
      OBVIOUS
    <2>4. Takes(r, s, c, i, o, b)
      BY <1>11, <2>1, <2>2, <2>3 DEF Decide
    <2>5. ~CardChanged(r, c) /\ ~CopyChanged(r, c)
      BY <1>11 DEF Pulls, Pushes, Conflict
    <2>6. \A e \in unsent : e.card # c
      BY <1>8, <2>5
    <2> QED
      BY <1>9, <2>2, <2>4, <2>6
  <1>12. CASE ~Pulls(r, c) /\ Pushes(r, c) /\ kind = "deck"
    <2>0. PICK v \in 0..edits : v = O.text
      BY <1>6
    <2>1. PICK o \in CopyIn(edits, clock) : o = [NoCopy EXCEPT !.text = v] /\ o.text = v
      <3>1. edits \in Nat /\ clock \in Nat
        BY <1>1
      <3> QED
        BY ONLY <3>1, TextOnly
    <2>2. PICK s \in WorkSteps : s = "push"
      BY DEF WorkSteps
    <2>3. PICK b \in BOOLEAN : b = Conflict(r, c)
      BY DEF Conflict, CopyChanged, CardChanged
    <2>4. Takes(r, s, c, i, o, b)
      BY <1>12, <2>0, <2>1, <2>2, <2>3 DEF Decide
    <2>5. CopyChanged(r, c)
      BY <1>12 DEF Pushes
    <2>6. ASSUME NEW e \in unsent, e.card = c
          PROVE  IF e.side = "cloud" THEN b /\ o.text # e.text ELSE o.text = e.text
      BY <1>8, <1>12, <2>0, <2>1, <2>3, <2>5, <2>6 DEF Conflict
    <2> QED
      BY <1>9, <2>2, <2>4, <2>6
  <1>13. CASE ~Pulls(r, c) /\ Pushes(r, c) /\ kind # "deck"
    <2>1. PICK o \in CopyIn(edits, clock) : o = NoCopy
      BY <1>1, NoRunFits
    <2>2. PICK s \in WorkSteps : s = "read"
      BY DEF WorkSteps
    <2>3. PICK b \in BOOLEAN : b = Conflict(r, c)
      BY DEF Conflict, CopyChanged, CardChanged
    <2>4. Takes(r, s, c, i, o, b)
      BY <1>13, <2>1, <2>2, <2>3 DEF Decide
    <2>5. CopyChanged(r, c)
      BY <1>13 DEF Pushes
    <2> QED
      BY <1>8, <1>9, <2>2, <2>3, <2>4, <2>5 DEF Conflict
  <1> QED
    BY <1>10, <1>11, <1>12, <1>13

\* A run with new lists: they have to show the edits that wait.
LEMMA EditsAnew ==
  ASSUME SyncTypes, EditInv, NEW r \in Runs, NEW y, Moves(r, y), unsent' = unsent,
         UNCHANGED <<kind, cards, copies>>,
         \A e \in unsent : Listed(r, e)' /\ Minded(r, e)'
  PROVE  EditInv'
  <1> SUFFICES ASSUME NEW e \in unsent, NEW q \in Runs
               PROVE  Waits(e)' /\ Listed(q, e)' /\ Minded(q, e)'
    BY DEF EditInv
  <1>1. run'[r] = y /\ \A p \in Runs \ {r} : run'[p] = run[p]
    BY MovesIs
  <1>2. PairStays(e) /\ Waits(e)'
    BY DEF PairStays, Waits, EditInv
  <1> QED
    BY <1>1, <1>2, ListedStays, MindedStays DEF EditInv

LEMMA ListCardsKeeps ==
  ASSUME SyncInv, NEW r \in Runs, ListCards(r)
  PROVE  SyncInv'
  <1> PICK s, cs, b, d, z, o, h :
        s = "list" /\ cs = cards /\ b = <<>> /\ d = {} /\ z = 0 /\ o = NoCopy /\ h = FALSE
    OBVIOUS
  <1>1. PICK x : x = NoRun /\ run[r] = x
    BY DEF ListCards
  <1>2. PICK u : u = [x EXCEPT !.step = s]
    OBVIOUS
  <1>3. PICK y : y = [u EXCEPT !.cards = cs]
    OBVIOUS
  <1>4. y = Going(s, cs, b, d, z, z, o, h)
    <2>1. x = Going("none", b, b, d, z, z, o, h)
      BY <1>1 DEF NoRun, Going
    <2>2. u = Going(s, b, b, d, z, z, o, h)
      BY <1>2, <2>1 DEF Going
    <2> QED
      BY <1>3, <2>2 DEF Going
  <1>5. Moves(r, y)
    <2>1. run' = [run EXCEPT ![r] = [[x EXCEPT !.step = s] EXCEPT !.cards = cs]]
      <3> HIDE DEF NoRun
      <3> QED
        BY <1>1 DEF ListCards, SyncInv, SyncTypes
    <2> QED
      BY <1>2, <1>3, <2>1 DEF Moves
  <1>6. y.step = "list" /\ y.cards = cards /\ y.todo = {}
    BY <1>4 DEF Going
  <1>7. SyncTypes /\ edits \in Nat /\ clock \in Nat /\ cards \in [Cards -> CardIn(edits)]
        /\ copies \in [Copies -> CopyIn(edits, clock)]
        /\ UNCHANGED <<kind, clock, cards, copies, edits, unsent, lost>>
    BY DEF SyncInv, SyncTypes, ListCards
  <1>8. y \in RunIn(edits, clock)
    <2>1. s \in ListSteps \union WorkSteps \union {"link"} /\ d \in SUBSET Cards
          /\ z \in Cards \union {0} /\ z \in Copies \union {0} /\ h \in BOOLEAN
      BY DEF ListSteps
    <2>2. cs \in [Cards -> CardIn(edits)] \union {<<>>} /\ b \in [Copies -> CopyIn(edits, clock)] \union {<<>>}
      BY <1>7
    <2>3. o \in CopyIn(edits, clock)
      BY <1>7, NoRunFits
    <2> QED
      BY <1>4, <1>7, <2>1, <2>2, <2>3, GoingIn
  <1>9. RunFits(y)
    <2>1. cards \in [Cards -> [text : Nat, at : Nat]]
      BY <1>7 DEF CardIn
    <2> QED
      BY <1>6, <2>1 DEF RunFits, WorkSteps
  <1>10. SyncTypes'
    BY <1>5, <1>7, <1>8, <1>9, TypesMove
  <1>11. LinkInv'
    <2>1. Bound(y) /\ Carries(y, run[r])
      BY <1>6 DEF Bound, WorkSteps, Carries
    <2>2. \A q \in Runs \ {r} : run[q].step = "link" =>
            copies'[run[q].slot].card = 0 /\ copies'[run[q].slot].text # 0
               /\ (y.step = "link" => run[q].slot # y.slot)
      BY <1>6, <1>7 DEF SyncInv, LinkInv
    <2> QED
      BY <1>5, <1>7, <2>1, <2>2, LinksMove DEF SyncInv
  <1>12. EditInv'
    <2>1. ASSUME NEW e \in unsent PROVE Listed(r, e)' /\ Minded(r, e)'
      <3>1. Waits(e) /\ run'[r] = y
        BY <1>5, <1>7, MovesIs DEF SyncInv, EditInv
      <3> QED
        BY <1>6, <1>7, <3>1 DEF Waits, Listed, Minded, ListSteps
    <2> QED
      BY <1>5, <1>7, <2>1, EditsAnew DEF SyncInv
  <1> QED
    BY <1>7, <1>10, <1>11, <1>12 DEF SyncInv, NoEditVanishes

\* A copy without its text and its instant, as the list of a vault's notes has it.
LEMMA Blanked ==
  ASSUME NEW n \in Nat, NEW t \in Nat, NEW v \in CopyIn(n, t)
  PROVE  /\ [v EXCEPT !.text = 0, !.at = 0] \in CopyIn(n, t)
         /\ [v EXCEPT !.text = 0, !.at = 0].card = v.card
         /\ [v EXCEPT !.text = 0, !.at = 0].synced = v.synced
  <1> PICK A, B, C : A = 0..n /\ B = 0..t /\ C = Cards \union {0}
    OBVIOUS
  <1>1. v \in [text : A, at : B, card : C, synced : Nat]
    BY DEF CopyIn
  <1>2. 0 \in A /\ 0 \in B
    OBVIOUS
  <1>3. PICK u : u = [v EXCEPT !.text = 0]
    OBVIOUS
  <1>4. u \in [text : A, at : B, card : C, synced : Nat] /\ u.card = v.card /\ u.synced = v.synced
    BY <1>1, <1>2, <1>3
  <1>5. PICK w : w = [u EXCEPT !.at = 0]
    OBVIOUS
  <1>6. w \in [text : A, at : B, card : C, synced : Nat] /\ w.card = v.card /\ w.synced = v.synced
    BY <1>2, <1>4, <1>5
  <1> QED
    BY <1>3, <1>5, <1>6 DEF CopyIn

LEMMA CopyFits ==
  ASSUME NEW n \in Nat, NEW t \in Nat, NEW v \in CopyIn(n, t)
  PROVE  v \in [text : Nat, at : Nat, card : Cards \union {0}, synced : Nat]
  <1> PICK A, B, C : A = 0..n /\ B = 0..t /\ C = Cards \union {0}
    OBVIOUS
  <1>1. v \in [text : A, at : B, card : C, synced : Nat]
    BY DEF CopyIn
  <1>2. (\A z \in A : z \in Nat) /\ (\A z \in B : z \in Nat)
    OBVIOUS
  <1> QED
    BY <1>1, <1>2

\* The links a list shows are those there are.
LEMMA ListCopiesKeeps ==
  ASSUME SyncInv, NEW r \in Runs, ListCopies(r)
  PROVE  SyncInv'
  <1> PICK x, todo : x = run[r] /\ todo = {c \in Cards : run[r].cards[c].text # 0}
    OBVIOUS
  <1>1. /\ x \in RunIn(edits, clock) /\ RunFits(x) /\ x.step = "list"
        /\ SyncTypes /\ edits \in Nat /\ clock \in Nat /\ copies \in [Copies -> CopyIn(edits, clock)]
        /\ cards \in [Cards -> CardIn(edits)]
        /\ UNCHANGED <<kind, clock, cards, copies, edits, unsent, lost>>
    BY InHand DEF SyncInv, SyncTypes, ListCopies, At, RunFits
  <1>2. CASE todo = {}
    BY <1>1, <1>2, FinStill DEF ListCopies
  <1>3. CASE todo # {}
    <2> PICK ps : ps = IF kind = "deck" THEN copies
                       ELSE [i \in Copies |-> [copies[i] EXCEPT !.text = 0, !.at = 0]]
      OBVIOUS
    <2>1. ps \in [Copies -> CopyIn(edits, clock)]
      <3>1. \A v \in CopyIn(edits, clock) : [v EXCEPT !.text = 0, !.at = 0] \in CopyIn(edits, clock)
        BY <1>1, Blanked
      <3>2. \A i \in Copies : copies[i] \in CopyIn(edits, clock)
        BY <1>1
      <3>3. \A i \in Copies : [copies[i] EXCEPT !.text = 0, !.at = 0] \in CopyIn(edits, clock)
        BY <3>1, <3>2
      <3> QED
        BY <1>1, <3>3
    <2>2. \A i \in Copies : /\ ps[i].card = copies[i].card /\ ps[i].synced = copies[i].synced
                            /\ kind = "deck" => ps[i] = copies[i]
      <3>1. \A v \in CopyIn(edits, clock) : /\ [v EXCEPT !.text = 0, !.at = 0].card = v.card
                                            /\ [v EXCEPT !.text = 0, !.at = 0].synced = v.synced
        BY <1>1, Blanked
      <3> QED
        BY <1>1, <3>1
    <2> PICK s : s = "next"
      OBVIOUS
    <2>3. PICK u : u = [x EXCEPT !.step = s]
      OBVIOUS
    <2>4. PICK w : w = [u EXCEPT !.todo = todo]
      OBVIOUS
    <2>5. PICK y : y = [w EXCEPT !.copies = ps]
      OBVIOUS
    <2>6. y = Going(s, x.cards, ps, todo, x.card, x.slot, x.old, x.told)
      <3> PICK A : A = ListSteps \union WorkSteps \union {"link"}
        OBVIOUS
      <3> PICK B, C : B = [Cards -> CardIn(edits)] \union {<<>>}
                      /\ C = [Copies -> CopyIn(edits, clock)] \union {<<>>}
        OBVIOUS
      <3> PICK D, E : D = SUBSET Cards /\ E = Cards \union {0}
        OBVIOUS
      <3> PICK F, G : F = Copies \union {0} /\ G = CopyIn(edits, clock)
        OBVIOUS
      <3>1. x \in [step : A, cards : B, copies : C, todo : D, card : E, slot : F, old : G, told : BOOLEAN]
        BY <1>1 DEF RunIn
      <3>2. u = Going(s, x.cards, x.copies, x.todo, x.card, x.slot, x.old, x.told)
        BY <2>3, <3>1 DEF Going
      <3>3. w = Going(s, x.cards, x.copies, todo, x.card, x.slot, x.old, x.told)
        BY <2>4, <3>2 DEF Going
      <3> QED
        BY <2>5, <3>3 DEF Going
    <2>7. Moves(r, y)
      <3>1. run' = [run EXCEPT ![r] = [[[x EXCEPT !.step = s] EXCEPT !.todo = todo] EXCEPT !.copies = ps]]
        BY <1>1, <1>3 DEF ListCopies, SyncTypes
      <3> QED
        BY <2>3, <2>4, <2>5, <3>1 DEF Moves
    <2>8. y.step = "next" /\ y.cards = x.cards /\ y.copies = ps /\ y.todo = todo
      BY <2>6 DEF Going
    <2>9. y \in RunIn(edits, clock)
      <3>1. s \in ListSteps \union WorkSteps \union {"link"} /\ todo \in SUBSET Cards
        BY DEF ListSteps
      <3>2. /\ x.cards \in [Cards -> CardIn(edits)] \union {<<>>}
            /\ x.card \in Cards \union {0} /\ x.slot \in Copies \union {0}
            /\ x.old \in CopyIn(edits, clock) /\ x.told \in BOOLEAN
        BY <1>1, RunIs
      <3>3. ps \in [Copies -> CopyIn(edits, clock)] \union {<<>>}
        BY <2>1
      <3>4. edits \in Nat /\ clock \in Nat
        BY <1>1
      <3> PICK f, g, c, i, o, b : f = x.cards /\ g = ps /\ c = x.card /\ i = x.slot /\ o = x.old /\ b = x.told
        OBVIOUS
      <3>5. y = Going(s, f, g, todo, c, i, o, b)
        BY <2>6
      <3>6. Going(s, f, g, todo, c, i, o, b) \in RunIn(edits, clock)
        <4>1. /\ s \in ListSteps \union WorkSteps \union {"link"}
              /\ f \in [Cards -> CardIn(edits)] \union {<<>>}
              /\ g \in [Copies -> CopyIn(edits, clock)] \union {<<>>}
              /\ todo \in SUBSET Cards /\ c \in Cards \union {0} /\ i \in Copies \union {0}
              /\ o \in CopyIn(edits, clock) /\ b \in BOOLEAN
          BY <3>1, <3>2, <3>3
        <4> QED
          BY ONLY <4>1, <3>4, GoingIn
      <3> QED
        BY <3>5, <3>6
    <2>10. RunFits(y)
      <3>1. x.cards \in [Cards -> [text : Nat, at : Nat]]
        BY <1>1 DEF RunFits
      <3>2. ps \in [Copies -> [text : Nat, at : Nat, card : Cards \union {0}, synced : Nat]]
        <4>1. \A v \in CopyIn(edits, clock) : v \in [text : Nat, at : Nat, card : Cards \union {0}, synced : Nat]
          BY <1>1, CopyFits
        <4> QED
          BY <2>1, <4>1
      <3> QED
        BY <1>3, <2>8, <3>1, <3>2 DEF RunFits, WorkSteps
    <2>11. SyncTypes'
      BY <1>1, <2>7, <2>9, <2>10, TypesMove
    <2>12. LinkInv'
      <3>1. Bound(y) /\ \A i \in Copies : y.copies[i].card = copies'[i].card
        BY <1>1, <2>2, <2>8 DEF Bound, WorkSteps
      <3>2. \A q \in Runs \ {r} : run[q].step = "link" =>
              copies'[run[q].slot].card = 0 /\ copies'[run[q].slot].text # 0
                 /\ (y.step = "link" => run[q].slot # y.slot)
        BY <1>1, <2>8 DEF SyncInv, LinkInv
      <3> QED
        BY <1>1, <2>7, <3>1, <3>2, LinksMove DEF SyncInv
    <2>13. EditInv'
      <3>1. ASSUME NEW e \in unsent PROVE Listed(r, e)' /\ Minded(r, e)'
        <4> PICK i : i = Partner(copies, e.card)
          OBVIOUS
        <4>1. Waits(e) /\ Listed(r, e) /\ run'[r] = y
          BY <1>1, <2>7, MovesIs DEF SyncInv, EditInv
        <4>2. Linked(ps, e.card) = Linked(copies, e.card)
          BY <2>2 DEF Linked
        <4>3. i \in Copies
          BY <4>1, PartnerIs DEF Waits
        <4>4. ps[i].synced = copies[i].synced /\ (kind = "deck" => ps[i] = copies[i])
          BY <2>2, <4>3
        <4>5. Minded(r, e)'
          BY <2>8, <4>1 DEF Minded, ListSteps
        <4> QED
          BY <1>1, <2>8, <4>1, <4>2, <4>4, <4>5 DEF Waits, Listed
      <3> QED
        BY <1>1, <2>7, <3>1, EditsAnew DEF SyncInv
    <2> QED
      BY <1>1, <2>11, <2>12, <2>13 DEF SyncInv, NoEditVanishes
  <1> QED
    BY <1>2, <1>3

\* A copy's text is written, with its instant.
Rewrites(i, v, w) == copies' = [copies EXCEPT ![i].text = v, ![i].at = w]

LEMMA RewritesIs ==
  ASSUME NEW n \in Nat, NEW t \in Nat, copies \in [Copies -> CopyIn(n, t)],
         NEW i \in Copies, NEW v \in 0..n, NEW w \in 0..t, Rewrites(i, v, w)
  PROVE  /\ copies' \in [Copies -> CopyIn(n, t)]
         /\ \A j \in Copies \ {i} : copies'[j] = copies[j]
         /\ \A j \in Copies : copies'[j].card = copies[j].card /\ copies'[j].synced = copies[j].synced
         /\ copies'[i].text = v /\ copies'[i].at = w
  <1> PICK x : x = copies[i]
    OBVIOUS
  <1> PICK A, B, C : A = 0..n /\ B = 0..t /\ C = Cards \union {0}
    OBVIOUS
  <1>1. x \in [text : A, at : B, card : C, synced : Nat]
    BY DEF CopyIn
  <1>2. PICK u : u = [x EXCEPT !.text = v]
    OBVIOUS
  <1>3. u \in [text : A, at : B, card : C, synced : Nat] /\ u.text = v /\ u.card = x.card /\ u.synced = x.synced
    BY <1>1, <1>2
  <1>4. PICK z : z = [u EXCEPT !.at = w]
    OBVIOUS
  <1>5. z \in [text : A, at : B, card : C, synced : Nat] /\ z.text = v /\ z.at = w
        /\ z.card = x.card /\ z.synced = x.synced
    BY <1>3, <1>4
  <1>6. z \in CopyIn(n, t)
    BY <1>5 DEF CopyIn
  <1>7. copies' = [copies EXCEPT ![i] = z]
    <2>1. copies' = [copies EXCEPT ![i] = [[x EXCEPT !.text = v] EXCEPT !.at = w]]
      BY DEF Rewrites
    <2> QED
      BY <1>2, <1>4, <2>1
  <1> QED
    BY <1>5, <1>6, <1>7

\* A new card gets its copy: nobody waits for it, as it has no pair yet.
LEMMA PullNewKeeps ==
  ASSUME SyncInv, NEW r \in Runs, NEW c \in Cards, NEW i \in Copies, PullNew(r, c, i)
  PROVE  SyncInv'
  <1> PICK x : x = run[r]
    OBVIOUS
  <1>1. /\ x \in RunIn(edits, clock) /\ RunFits(x) /\ x.step = "next" /\ c \in x.todo
        /\ Linked(x.copies, c) = {} /\ edits \in Nat /\ clock \in Nat /\ SyncTypes
        /\ UNCHANGED <<kind, clock, cards, edits, unsent, lost>> /\ copies[i] = NoCopy
    BY InHand DEF SyncInv, PullNew, At, New
  <1>2. x.cards[c] \in CardIn(edits) /\ x.cards[c].text # 0
    <2>1. x.cards \in [Cards -> CardIn(edits)]
      BY <1>1, InLists
    <2> QED
      BY <1>1, <2>1 DEF RunFits
  <1>3. PICK v : v = x.cards[c].text
    OBVIOUS
  <1>4. v \in 0..edits /\ v # 0
    BY <1>1, <1>2, <1>3, CardIs
  <1>5. copies \in [Copies -> CopyIn(edits, clock)] /\ cards' \in [Cards -> CardIn(edits)]
    BY <1>1 DEF SyncTypes
  <1>6. Rewrites(i, v, clock)
    BY <1>3 DEF PullNew, Rewrites
  <1>7. /\ copies' \in [Copies -> CopyIn(edits, clock)]
        /\ \A j \in Copies \ {i} : copies'[j] = copies[j]
        /\ \A j \in Copies : copies'[j].card = copies[j].card
        /\ copies'[i].text = v
    <2>1. clock \in 0..clock
      BY <1>1
    <2> QED
      BY <1>1, <1>4, <1>5, <1>6, <2>1, RewritesIs
  <1>8. PICK y \in RunIn(edits, clock) :
            /\ Moves(r, y) /\ RunFits(y) /\ Carries(y, run[r])
            /\ y.step = "link" /\ y.card = c /\ y.slot = i
    <2>1. PICK s \in WorkSteps \union {"link"} : s = "link"
      OBVIOUS
    <2>2. PICK o \in CopyIn(edits, clock), b \in BOOLEAN : o = NoCopy /\ b = FALSE
      BY <1>1, NoRunFits
    <2>3. Takes(r, s, c, i, o, b)
      BY <2>1, <2>2 DEF PullNew
    <2> QED
      BY <1>1, <2>1, <2>3, TakesMoves
  <1>9. copies[i].card = 0 /\ copies[i].text = 0
    BY <1>1 DEF NoCopy
  <1>10. SyncTypes'
    BY <1>1, <1>5, <1>7, <1>8, TypesMove
  <1>11. LinkInv'
    <2>1. Bound(y)
      BY <1>4, <1>7, <1>8, <1>9 DEF Bound, WorkSteps
    <2>2. ASSUME NEW q \in Runs \ {r}, run[q].step = "link"
          PROVE  copies'[run[q].slot].card = 0 /\ copies'[run[q].slot].text # 0 /\ run[q].slot # i
      <3>1. run[q].slot \in Copies
        BY <1>1, <2>2 DEF SyncTypes, RunFits
      <3>2. copies[run[q].slot].card = 0 /\ copies[run[q].slot].text # 0
        BY <2>2 DEF SyncInv, LinkInv
      <3> QED
        BY <1>7, <1>9, <3>1, <3>2
    <2>3. SyncTypes /\ LinkInv /\ kind' = kind
      BY <1>1 DEF SyncInv
    <2> QED
      BY <1>7, <1>8, <2>1, <2>2, <2>3, LinksMove
  <1>12. EditInv'
    <2>1. ASSUME NEW e \in unsent
          PROVE  PairStays(e) /\ Waits(e)' /\ y.card # e.card
      <3>1. Waits(e) /\ Listed(r, e) /\ e.card \in Cards
        BY DEF SyncInv, EditInv, SyncTypes
      <3>2. Partner(copies, e.card) \in Copies /\ copies[Partner(copies, e.card)].card = e.card
        BY <3>1, PartnerIs DEF Waits
      <3>3. Partner(copies, e.card) # i
        BY <1>9, <3>1, <3>2, CardsAssumption
      <3>4. copies'[Partner(copies, e.card)] = copies[Partner(copies, e.card)]
        BY <1>7, <3>2, <3>3
      <3>5. Linked(copies', e.card) = Linked(copies, e.card)
        BY <1>7 DEF Linked
      <3>6. Partner(copies', e.card) = Partner(copies, e.card)
        BY <3>5 DEF Partner
      <3>7. PairStays(e)
        BY <1>1, <3>4, <3>5 DEF PairStays
      <3>8. Waits(e)'
        BY <1>1, <3>1, <3>4, <3>5, <3>6 DEF Waits
      <3>9. y.card # e.card
        BY <1>1, <1>8, <3>1 DEF Listed, Waits
      <3> QED
        BY <3>7, <3>8, <3>9
    <2>2. SyncTypes /\ EditInv /\ unsent' = unsent /\ y.step # "list"
      BY <1>1, <1>8 DEF SyncInv
    <2> QED
      BY <1>8, <2>1, <2>2, EditsMove
  <1> QED
    BY <1>1, <1>10, <1>11, <1>12 DEF SyncInv, NoEditVanishes

\* A copy's link is written, with its instant.
Links(i, c, w) == copies' = [copies EXCEPT ![i].card = c, ![i].synced = w]

LEMMA LinksIs ==
  ASSUME NEW n \in Nat, NEW t \in Nat, copies \in [Copies -> CopyIn(n, t)],
         NEW i \in Copies, NEW c \in Cards, NEW w \in Nat, Links(i, c, w)
  PROVE  /\ copies' \in [Copies -> CopyIn(n, t)]
         /\ \A j \in Copies \ {i} : copies'[j] = copies[j]
         /\ copies'[i].card = c /\ copies'[i].text = copies[i].text
  <1> PICK x : x = copies[i]
    OBVIOUS
  <1> PICK A, B, C : A = 0..n /\ B = 0..t /\ C = Cards \union {0}
    OBVIOUS
  <1>1. x \in [text : A, at : B, card : C, synced : Nat] /\ c \in C
    BY DEF CopyIn
  <1>2. PICK u : u = [x EXCEPT !.card = c]
    OBVIOUS
  <1>3. u \in [text : A, at : B, card : C, synced : Nat] /\ u.card = c /\ u.text = x.text
    BY <1>1, <1>2
  <1>4. PICK z : z = [u EXCEPT !.synced = w]
    OBVIOUS
  <1>5. z \in [text : A, at : B, card : C, synced : Nat] /\ z.card = c /\ z.text = x.text
    BY <1>3, <1>4
  <1>6. z \in CopyIn(n, t)
    BY <1>5 DEF CopyIn
  <1>7. copies' = [copies EXCEPT ![i] = z]
    <2>1. copies' = [copies EXCEPT ![i] = [[x EXCEPT !.card = c] EXCEPT !.synced = w]]
      BY DEF Links
    <2> QED
      BY <1>2, <1>4, <2>1
  <1> QED
    BY <1>5, <1>6, <1>7

\* The link of a copy that had none: no edit waits for either of the two.
LEMMA LinkKeeps ==
  ASSUME SyncInv, NEW r \in Runs, Link(r)
  PROVE  SyncInv'
  <1> PICK x : x = run[r]
    OBVIOUS
  <1> PICK i, c : i = x.slot /\ c = x.card
    OBVIOUS
  <1>1. /\ x \in RunIn(edits, clock) /\ RunFits(x) /\ x.step = "link" /\ SyncTypes
        /\ edits \in Nat /\ clock \in Nat
        /\ UNCHANGED <<kind, clock, cards, edits, unsent, lost>>
    BY InHand DEF SyncInv, Link, At
  <1>2. i \in Copies /\ c \in Cards /\ c # 0
    BY <1>1, CardsAssumption DEF RunFits
  <1>3. copies \in [Copies -> CopyIn(edits, clock)] /\ cards' \in [Cards -> CardIn(edits)]
    BY <1>1 DEF SyncTypes
  <1>4. copies[i].card = 0 /\ copies[i].text # 0
    BY <1>1 DEF SyncInv, LinkInv
  <1>5. Links(i, c, clock)
    BY DEF Link, Links
  <1>6. /\ copies' \in [Copies -> CopyIn(edits, clock)]
        /\ \A j \in Copies \ {i} : copies'[j] = copies[j]
        /\ copies'[i].card = c /\ copies'[i].text = copies[i].text
    BY <1>1, <1>2, <1>3, <1>5, LinksIs
  <1>7. PICK y \in RunIn(edits, clock) :
            Moves(r, y) /\ RunFits(y) /\ Carries(y, run[r]) /\ y.step \in {"none", "next"}
    BY <1>1, DoneMoves DEF Link
  <1>8. SyncTypes'
    BY <1>1, <1>3, <1>6, <1>7, TypesMove
  <1>9. LinkInv'
    <2>1. Bound(y) /\ y.step # "link"
      BY <1>7 DEF Bound, WorkSteps
    <2>2. ASSUME NEW q \in Runs \ {r}, run[q].step = "link"
          PROVE  copies'[run[q].slot].card = 0 /\ copies'[run[q].slot].text # 0
      <3>1. run[q].slot \in Copies /\ run[q].slot # i
        BY <1>1, <2>2 DEF SyncTypes, RunFits, SyncInv, LinkInv
      <3>2. copies[run[q].slot].card = 0 /\ copies[run[q].slot].text # 0
        BY <2>2 DEF SyncInv, LinkInv
      <3> QED
        BY <1>6, <3>1, <3>2
    <2>3. SyncTypes /\ LinkInv /\ kind' = kind
      BY <1>1 DEF SyncInv
    <2>4. \A j \in Copies : copies'[j].card = copies[j].card \/ copies[j].card = 0
      BY <1>4, <1>6
    <2> QED
      BY <1>7, <2>1, <2>2, <2>3, <2>4, LinksMove
  <1>10. EditInv'
    <2>1. ASSUME NEW e \in unsent
          PROVE  PairStays(e) /\ Waits(e)'
      <3>1. Waits(e) /\ Minded(r, e) /\ e.card \in Cards
        BY DEF SyncInv, EditInv, SyncTypes
      <3>2. e.card # c
        BY <1>1, <3>1 DEF Minded, ListSteps
      <3>3. e.card # 0 /\ Partner(copies, e.card) \in Copies /\ copies[Partner(copies, e.card)].card = e.card
        BY <3>1, PartnerIs, CardsAssumption DEF Waits
      <3>4. copies'[Partner(copies, e.card)] = copies[Partner(copies, e.card)]
        BY <1>4, <1>6, <3>3
      <3>5. Linked(copies', e.card) = Linked(copies, e.card)
        <4>1. \A j \in Copies : copies'[j].card = e.card <=> copies[j].card = e.card
          BY <1>4, <1>6, <3>2, <3>3
        <4> QED
          BY <4>1 DEF Linked
      <3>6. Partner(copies', e.card) = Partner(copies, e.card)
        BY <3>5 DEF Partner
      <3>7. PairStays(e)
        BY <1>1, <3>4, <3>5 DEF PairStays
      <3>8. Waits(e)'
        BY <1>1, <3>1, <3>4, <3>5, <3>6 DEF Waits
      <3> QED
        BY <3>7, <3>8
    <2>2. SyncTypes /\ EditInv /\ unsent' = unsent /\ y.step # "list" /\ y.step \in ListSteps
      BY <1>1, <1>7 DEF SyncInv, ListSteps
    <2> QED
      BY <1>7, <2>1, <2>2, EditsMove
  <1> QED
    BY <1>1, <1>8, <1>9, <1>10 DEF SyncInv, NoEditVanishes

\* What reaches a side settles the edits of that pair: those it carries have arrived, and
\* one that it replaces has been told.
LEMMA WrittenSettles ==
  ASSUME SyncInv, NEW r \in Runs, NEW side, NEW text, Written(r, side, text),
         \A e \in unsent : e.card = run[r].card =>
            IF e.side = side THEN run[r].told /\ e.text # text ELSE e.text = text
  PROVE  /\ unsent' \subseteq unsent /\ lost' = {}
         /\ \A e \in unsent' : e.card # run[r].card
  <1>1. \A e \in unsent : e.side \in {"cloud", "memaix"}
    BY DEF SyncInv, SyncTypes
  <1>2. lost = {}
    BY DEF SyncInv, NoEditVanishes
  <1> QED
    BY <1>1, <1>2 DEF Written

\* The run is at a pair of which no edit waits any more: it may write to both sides.
LEMMA PairKeeps ==
  ASSUME SyncInv, NEW r \in Runs, NEW y \in RunIn(edits, clock), Moves(r, y), RunFits(y),
         Carries(y, run[r]), y.step \notin {"list", "link"}, Bound(y),
         y.step \in ListSteps \/ y.card = run[r].card, run[r].step \in WorkSteps,
         UNCHANGED <<kind, clock, edits>>, unsent' \subseteq unsent, lost' = {},
         cards' \in [Cards -> CardIn(edits)], copies' \in [Copies -> CopyIn(edits, clock)],
         \A c \in Cards \ {run[r].card} : cards'[c] = cards[c],
         \A j \in Copies \ {run[r].slot} : copies'[j] = copies[j],
         copies'[run[r].slot].card = run[r].card,
         \A e \in unsent' : e.card # run[r].card
  PROVE  SyncInv'
  <1> PICK i : i = run[r].slot
    OBVIOUS
  <1>1. SyncTypes /\ LinkInv /\ EditInv
    BY DEF SyncInv
  <1>2. SyncTypes'
    BY <1>1, TypesMove
  <1>3. copies[i].card = run[r].card /\ i \in Copies /\ run[r].card \in Cards /\ run[r].card # 0
    BY <1>1, CardsAssumption DEF LinkInv, SyncTypes, RunFits
  <1>4. \A j \in Copies : copies'[j].card = copies[j].card
    BY <1>3
  <1>5. LinkInv'
    <2>1. ASSUME NEW q \in Runs \ {r}, run[q].step = "link"
          PROVE  copies'[run[q].slot].card = 0 /\ copies'[run[q].slot].text # 0
      <3>1. run[q].slot \in Copies /\ copies[run[q].slot].card = 0 /\ copies[run[q].slot].text # 0
        BY <1>1, <2>1 DEF SyncTypes, RunFits, LinkInv
      <3>2. run[q].slot # i
        BY <1>3, <3>1
      <3> QED
        BY <3>1, <3>2
    <2> QED
      BY <1>1, <1>4, <2>1, LinksMove
  <1>6. EditInv'
    <2>1. ASSUME NEW e \in unsent'
          PROVE  PairStays(e) /\ Waits(e)'
      <3>1. Waits(e) /\ e.card \in Cards /\ e.card # run[r].card
        BY <1>1 DEF EditInv, SyncTypes
      <3>2. Partner(copies, e.card) \in Copies /\ copies[Partner(copies, e.card)].card = e.card
        BY <3>1, PartnerIs DEF Waits
      <3>3. copies'[Partner(copies, e.card)] = copies[Partner(copies, e.card)]
        BY <1>3, <3>1, <3>2
      <3>4. cards'[e.card] = cards[e.card]
        BY <3>1
      <3>5. Linked(copies', e.card) = Linked(copies, e.card)
        BY <1>4 DEF Linked
      <3>6. Partner(copies', e.card) = Partner(copies, e.card)
        BY <3>5 DEF Partner
      <3>7. PairStays(e)
        BY <3>3, <3>4, <3>5 DEF PairStays
      <3>8. Waits(e)'
        BY <3>1, <3>3, <3>4, <3>5, <3>6 DEF Waits
      <3> QED
        BY <3>7, <3>8
    <2> QED
      BY <1>1, <2>1, EditsMove
  <1> QED
    BY <1>2, <1>5, <1>6 DEF SyncInv, NoEditVanishes

\* A run at its card, with what it has in hand.
LEMMA AtWork ==
  ASSUME SyncInv, NEW r \in Runs, run[r].step \in WorkSteps
  PROVE  /\ run[r] \in RunIn(edits, clock) /\ RunFits(run[r]) /\ SyncTypes
         /\ edits \in Nat /\ clock \in Nat
         /\ run[r].card \in Cards /\ run[r].slot \in Copies /\ run[r].old \in CopyIn(edits, clock)
         /\ run[r].old.text \in 0..edits
         /\ copies \in [Copies -> CopyIn(edits, clock)] /\ cards \in [Cards -> CardIn(edits)]
         /\ copies[run[r].slot] \in CopyIn(edits, clock)
         /\ copies[run[r].slot].card = run[r].card
         /\ copies[run[r].slot].card \in Cards \union {0} /\ copies[run[r].slot].synced \in Nat
  <1>1. run[r] \in RunIn(edits, clock) /\ RunFits(run[r]) /\ SyncTypes /\ edits \in Nat /\ clock \in Nat
    BY InHand DEF SyncInv
  <1>2. run[r].card \in Cards /\ run[r].slot \in Copies
    BY <1>1 DEF RunFits
  <1>3. run[r].old \in CopyIn(edits, clock)
    BY <1>1, RunIs
  <1>4. run[r].old.text \in 0..edits
    BY <1>1, <1>3, CopyIs
  <1>5. copies \in [Copies -> CopyIn(edits, clock)] /\ cards \in [Cards -> CardIn(edits)]
    BY <1>1 DEF SyncTypes
  <1>6. copies[run[r].slot] \in CopyIn(edits, clock)
    BY <1>2, <1>5
  <1>7. copies[run[r].slot].card \in Cards \union {0} /\ copies[run[r].slot].synced \in Nat
    BY <1>1, <1>6, CopyIs
  <1>8. copies[run[r].slot].card = run[r].card
    BY DEF SyncInv, LinkInv
  <1> QED
    BY <1>1, <1>2, <1>3, <1>4, <1>5, <1>6, <1>7, <1>8

\* A pull's text is that of the card's edit; an edit of the copy that it replaces is told.
LEMMA PullSettles ==
  ASSUME SyncInv, NEW r \in Runs, run[r].step = "pull", Written(r, "memaix", run[r].old.text)
  PROVE  /\ unsent' \subseteq unsent /\ lost' = {}
         /\ \A e \in unsent' : e.card # run[r].card
  <1>1. ASSUME NEW e \in unsent, e.card = run[r].card
        PROVE  IF e.side = "memaix" THEN run[r].told /\ e.text # run[r].old.text
               ELSE e.text = run[r].old.text
    <2>1. Minded(r, e) /\ e.side \in {"cloud", "memaix"}
      BY DEF SyncInv, EditInv, SyncTypes
    <2> QED
      BY <1>1, <2>1 DEF Minded, ListSteps
  <1> QED
    BY <1>1, WrittenSettles

LEMMA PullIntoItemKeeps ==
  ASSUME SyncInv, NEW r \in Runs, PullIntoItem(r)
  PROVE  SyncInv'
  <1> PICK x, i, v : x = run[r] /\ i = x.slot /\ v = x.old.text
    OBVIOUS
  <1>1. x.step = "pull" /\ x.step \in WorkSteps
    BY DEF PullIntoItem, At, WorkSteps
  <1>2. /\ x \in RunIn(edits, clock) /\ SyncTypes /\ edits \in Nat /\ clock \in Nat
        /\ x.card \in Cards /\ i \in Copies /\ v \in 0..edits
        /\ copies \in [Copies -> CopyIn(edits, clock)] /\ cards \in [Cards -> CardIn(edits)]
        /\ copies[i].card = x.card
    BY <1>1, AtWork
  <1>3. PICK z : z = [text |-> v, at |-> clock, card |-> copies[i].card, synced |-> clock]
    OBVIOUS
  <1>4. copies' = [copies EXCEPT ![i] = z]
    BY <1>3 DEF PullIntoItem
  <1>5. z \in CopyIn(edits, clock) /\ z.card = x.card
    BY <1>2, <1>3 DEF CopyIn
  <1>6. /\ copies' \in [Copies -> CopyIn(edits, clock)]
        /\ \A j \in Copies \ {i} : copies'[j] = copies[j]
        /\ copies'[i].card = x.card
    BY <1>2, <1>4, <1>5
  <1>7. PICK y \in RunIn(edits, clock) :
            Moves(r, y) /\ RunFits(y) /\ Carries(y, run[r]) /\ y.step \in {"none", "next"}
    BY <1>2, DoneMoves DEF PullIntoItem
  <1>8. unsent' \subseteq unsent /\ lost' = {} /\ \A e \in unsent' : e.card # x.card
    BY <1>1, PullSettles DEF PullIntoItem
  <1>9. Bound(y) /\ y.step \notin {"list", "link"} /\ y.step \in ListSteps
    BY <1>7 DEF Bound, WorkSteps, ListSteps
  <1>10. UNCHANGED <<kind, clock, edits>> /\ cards' = cards
    BY DEF PullIntoItem
  <1> QED
    BY <1>1, <1>2, <1>6, <1>7, <1>8, <1>9, <1>10, PairKeeps

LEMMA PullIntoNoteKeeps ==
  ASSUME SyncInv, NEW r \in Runs, PullIntoNote(r)
  PROVE  SyncInv'
  <1> PICK x, i, v : x = run[r] /\ i = x.slot /\ v = x.old.text
    OBVIOUS
  <1>1. x.step = "pull" /\ x.step \in WorkSteps
    BY DEF PullIntoNote, At, WorkSteps
  <1>2. /\ x \in RunIn(edits, clock) /\ SyncTypes /\ edits \in Nat /\ clock \in Nat
        /\ x.card \in Cards /\ i \in Copies /\ v \in 0..edits
        /\ copies \in [Copies -> CopyIn(edits, clock)] /\ cards \in [Cards -> CardIn(edits)]
        /\ copies[i].card = x.card
    BY <1>1, AtWork
  <1>3. Rewrites(i, v, clock)
    BY DEF PullIntoNote, Rewrites
  <1>4. clock \in 0..clock
    BY <1>2
  <1>6. /\ copies' \in [Copies -> CopyIn(edits, clock)]
        /\ \A j \in Copies \ {i} : copies'[j] = copies[j]
        /\ copies'[i].card = x.card
    BY <1>2, <1>3, <1>4, RewritesIs
  <1>5. PICK s \in WorkSteps, o \in CopyIn(edits, clock) : s = "stamp" /\ o = NoCopy
    BY <1>2, NoRunFits DEF WorkSteps
  <1>11. GoesOn(r, s, o)
    BY <1>5 DEF PullIntoNote, GoesOn
  <1>7. PICK y \in RunIn(edits, clock) :
            /\ Moves(r, y) /\ RunFits(y) /\ Carries(y, run[r])
            /\ y.step = s /\ y.card = x.card /\ y.slot = i
    BY <1>1, <1>2, <1>5, <1>11, StepMoves
  <1>8. unsent' \subseteq unsent /\ lost' = {} /\ \A e \in unsent' : e.card # x.card
    BY <1>1, PullSettles DEF PullIntoNote
  <1>9. Bound(y) /\ y.step \notin {"list", "link"}
    BY <1>5, <1>6, <1>7 DEF Bound, WorkSteps, PullIntoNote
  <1>10. UNCHANGED <<kind, clock, edits>> /\ cards' = cards
    BY DEF PullIntoNote
  <1> QED
    BY <1>1, <1>2, <1>6, <1>7, <1>8, <1>9, <1>10, PairKeeps

\* An instant in whole seconds is an instant.
LEMMA SecondIs ==
  ASSUME NEW t \in Nat
  PROVE  Second(t) \in Nat
  <1>1. PICK q : q = t \div PerSecond
    OBVIOUS
  <1>2. q \in Nat
    BY <1>1, ClockAssumption
  <1>3. PerSecond * q \in Nat
    BY <1>2, ClockAssumption
  <1> QED
    BY <1>1, <1>3 DEF Second

LEMMA PushKeeps ==
  ASSUME SyncInv, NEW r \in Runs, Push(r)
  PROVE  SyncInv'
  <1> PICK x, c, v : x = run[r] /\ c = x.card /\ v = x.old.text
    OBVIOUS
  <1>1. x.step = "push" /\ x.step \in WorkSteps
    BY DEF Push, At, WorkSteps
  <1>2. /\ x \in RunIn(edits, clock) /\ SyncTypes /\ edits \in Nat /\ clock \in Nat
        /\ c \in Cards /\ x.slot \in Copies /\ v \in 0..edits
        /\ copies \in [Copies -> CopyIn(edits, clock)] /\ cards \in [Cards -> CardIn(edits)]
        /\ copies[x.slot].card = c
    BY <1>1, AtWork
  <1>3. UNCHANGED <<kind, clock, copies, edits>>
    BY DEF Push
  <1>4. CASE cards[c].text = 0
    BY <1>3, <1>4, FinStill DEF Push
  <1>5. CASE cards[c].text # 0
    <2>1. PICK z : z = [text |-> v, at |-> Second(clock)]
      OBVIOUS
    <2>2. z \in CardIn(edits)
      <3>1. Second(clock) \in Nat
        BY <1>2, SecondIs
      <3> QED
        BY <1>2, <2>1, <3>1 DEF CardIn
    <2>3. cards' = [cards EXCEPT ![c] = z] /\ Written(r, "cloud", v)
      BY <1>5, <2>1 DEF Push
    <2>4. cards' \in [Cards -> CardIn(edits)] /\ \A d \in Cards \ {c} : cards'[d] = cards[d]
      BY <1>2, <2>2, <2>3
    <2>5. PICK s \in WorkSteps, o \in CopyIn(edits, clock) :
             s = (IF kind = "deck" THEN "file" ELSE "stamp") /\ o = NoCopy
      BY <1>2, NoRunFits DEF WorkSteps
    <2>6. GoesOn(r, s, o)
      BY <1>5, <2>5 DEF Push, GoesOn
    <2>7. PICK y \in RunIn(edits, clock) :
            /\ Moves(r, y) /\ RunFits(y) /\ Carries(y, run[r])
            /\ y.step = s /\ y.card = c /\ y.slot = x.slot
      BY <1>1, <1>2, <2>5, <2>6, StepMoves
    <2>8. ASSUME NEW e \in unsent, e.card = run[r].card
          PROVE  IF e.side = "cloud" THEN run[r].told /\ e.text # v ELSE e.text = v
      <3>1. Minded(r, e) /\ e.side \in {"cloud", "memaix"}
        BY DEF SyncInv, EditInv, SyncTypes
      <3> QED
        BY <1>1, <2>8, <3>1 DEF Minded, ListSteps
    <2>9. unsent' \subseteq unsent /\ lost' = {} /\ \A e \in unsent' : e.card # run[r].card
      BY <2>3, <2>8, WrittenSettles
    <2>10. Bound(y) /\ y.step \notin {"list", "link"}
      BY <1>2, <1>3, <2>5, <2>7 DEF Bound, WorkSteps
    <2> QED
      BY <1>1, <1>2, <1>3, <2>4, <2>7, <2>9, <2>10, PairKeeps
  <1> QED
    BY <1>4, <1>5

LEMMA RestampKeeps ==
  ASSUME SyncInv, NEW r \in Runs, Restamp(r)
  PROVE  SyncInv'
  <1> PICK x, i : x = run[r] /\ i = x.slot
    OBVIOUS
  <1>1. x.step = "stamp" /\ x.step \in WorkSteps
    BY DEF Restamp, At, WorkSteps
  <1>2. /\ x \in RunIn(edits, clock) /\ SyncTypes /\ edits \in Nat /\ clock \in Nat
        /\ x.card \in Cards /\ i \in Copies /\ x.old \in CopyIn(edits, clock)
        /\ copies \in [Copies -> CopyIn(edits, clock)] /\ cards \in [Cards -> CardIn(edits)]
        /\ copies[i] \in CopyIn(edits, clock) /\ copies[i].card = x.card
    BY <1>1, AtWork
  <1>3. PICK w : w = IF kind = "deck" THEN x.old ELSE copies[i]
    OBVIOUS
  <1>4. w \in CopyIn(edits, clock) /\ w.card = x.card
    BY <1>1, <1>2, <1>3 DEF SyncInv, LinkInv
  <1>5. PICK z : z = [w EXCEPT !.synced = clock]
    OBVIOUS
  <1>6. z \in CopyIn(edits, clock) /\ z.card = x.card
    BY <1>2, <1>4, <1>5 DEF CopyIn
  <1>7. copies' = [copies EXCEPT ![i] = z]
    BY <1>3, <1>5 DEF Restamp
  <1>8. /\ copies' \in [Copies -> CopyIn(edits, clock)]
        /\ \A j \in Copies \ {i} : copies'[j] = copies[j]
        /\ copies'[i].card = x.card
    BY <1>2, <1>6, <1>7
  <1>9. PICK y \in RunIn(edits, clock) :
            Moves(r, y) /\ RunFits(y) /\ Carries(y, run[r]) /\ y.step \in {"none", "next"}
    BY <1>2, DoneMoves DEF Restamp
  <1>10. \A e \in unsent : e.card # x.card
    BY <1>1 DEF SyncInv, EditInv, Minded, ListSteps
  <1>11. Bound(y) /\ y.step \notin {"list", "link"} /\ y.step \in ListSteps
    BY <1>9 DEF Bound, WorkSteps, ListSteps
  <1>12. UNCHANGED <<kind, clock, edits>> /\ cards' = cards /\ unsent' = unsent /\ lost' = {}
    BY DEF Restamp, SyncInv, NoEditVanishes
  <1> QED
    BY <1>1, <1>2, <1>8, <1>9, <1>10, <1>11, <1>12, PairKeeps

\* People: what runs are at stays as it is, and their lists are those they had.
LEMMA TypesGrow ==
  ASSUME SyncTypes, edits' \in Nat, edits <= edits', clock' \in Nat, clock <= clock', run' = run,
         cards' \in [Cards -> CardIn(edits')], copies' \in [Copies -> CopyIn(edits', clock')],
         unsent' \subseteq [side : {"cloud", "memaix"}, card : Cards, text : 1..edits']
  PROVE  SyncTypes'
  <1>1. edits \in Nat /\ clock \in Nat /\ run \in [Runs -> RunIn(edits, clock)]
        /\ \A r \in Runs : RunFits(run[r])
    BY DEF SyncTypes
  <1>2. RunIn(edits, clock) \subseteq RunIn(edits', clock')
    BY <1>1, Growing
  <1>3. run' \in [Runs -> RunIn(edits', clock')]
    BY <1>1, <1>2
  <1> HIDE DEF RunFits
  <1> QED
    BY <1>1, <1>3 DEF SyncTypes

LEMMA LinksLast ==
  ASSUME LinkInv, SyncTypes, run' = run, kind' = kind,
         \A j \in Copies : /\ copies'[j].card = copies[j].card
                           /\ copies[j].text # 0 => copies'[j].text # 0
  PROVE  LinkInv'
  <1>1. \A r \in Runs : run[r].step \in WorkSteps \union {"link"} => run[r].slot \in Copies
    BY DEF SyncTypes, RunFits
  <1> QED
    BY <1>1 DEF LinkInv

LEMMA EditsLast ==
  ASSUME EditInv, run' = run,
         \A e \in unsent' : Waits(e)' /\ ((e \in unsent /\ PairStays(e)) \/ Quietly)
  PROVE  EditInv'
  <1> SUFFICES ASSUME NEW e \in unsent', NEW q \in Runs
               PROVE  Waits(e)' /\ Listed(q, e)' /\ Minded(q, e)'
    BY DEF EditInv
  <1>1. CASE e \in unsent /\ PairStays(e)
    BY <1>1, ListedStays, MindedStays DEF EditInv
  <1>2. CASE Quietly
    <2>1. PICK x : x = run[q] /\ x.step = "none" /\ x.todo = {}
      BY <1>2 DEF Quietly, NoRun
    <2> QED
      BY <2>1 DEF Listed, Minded, ListSteps
  <1> QED
    BY <1>1, <1>2

LEMMA PassesKeeps ==
  ASSUME SyncInv, Passes
  PROVE  SyncInv'
  <1>1. /\ SyncTypes /\ LinkInv /\ EditInv /\ clock \in Nat /\ edits \in Nat
        /\ clock' = clock + 1 /\ UNCHANGED <<kind, cards, copies, run, edits, unsent, lost>>
    BY DEF SyncInv, SyncTypes, Passes
  <1>2. SyncTypes'
    <2>1. clock' \in Nat /\ clock <= clock' /\ edits <= edits
      BY <1>1
    <2>2. [Copies -> CopyIn(edits, clock)] \subseteq [Copies -> CopyIn(edits, clock')]
      BY <1>1, <2>1, Growing
    <2>3. cards' \in [Cards -> CardIn(edits')] /\ copies' \in [Copies -> CopyIn(edits', clock')]
          /\ unsent' \subseteq [side : {"cloud", "memaix"}, card : Cards, text : 1..edits']
      BY <1>1, <2>2 DEF SyncTypes
    <2> QED
      BY <1>1, <2>1, <2>3, TypesGrow
  <1>3. LinkInv'
    BY <1>1, LinksLast
  <1>4. EditInv'
    <2>1. \A e \in unsent : PairStays(e) /\ Waits(e)'
      BY <1>1 DEF PairStays, Waits, EditInv
    <2> QED
      BY <1>1, <2>1, EditsLast
  <1> QED
    BY <1>1, <1>2, <1>3, <1>4 DEF SyncInv, NoEditVanishes

LEMMA RemoveCardKeeps ==
  ASSUME SyncInv, NEW c \in Cards, RemoveCard(c)
  PROVE  SyncInv'
  <1>1. /\ SyncTypes /\ LinkInv /\ EditInv /\ clock \in Nat /\ edits \in Nat /\ edits' = edits + 1
        /\ cards' = [cards EXCEPT ![c] = NoCard] /\ unsent' = {e \in unsent : e.card # c}
        /\ UNCHANGED <<kind, clock, copies, run, lost>>
    BY DEF SyncInv, SyncTypes, RemoveCard
  <1>2. SyncTypes'
    <2>1. edits' \in Nat /\ edits <= edits' /\ clock <= clock'
      BY <1>1
    <2>2. /\ [Copies -> CopyIn(edits, clock)] \subseteq [Copies -> CopyIn(edits', clock')]
          /\ [Cards -> CardIn(edits)] \subseteq [Cards -> CardIn(edits')]
      BY <1>1, <2>1, Growing
    <2>3. NoCard \in CardIn(edits')
      BY <2>1 DEF NoCard, CardIn
    <2>4. cards \in [Cards -> CardIn(edits')] /\ copies' \in [Copies -> CopyIn(edits', clock')]
      BY <1>1, <2>2 DEF SyncTypes
    <2>5. cards' \in [Cards -> CardIn(edits')]
      BY <1>1, <2>3, <2>4
    <2>6. unsent' \subseteq [side : {"cloud", "memaix"}, card : Cards, text : 1..edits']
      <3>1. \A n \in 1..edits : n \in 1..edits'
        BY <1>1
      <3>2. 1..edits \subseteq 1..edits' /\ unsent' \subseteq unsent
        BY <1>1, <3>1
      <3>3. unsent \subseteq [side : {"cloud", "memaix"}, card : Cards, text : 1..edits]
        BY <1>1 DEF SyncTypes
      <3> QED
        BY <3>2, <3>3
    <2> QED
      BY <1>1, <2>1, <2>4, <2>5, <2>6, TypesGrow
  <1>3. LinkInv'
    BY <1>1, LinksLast
  <1>4. EditInv'
    <2>1. ASSUME NEW e \in unsent' PROVE e \in unsent /\ PairStays(e) /\ Waits(e)'
      <3>1. e \in unsent /\ e.card \in Cards /\ e.card # c /\ Waits(e)
        BY <1>1 DEF SyncTypes, EditInv
      <3>2. cards'[e.card] = cards[e.card]
        BY <1>1, <3>1 DEF SyncTypes
      <3> QED
        BY <1>1, <3>1, <3>2 DEF PairStays, Waits
    <2> QED
      BY <1>1, <2>1, EditsLast
  <1> QED
    BY <1>1, <1>2, <1>3, <1>4 DEF SyncInv, NoEditVanishes

LEMMA TouchCopyKeeps ==
  ASSUME SyncInv, NEW i \in Copies, TouchCopy(i)
  PROVE  SyncInv'
  <1>1. /\ SyncTypes /\ LinkInv /\ EditInv /\ clock \in Nat /\ edits \in Nat /\ edits' = edits + 1
        /\ UNCHANGED <<kind, clock, cards, run, unsent, lost>>
    BY DEF SyncInv, SyncTypes, TouchCopy
  <1>2. copies \in [Copies -> CopyIn(edits, clock)]
    BY <1>1 DEF SyncTypes
  <1>3. PICK z : z = [copies[i] EXCEPT !.at = clock]
    OBVIOUS
  <1>4. copies' = [copies EXCEPT ![i] = z]
    BY <1>3 DEF TouchCopy
  <1>5. z \in CopyIn(edits, clock) /\ z.text = copies[i].text /\ z.at = clock
        /\ z.card = copies[i].card /\ z.synced = copies[i].synced
    <2>1. clock \in 0..clock
      BY <1>1
    <2> QED
      BY <1>2, <1>3, <2>1 DEF CopyIn
  <1>6. /\ copies' \in [Copies -> CopyIn(edits, clock)]
        /\ \A j \in Copies : /\ copies'[j].text = copies[j].text /\ copies'[j].card = copies[j].card
                             /\ copies'[j].synced = copies[j].synced
                             /\ copies'[j].at = copies[j].at \/ copies'[j].at = clock
    BY <1>2, <1>4, <1>5
  <1>7. SyncTypes'
    <2>1. edits' \in Nat /\ edits <= edits' /\ clock <= clock'
      BY <1>1
    <2>2. /\ [Copies -> CopyIn(edits, clock)] \subseteq [Copies -> CopyIn(edits', clock')]
          /\ [Cards -> CardIn(edits)] \subseteq [Cards -> CardIn(edits')]
      BY <1>1, <2>1, Growing
    <2>3. cards' \in [Cards -> CardIn(edits')] /\ copies' \in [Copies -> CopyIn(edits', clock')]
      BY <1>1, <1>6, <2>2 DEF SyncTypes
    <2>4. unsent' \subseteq [side : {"cloud", "memaix"}, card : Cards, text : 1..edits']
      <3>1. \A n \in 1..edits : n \in 1..edits'
        BY <1>1
      <3>2. 1..edits \subseteq 1..edits'
        BY <3>1
      <3>3. unsent \subseteq [side : {"cloud", "memaix"}, card : Cards, text : 1..edits]
        BY <1>1 DEF SyncTypes
      <3> QED
        BY <1>1, <3>2, <3>3
    <2> QED
      BY <1>1, <2>1, <2>3, <2>4, TypesGrow
  <1>8. LinkInv'
    BY <1>1, <1>6, LinksLast
  <1>9. EditInv'
    <2>1. ASSUME NEW e \in unsent' PROVE e \in unsent /\ PairStays(e) /\ Waits(e)'
      <3> PICK j : j = Partner(copies, e.card)
        OBVIOUS
      <3>1. e \in unsent /\ Waits(e)
        BY <1>1 DEF EditInv
      <3>2. j \in Copies
        BY <3>1, PartnerIs DEF Waits
      <3>3. Linked(copies', e.card) = Linked(copies, e.card)
        BY <1>6 DEF Linked
      <3>4. Partner(copies', e.card) = j
        BY <3>3 DEF Partner
      <3>5. PairStays(e)
        BY <1>1, <1>6, <3>2, <3>3 DEF PairStays
      <3>6. copies[j].at > copies[j].synced => copies'[j].at > copies[j].synced
        <4>1. copies[j] \in CopyIn(edits, clock)
          BY <1>2, <3>2
        <4>2. copies[j].at \in 0..clock /\ copies[j].synced \in Nat
          BY <1>1, <4>1, CopyIs
        <4>3. copies'[j].at = copies[j].at \/ copies'[j].at = clock
          BY <1>6, <3>2
        <4> QED
          BY <1>1, <4>2, <4>3
      <3>7. Waits(e)'
        BY <1>1, <1>6, <3>1, <3>2, <3>3, <3>4, <3>6 DEF Waits
      <3> QED
        BY <3>1, <3>5, <3>7
    <2> QED
      BY <1>1, <2>1, EditsLast
  <1> QED
    BY <1>1, <1>7, <1>8, <1>9 DEF SyncInv, NoEditVanishes

\* An edit that has to arrive comes to those that wait, in place of its side's last one.
LEMMA EditedIs ==
  ASSUME SyncTypes, NEW side \in {"cloud", "memaix"}, NEW c \in Cards, NEW stamp, Edited(side, c, stamp)
  PROVE  /\ edits' = edits + 1
         /\ unsent' \subseteq [side : {"cloud", "memaix"}, card : Cards, text : 1..edits']
         /\ \A e \in unsent' :
              \/ e \in unsent /\ (e.card = c => e.side # side)
              \/ /\ e.side = side /\ e.card = c /\ e.text = edits'
                 /\ Quietly /\ Linked(copies, c) # {} /\ stamp > copies[Partner(copies, c)].synced
  <1>1. edits \in Nat /\ edits' = edits + 1
    BY DEF SyncTypes, Edited
  <1>2. PICK new : new = [side |-> side, card |-> c, text |-> edits']
    OBVIOUS
  <1>3. PICK old : old = {e \in unsent : e.side = side /\ e.card = c}
    OBVIOUS
  <1>4. new \in [side : {"cloud", "memaix"}, card : Cards, text : 1..edits']
        /\ new.side = side /\ new.card = c /\ new.text = edits'
    <2>1. edits' \in 1..edits'
      BY <1>1
    <2> QED
      BY <1>2, <2>1
  <1>5. unsent \subseteq [side : {"cloud", "memaix"}, card : Cards, text : 1..edits']
    <2>1. \A n \in 1..edits : n \in 1..edits'
      BY <1>1
    <2>2. 1..edits \subseteq 1..edits'
      BY <2>1
    <2>3. unsent \subseteq [side : {"cloud", "memaix"}, card : Cards, text : 1..edits]
      BY DEF SyncTypes
    <2> QED
      BY <2>2, <2>3
  <1>6. ASSUME NEW e \in unsent'
        PROVE  \/ e \in unsent /\ e \notin old
               \/ e = new /\ Quietly /\ Linked(copies, c) # {} /\ stamp > copies[Partner(copies, c)].synced
    BY <1>2, <1>3 DEF Edited
  <1>7. \A e \in unsent \ old : e.card = c => e.side # side
    BY <1>3
  <1> QED
    BY <1>1, <1>4, <1>5, <1>6, <1>7

LEMMA EditCardKeeps ==
  ASSUME SyncInv, NEW c \in Cards, EditCard(c)
  PROVE  SyncInv'
  <1>1. /\ SyncTypes /\ LinkInv /\ EditInv /\ clock \in Nat /\ edits \in Nat
        /\ Edited("cloud", c, Second(clock)) /\ edits' = edits + 1
        /\ UNCHANGED <<kind, clock, copies, run, lost>>
    BY DEF SyncInv, SyncTypes, EditCard, Edited
  <1>2. PICK w \in Nat : w = Second(clock)
    BY <1>1, SecondIs
  <1>3. PICK z : z = [text |-> edits', at |-> w]
    OBVIOUS
  <1>4. cards' = [cards EXCEPT ![c] = z]
    BY <1>2, <1>3 DEF EditCard
  <1>5. PICK side \in {"cloud", "memaix"} : side = "cloud"
    OBVIOUS
  <1>6. /\ unsent' \subseteq [side : {"cloud", "memaix"}, card : Cards, text : 1..edits']
        /\ \A e \in unsent' :
             \/ e \in unsent /\ (e.card = c => e.side # "cloud")
             \/ /\ e.side = "cloud" /\ e.card = c /\ e.text = edits'
                /\ Quietly /\ Linked(copies, c) # {} /\ w > copies[Partner(copies, c)].synced
    <2>1. Edited(side, c, w)
      BY <1>1, <1>2, <1>5
    <2> QED
      BY <1>1, <1>5, <2>1, EditedIs
  <1>7. /\ \A d \in Cards \ {c} : cards'[d] = cards[d]
        /\ cards'[c].text = edits' /\ cards'[c].at = w
    BY <1>1, <1>3, <1>4 DEF SyncTypes
  <1>8. SyncTypes'
    <2>1. edits' \in Nat /\ edits <= edits' /\ clock <= clock'
      BY <1>1
    <2>2. /\ [Copies -> CopyIn(edits, clock)] \subseteq [Copies -> CopyIn(edits', clock')]
          /\ [Cards -> CardIn(edits)] \subseteq [Cards -> CardIn(edits')]
      BY <1>1, <2>1, Growing
    <2>3. z \in CardIn(edits')
      <3>1. edits' \in 0..edits'
        BY <2>1
      <3> QED
        BY <1>3, <3>1 DEF CardIn
    <2>4. cards \in [Cards -> CardIn(edits')] /\ copies' \in [Copies -> CopyIn(edits', clock')]
      BY <1>1, <2>2 DEF SyncTypes
    <2>5. cards' \in [Cards -> CardIn(edits')]
      BY <1>4, <2>3, <2>4
    <2> QED
      BY <1>1, <1>6, <2>1, <2>4, <2>5, TypesGrow
  <1>9. LinkInv'
    BY <1>1, LinksLast
  <1>10. EditInv'
    <2>1. ASSUME NEW e \in unsent'
          PROVE  Waits(e)' /\ ((e \in unsent /\ PairStays(e)) \/ Quietly)
      <3>1. CASE e \in unsent /\ (e.card = c => e.side # "cloud")
        <4>1. Waits(e) /\ e.card \in Cards /\ e.text \in 1..edits /\ e.side \in {"cloud", "memaix"}
          BY <1>1, <3>1 DEF SyncTypes, EditInv
        <4>2. edits' # e.text /\ edits' # 0
          BY <1>1, <4>1
        <4>3. e.side = "cloud" => cards'[e.card] = cards[e.card]
          BY <1>7, <3>1, <4>1
        <4>4. PairStays(e)
          BY <1>1, <4>3 DEF PairStays
        <4>5. e.side = "memaix" => cards'[e.card].text # e.text /\ cards'[e.card].text # 0
          BY <1>7, <4>1, <4>2 DEF Waits
        <4> QED
          BY <1>1, <3>1, <4>1, <4>3, <4>4, <4>5 DEF Waits
      <3>2. CASE /\ e.side = "cloud" /\ e.card = c /\ e.text = edits'
                 /\ Quietly /\ Linked(copies, c) # {} /\ w > copies[Partner(copies, c)].synced
        <4>1. copies[Partner(copies, c)].text \in 0..edits
          <5>1. copies[Partner(copies, c)] \in CopyIn(edits, clock)
            BY <1>1, <3>2, PartnerIs DEF SyncTypes
          <5> QED
            BY <1>1, <5>1, CopyIs
        <4>2. copies[Partner(copies, c)].text # edits' /\ edits' # 0
          BY <1>1, <4>1
        <4> QED
          BY <1>1, <1>7, <3>2, <4>2 DEF Waits
      <3> QED
        BY <1>6, <3>1, <3>2
    <2> QED
      BY <1>1, <2>1, EditsLast
  <1> QED
    BY <1>1, <1>8, <1>9, <1>10 DEF SyncInv, NoEditVanishes

LEMMA EditCopyKeeps ==
  ASSUME SyncInv, NEW i \in Copies, EditCopy(i)
  PROVE  SyncInv'
  <1> PICK c : c = copies[i].card
    OBVIOUS
  <1> DEFINE Paired == c # 0 /\ i = Partner(copies, c) /\ cards[c].text # 0
  <1>1. /\ SyncTypes /\ LinkInv /\ EditInv /\ clock \in Nat /\ edits \in Nat
        /\ copies \in [Copies -> CopyIn(edits, clock)] /\ cards \in [Cards -> CardIn(edits)]
        /\ UNCHANGED <<kind, clock, cards, run, lost>>
    BY DEF SyncInv, SyncTypes, EditCopy
  <1>2. Paired => Edited("memaix", c, clock)
    BY DEF EditCopy
  <1>3. ~Paired => unsent' = unsent /\ edits' = edits + 1
    BY DEF EditCopy
  <1>4. edits' = edits + 1
    BY <1>2, <1>3 DEF Edited
  <1>5. c \in Cards \union {0}
    BY <1>1, CopyIs
  <1>6. edits' \in Nat /\ edits <= edits' /\ clock <= clock' /\ edits' # 0
    BY <1>1, <1>4
  <1>7. /\ [Copies -> CopyIn(edits, clock)] \subseteq [Copies -> CopyIn(edits', clock)]
        /\ [Cards -> CardIn(edits)] \subseteq [Cards -> CardIn(edits')]
    BY <1>1, <1>6, Growing
  <1>8. copies \in [Copies -> CopyIn(edits', clock)] /\ cards' \in [Cards -> CardIn(edits')]
    BY <1>1, <1>7
  <1>9. Rewrites(i, edits', clock)
    BY DEF EditCopy, Rewrites
  <1>0. PICK n \in Nat : n = edits'
    BY <1>6
  <1>10. PICK v \in 0..n, w \in 0..clock : n = edits' /\ v = edits' /\ w = clock
    <2>1. n \in 0..n /\ clock \in 0..clock
      BY <1>1
    <2> QED
      BY <1>0, <2>1
  <1>11. /\ copies' \in [Copies -> CopyIn(n, clock)]
         /\ \A j \in Copies \ {i} : copies'[j] = copies[j]
         /\ \A j \in Copies : copies'[j].card = copies[j].card /\ copies'[j].synced = copies[j].synced
         /\ copies'[i].text = v /\ copies'[i].at = w
    <2>1. Rewrites(i, v, w) /\ copies \in [Copies -> CopyIn(n, clock)]
      BY <1>8, <1>9, <1>10
    <2> QED
      BY <1>1, <2>1, RewritesIs
  <1>12. \A d : Linked(copies', d) = Linked(copies, d) /\ Partner(copies', d) = Partner(copies, d)
    BY <1>11 DEF Linked, Partner
  <1>13. \A e \in unsent : PairStays(e)
    <2>1. \A e \in unsent : Partner(copies, e.card) \in Copies
      BY <1>1, PartnerIs DEF EditInv, Waits
    <2> QED
      BY <1>1, <1>11, <1>12, <2>1 DEF PairStays
  <1>14. ASSUME NEW e \in unsent, Partner(copies, e.card) # i PROVE Waits(e)'
    <2>1. Waits(e)
      BY <1>1 DEF EditInv
    <2>2. copies'[Partner(copies, e.card)] = copies[Partner(copies, e.card)]
      BY <1>11, <1>14, <2>1, PartnerIs DEF Waits
    <2> QED
      BY <1>1, <1>12, <2>1, <2>2 DEF Waits
  <1>15. ASSUME NEW e \in unsent, Partner(copies, e.card) = i
         PROVE  e.card = c /\ Paired
    <2>1. Waits(e) /\ e.card \in Cards
      BY <1>1 DEF SyncTypes, EditInv
    <2>2. e.card = c
      BY <1>15, <2>1, PartnerIs DEF Waits
    <2> QED
      BY <1>15, <2>1, <2>2, CardsAssumption DEF Waits
  <1>16. /\ unsent' \subseteq [side : {"cloud", "memaix"}, card : Cards, text : 1..edits']
         /\ \A e \in unsent' : Waits(e)' /\ (e \in unsent \/ Quietly)
    <2>1. CASE Paired
      <3>1. PICK side \in {"cloud", "memaix"} : side = "memaix"
        OBVIOUS
      <3>2. c \in Cards /\ Edited(side, c, clock)
        BY <1>2, <1>5, <2>1, <3>1
      <3>3. /\ unsent' \subseteq [side : {"cloud", "memaix"}, card : Cards, text : 1..edits']
            /\ \A e \in unsent' :
                 \/ e \in unsent /\ (e.card = c => e.side # side)
                 \/ /\ e.side = side /\ e.card = c /\ e.text = edits'
                    /\ Quietly /\ Linked(copies, c) # {} /\ clock > copies[Partner(copies, c)].synced
        BY <1>1, <3>2, EditedIs
      <3>4. ASSUME NEW e \in unsent, Partner(copies, e.card) = i, e.side # side PROVE Waits(e)'
        <4>1. Waits(e) /\ e.text \in 1..edits /\ e.side = "cloud" /\ e.card = c
          BY <1>1, <1>15, <3>1, <3>4 DEF EditInv, SyncTypes
        <4>2. edits' # e.text
          BY <1>1, <1>4, <4>1
        <4> QED
          BY <1>1, <1>10, <1>11, <1>12, <3>4, <4>1, <4>2 DEF Waits
      <3>5. ASSUME NEW e, e.side = side, e.card = c, e.text = edits', Linked(copies, c) # {},
                   clock > copies[Partner(copies, c)].synced
            PROVE  Waits(e)'
        <4>1. cards[c].text \in 0..edits
          BY <1>1, <3>2, CardIs
        <4>2. cards[c].text # edits'
          BY <1>1, <1>4, <4>1
        <4> QED
          BY <1>1, <1>10, <1>11, <1>12, <2>1, <3>1, <3>5, <4>2 DEF Waits
      <3>6. ASSUME NEW e \in unsent' PROVE Waits(e)' /\ (e \in unsent \/ Quietly)
        <4>1. CASE e \in unsent /\ (e.card = c => e.side # side)
          BY <1>14, <1>15, <3>4, <4>1
        <4>2. CASE /\ e.side = side /\ e.card = c /\ e.text = edits'
                   /\ Quietly /\ Linked(copies, c) # {} /\ clock > copies[Partner(copies, c)].synced
          BY <3>5, <4>2
        <4> QED
          BY <3>3, <4>1, <4>2
      <3> QED
        BY <3>3, <3>6
    <2>2. CASE ~Paired
      <3>1. \A x \in 1..edits : x \in 1..edits'
        BY <1>1, <1>4
      <3>2. 1..edits \subseteq 1..edits'
        BY <3>1
      <3>3. unsent \subseteq [side : {"cloud", "memaix"}, card : Cards, text : 1..edits]
        BY <1>1 DEF SyncTypes
      <3>4. unsent' = unsent
        BY <1>3, <2>2
      <3>5. \A e \in unsent : Waits(e)'
        BY <1>14, <1>15, <2>2
      <3> QED
        BY <3>2, <3>3, <3>4, <3>5
    <2> QED
      BY <2>1, <2>2
  <1>17. SyncTypes'
    <2>1. copies' \in [Copies -> CopyIn(edits', clock')]
      BY <1>1, <1>10, <1>11
    <2> QED
      BY <1>1, <1>6, <1>8, <1>16, <2>1, TypesGrow
  <1>18. LinkInv'
    <2>1. \A j \in Copies : /\ copies'[j].card = copies[j].card
                            /\ copies[j].text # 0 => copies'[j].text # 0
      BY <1>6, <1>10, <1>11
    <2> QED
      BY <1>1, <2>1, LinksLast
  <1>19. EditInv'
    BY <1>1, <1>13, <1>16, EditsLast
  <1> QED
    BY <1>1, <1>17, <1>18, <1>19 DEF SyncInv, NoEditVanishes

\* The invariant holds at first, and every step keeps it.
LEMMA SyncBegins == SyncInit => SyncInv
  <1> SUFFICES ASSUME SyncInit PROVE SyncInv
    OBVIOUS
  <1>1. clock \in Nat /\ edits = 1 /\ edits \in Nat
    BY ClockAssumption DEF SyncInit
  <1>2. cards \in [Cards -> CardIn(edits)]
    <2>1. [text |-> 1, at |-> 0] \in CardIn(edits)
      BY <1>1 DEF CardIn
    <2> QED
      BY <2>1 DEF SyncInit
  <1>3. NoCopy \in CopyIn(edits, clock)
    BY <1>1 DEF NoCopy, CopyIn
  <1>4. NoRun \in RunIn(edits, clock) /\ RunFits(NoRun) /\ NoRun.step = "none" /\ NoRun.todo = {}
    <2>1. NoRun = Going("none", <<>>, <<>>, {}, 0, 0, NoCopy, FALSE)
      BY DEF NoRun, Going
    <2>2. NoRun \in RunIn(edits, clock)
      BY <1>1, <1>3, <2>1, GoingIn DEF ListSteps
    <2>3. NoRun.step = "none" /\ NoRun.todo = {}
      BY DEF NoRun
    <2> QED
      BY <2>2, <2>3 DEF RunFits, WorkSteps
  <1>5. copies \in [Copies -> CopyIn(edits, clock)]
    BY <1>3 DEF SyncInit
  <1> PICK x : x = NoRun
    OBVIOUS
  <1>6. run = [r \in Runs |-> x]
    BY DEF SyncInit
  <1>7. run \in [Runs -> RunIn(edits, clock)] /\ \A r \in Runs : RunFits(run[r])
    BY <1>4, <1>6
  <1>8. unsent = {} /\ lost = {}
    BY DEF SyncInit
  <1>9. SyncTypes
    BY <1>1, <1>2, <1>5, <1>7, <1>8 DEF SyncTypes
  <1>10. LinkInv
    BY <1>4, <1>6 DEF LinkInv, WorkSteps
  <1> QED
    BY <1>8, <1>9, <1>10 DEF SyncInv, EditInv, NoEditVanishes

LEMMA SyncGoesOn == SyncInv /\ [SyncNext]_syncVars => SyncInv'
  <1> SUFFICES ASSUME SyncInv, [SyncNext]_syncVars PROVE SyncInv'
    OBVIOUS
  <1>1. CASE Passes
    BY <1>1, PassesKeeps
  <1>2. CASE \E c \in Cards : EditCard(c) \/ RemoveCard(c)
    BY <1>2, EditCardKeeps, RemoveCardKeeps
  <1>3. CASE \E i \in Copies : EditCopy(i) \/ TouchCopy(i)
    BY <1>3, EditCopyKeeps, TouchCopyKeeps
  <1>4. ASSUME NEW r \in Runs, ListCards(r) \/ RunStep(r) \/ Fails(r) PROVE SyncInv'
    <2>1. CASE ListCards(r)
      BY <2>1, ListCardsKeeps
    <2>2. CASE Fails(r)
      BY <2>2, FinStill DEF Fails
    <2>3. CASE ListCopies(r) \/ Link(r) \/ Skip(r)
      BY <2>3, ListCopiesKeeps, LinkKeeps, SkipKeeps
    <2>4. CASE PullIntoItem(r) \/ PullIntoNote(r)
      BY <2>4, PullIntoItemKeeps, PullIntoNoteKeeps
    <2>5. CASE ReadNote(r) \/ Push(r) \/ ReadFile(r) \/ Restamp(r)
      BY <2>5, ReadNoteKeeps, PushKeeps, ReadFileKeeps, RestampKeeps
    <2>6. CASE \E c \in Cards : Decide(r, c) \/ \E i \in Copies : PullNew(r, c, i)
      BY <2>6, DecideKeeps, PullNewKeeps
    <2> QED
      BY <1>4, <2>1, <2>2, <2>3, <2>4, <2>5, <2>6 DEF RunStep
  <1>5. CASE UNCHANGED syncVars
    <2>1. \A e \in unsent : Waits(e)' = Waits(e)
      BY <1>5 DEF syncVars, Waits
    <2>2. \A r \in Runs, e \in unsent : Listed(r, e)' = Listed(r, e) /\ Minded(r, e)' = Minded(r, e)
      BY <1>5 DEF syncVars, Listed, Minded
    <2> QED
      BY <1>5, <2>1, <2>2 DEF syncVars, SyncInv, SyncTypes, LinkInv, EditInv, NoEditVanishes
  <1> QED
    BY <1>1, <1>2, <1>3, <1>4, <1>5 DEF SyncNext

\* No edit that was made while nothing was under way is written over without the report
\* naming the conflict: whatever people do during the runs of deck_sync and notes_sync,
\* and wherever those fail or overlap.
THEOREM NothingVanishes == SyncSpec => []NoEditVanishes
  <1>1. SyncInv => NoEditVanishes
    BY DEF SyncInv
  <1> QED
    BY <1>1, SyncBegins, SyncGoesOn, PTL DEF SyncSpec
========================================================================
