------------------------- MODULE MCMemoryVault -------------------------
(***************************************************************************)
(* The vault with one note, one document, one item and texts of up to two  *)
(* lines, and the syncs with Nextcloud with one card.                      *)
(***************************************************************************)
EXTENDS MemoryVault, CloudSync

\* Writers are alike, and so are processes: a write is given to the first that has none,
\* in the first process that has none of a note.  Only the second and the third write
\* may be under way at once.
InOrder ==
    \A w \in Writers : write[w].step = "none" /\ write'[w].step # "none" =>
        /\ \A v \in Writers : v < w => write[v].step # "none"
        /\ \A p \in Processes : write'[w].lock # NoLock /\ p < write'[w].lock => ~Free(p)
        /\ writes' # 3 => \A v \in Writers : write[v].step = "none"

\* The vault's writes, step by step, and the syncs, to which one is a step, are looked
\* at one at a time.
NoVault == writes = 0
NoSync  == /\ Quietly /\ kind = "notes" /\ edits = 1 /\ clock = PerSecond /\ failures = 0
           /\ \A c \in Cards : cards[c].text # 0
           /\ \A i \in Copies : copies[i] = NoCopy

\* The second run begins when people have not begun or are done with editing; while it
\* goes on the clock stands still and nothing has failed.
Overlap == \A r \in Runs \ {1} :
              run'[r] # NoRun => edits' \in {1, MaxEdits} /\ clock' = clock /\ failures' = 0

ApartNext ==
    \/ NoSync /\ Next /\ InOrder /\ UNCHANGED syncVars
    \/ NoVault /\ SyncNext /\ Overlap /\ UNCHANGED vars

ApartInit == Init /\ SyncInit

ApartSpec == ApartInit /\ [][ApartNext]_<<vars, syncVars>> /\ SyncFairness
========================================================================
