------------------------------ MODULE DriveView ------------------------------
(***************************************************************************)
(* The drive view of the web UI (Drive.jsx): a person who moves between    *)
(* drives and folders, and selects and deletes rows, while listings,       *)
(* deletes and uploads of earlier moments are still under way.             *)
(*                                                                         *)
(* JavaScript runs one callback at a time: a step is an event handler with *)
(* the effects of the render it causes, or the part of an async function   *)
(* between two awaits.  An async function keeps the drive, folder, rows    *)
(* and selection of the render that made it.  Listings of the same folder, *)
(* deletes of the same rows and uploads of the same file that are under    *)
(* way together count as one.                                              *)
(***************************************************************************)
EXTENDS FiniteSets

CONSTANTS
    Drive,
    Folder,
    Root,         \* the one every drive opens with
    Name          \* names of files

VARIABLES
    drive, folder, inBin,   \* where the view is
    entries, busy,          \* its rows, and whether they are hidden
    selected,               \* the rows that are ticked
    listings,               \* calls of refresh under way
    deletes,                \* deletes of rows under way
    uploads,                \* uploads under way
    files,                  \* bkn: what the drives hold
    confirmed, binned       \* history: rows confirmed for deletion and files deleted,
                            \* each with whether by a bulk delete

view  == <<drive, folder, inBin>>
rows  == <<entries, busy, selected>>
async == <<listings, deletes, uploads>>
history == <<confirmed, binned>>
vars  == <<view, rows, async, files, history>>

File == [drive : Drive, folder : Folder, name : Name]

\* A listing has no answer, or one set of files.
Listing(d, p) == [drive |-> d, folder |-> p, answer |-> {}]

\* Rows that were confirmed, to be deleted from the drive and folder shown.
Delete(E, b) ==
    /\ deletes' = deletes \cup {[drive |-> drive, folder |-> folder, todo |-> E, bulk |-> b]}
    /\ confirmed' = confirmed \cup (E \X {b})

\* refresh(d, p): setBusy(true), and two calls to bkn that are awaited together.
Refresh(d, p) == listings' = listings \cup {Listing(d, p)} /\ busy' = TRUE

Init ==
    /\ drive \in Drive /\ folder = Root /\ inBin = FALSE
    /\ entries = {} /\ busy = TRUE /\ selected = {}
    /\ listings = {Listing(drive, Root)} /\ deletes = {} /\ uploads = {}
    /\ files \in SUBSET File
    /\ confirmed = {} /\ binned = {}

\* switchDrive, go and the bin: the effects on drive, folder and inBin run.
MoveTo(d, p, b) ==
    /\ <<d, p, b>> # <<drive, folder, inBin>>
    /\ drive' = d /\ folder' = p /\ inBin' = b
    /\ selected' = {}
    /\ IF <<d, p>> # <<drive, folder>> THEN Refresh(d, p) ELSE UNCHANGED <<listings, busy>>
    /\ UNCHANGED <<entries, deletes, uploads, files, history>>

SwitchDrive(d) == MoveTo(d, Root, FALSE)
Go(p)          == ~inBin /\ MoveTo(drive, p, FALSE)
OpenBin        == MoveTo(drive, folder, TRUE)

\* bkn answers a listing.
List(l) ==
    /\ l.answer = {}
    /\ listings' = (listings \ {l}) \cup
          {[l EXCEPT !.answer = {{f \in files : f.drive = l.drive /\ f.folder = l.folder}}]}
    /\ UNCHANGED <<view, rows, deletes, uploads, files, history>>

\* refresh goes on, wherever the view is by now.
ListArrives(l) ==
    /\ entries' \in l.answer /\ busy' = FALSE
    /\ listings' = listings \ {l}
    /\ UNCHANGED <<view, selected, deletes, uploads, files, history>>

ListFails(l) ==
    /\ entries' = {} /\ busy' = FALSE
    /\ listings' = listings \ {l}
    /\ UNCHANGED <<view, selected, deletes, uploads, files, history>>

\* toggle, toggleAll: only rows on the screen can be clicked.
Toggle ==
    /\ ~inBin /\ ~busy
    /\ \/ \E e \in entries :
             selected' = IF e \in selected THEN selected \ {e} ELSE selected \cup {e}
       \/ selected' = (IF Cardinality(selected) = Cardinality(entries) THEN {} ELSE entries)
    /\ UNCHANGED <<view, entries, busy, async, files, history>>

\* The button beside the number of selected rows.
Clear ==
    /\ ~inBin /\ selected # {} /\ selected' = {}
    /\ UNCHANGED <<view, entries, busy, async, files, history>>

\* deleteSelected, up to its first call.  The button is there while rows load.
DeleteSelected ==
    /\ ~inBin /\ entries \cap selected # {}
    /\ Delete(entries \cap selected, TRUE)
    /\ UNCHANGED <<view, rows, listings, uploads, files, binned>>

\* remove of one row, up to its call.
Remove ==
    /\ ~inBin /\ ~busy
    /\ \E e \in entries : Delete({e}, FALSE)
    /\ UNCHANGED <<view, rows, listings, uploads, files, binned>>

\* One rm: by the captured drive and the row's path.  It fails if there is no such
\* file, or for a reason of its own.
Rm(d, e, done) ==
    LET f == [e EXCEPT !.drive = d.drive]
    IN  IF done THEN f \in files /\ files' = files \ {f} /\ binned' = binned \cup {<<f, d.bulk>>}
        ELSE UNCHANGED <<files, binned>>

\* The next rm of delete d.  After the last of a bulk delete, failed or not, the
\* selection is cleared; then, or after the row's own, the captured folder is listed.
DeleteNext(d) ==
    /\ \E e \in d.todo, done \in BOOLEAN :
        /\ Rm(d, e, done)
        /\ deletes' = (deletes \ {d}) \cup
              (IF d.todo = {e} THEN {} ELSE {[d EXCEPT !.todo = @ \ {e}]})
        /\ selected' = IF d.bulk /\ d.todo = {e} THEN {} ELSE selected
        /\ IF d.todo = {e} /\ (d.bulk \/ done)
           THEN Refresh(d.drive, d.folder)
           ELSE UNCHANGED <<listings, busy>>
    /\ UNCHANGED <<view, entries, uploads, confirmed>>

\* upload of one file into the folder shown, or the one behind the bin, where a
\* file can be dropped too; and its end.
Upload ==
    /\ \E n \in Name :
          uploads' = uploads \cup {[drive |-> drive, folder |-> folder, name |-> n]}
    /\ UNCHANGED <<view, rows, listings, deletes, files, history>>

UploadEnds(f) ==
    /\ uploads' = uploads \ {f}
    /\ files' \in {files, files \cup {f}}
    /\ Refresh(f.drive, f.folder)
    /\ UNCHANGED <<view, entries, selected, deletes, history>>

Next ==
    \/ \E d \in Drive : SwitchDrive(d)
    \/ \E p \in Folder : Go(p)
    \/ OpenBin \/ Toggle \/ Clear \/ DeleteSelected \/ Remove \/ Upload
    \/ \E d \in deletes : DeleteNext(d)
    \/ \E l \in listings : List(l) \/ ListArrives(l) \/ ListFails(l)
    \/ \E f \in uploads : UploadEnds(f)

Spec == Init /\ [][Next]_vars

\* A selection is about the rows on screen, and deleting it must not reach "things
\* nobody could see when they clicked" (Drive.jsx:43-45): what a bulk delete bins is a
\* file whose row was selected and confirmed in one.
DeletesWhatWasSeen == {p \in binned : p[2]} \subseteq confirmed
=============================================================================
