--------------------------- MODULE DriveViewProofs ---------------------------
(***************************************************************************)
(* Theorems about DriveView, for any drives, folders and names: what does  *)
(* hold of a bulk delete, and that a listing which arrives after its drive *)
(* was left is the one way to delete a file that was never on the screen.  *)
(***************************************************************************)
EXTENDS DriveView, TLAPS

(* Type correctness.                                                       *)

ListingTypes == listings \subseteq [drive : Drive, folder : Folder, answer : SUBSET SUBSET File]
DeleteTypes ==
    deletes \subseteq [drive : Drive, folder : Folder, todo : SUBSET File, bulk : BOOLEAN]

\* The view is at a drive and a folder there is, and every file is one of a drive's.
TypeOK ==
    /\ drive \in Drive /\ folder \in Folder /\ inBin \in BOOLEAN /\ busy \in BOOLEAN
    /\ ListingTypes /\ DeleteTypes
    /\ entries \subseteq File /\ selected \subseteq File
    /\ uploads \subseteq File /\ files \subseteq File
    /\ confirmed \subseteq File \X BOOLEAN /\ binned \subseteq File \X BOOLEAN

LEMMA RefreshTypes ==
  ASSUME ListingTypes, NEW d \in Drive, NEW p \in Folder, Refresh(d, p)
  PROVE  ListingTypes' /\ busy' \in BOOLEAN
BY DEF Refresh, Listing, ListingTypes

\* A row with another drive in its place is a file still.
LEMMA WithDrive ==
  ASSUME NEW e \in File, NEW d \in Drive
  PROVE  /\ [e EXCEPT !.drive = d] \in File
         /\ [e EXCEPT !.drive = d].folder = e.folder
         /\ [e EXCEPT !.drive = d].name = e.name
         /\ e.drive = d => [e EXCEPT !.drive = d] = e
BY DEF File

\* What the next step of delete d is, with row e.
DeletesOne(d, e, done) ==
    /\ Rm(d, e, done)
    /\ deletes' = (deletes \ {d}) \cup
          (IF d.todo = {e} THEN {} ELSE {[d EXCEPT !.todo = @ \ {e}]})
    /\ selected' = IF d.bulk /\ d.todo = {e} THEN {} ELSE selected
    /\ \/ Refresh(d.drive, d.folder)
       \/ UNCHANGED <<listings, busy>> /\ (selected' = {} => selected = {})

LEMMA NextRow ==
  ASSUME NEW d \in deletes, DeleteNext(d)
  PROVE  \E e \in d.todo, done \in BOOLEAN : DeletesOne(d, e, done)
BY DEF DeleteNext, DeletesOne

LEMMA InitTypeOK == Root \in Folder /\ Init => TypeOK
<1> SUFFICES ASSUME Root \in Folder, Init PROVE TypeOK
  OBVIOUS
<1>1. ListingTypes
  BY DEF Init, Listing, ListingTypes
<1>2. DeleteTypes
  BY DEF Init, DeleteTypes
<1> QED
  BY <1>1, <1>2 DEF Init, TypeOK

LEMMA NextTypeOK ==
  ASSUME Root \in Folder, TypeOK, [Next]_vars
  PROVE  TypeOK'
<1> USE DEF TypeOK, view, rows, async, history
<1>1. ASSUME NEW d \in Drive, NEW p \in Folder, NEW b \in BOOLEAN, MoveTo(d, p, b) PROVE TypeOK'
  <2>1. ListingTypes' /\ busy' \in BOOLEAN
    BY <1>1, RefreshTypes DEF MoveTo, ListingTypes
  <2> QED
    BY <1>1, <2>1 DEF MoveTo, DeleteTypes
<1>2. ASSUME NEW l \in listings, List(l) PROVE TypeOK'
  <2> DEFINE found == {f \in files : f.drive = l.drive /\ f.folder = l.folder}
             m == [l EXCEPT !.answer = {found}]
  <2>1. listings' = (listings \ {l}) \cup {m}
    BY <1>2 DEF List
  <2>2. m \in [drive : Drive, folder : Folder, answer : SUBSET SUBSET File]
    BY DEF ListingTypes
  <2>3. ListingTypes'
    BY <2>1, <2>2 DEF ListingTypes
  <2> QED
    BY <1>2, <2>3 DEF List, DeleteTypes
<1>3. ASSUME NEW l \in listings, ListArrives(l) \/ ListFails(l) PROVE TypeOK'
  BY <1>3 DEF ListArrives, ListFails, ListingTypes, DeleteTypes
<1>4. CASE Toggle \/ Clear
  BY <1>4 DEF Toggle, Clear, ListingTypes, DeleteTypes
<1>5. CASE DeleteSelected \/ Remove
  <2>1. PICK E \in SUBSET entries, b \in BOOLEAN : Delete(E, b)
    BY <1>5 DEF DeleteSelected, Remove
  <2>2. UNCHANGED <<view, rows, listings, uploads, files, binned>>
    BY <1>5 DEF DeleteSelected, Remove
  <2>3. DeleteTypes' /\ confirmed' \subseteq File \X BOOLEAN
    BY <2>1, <2>2 DEF Delete, DeleteTypes
  <2> QED
    BY <2>2, <2>3 DEF ListingTypes
<1>6. ASSUME NEW d \in deletes, DeleteNext(d) PROVE TypeOK'
  <2>1. PICK e \in d.todo, done \in BOOLEAN : DeletesOne(d, e, done)
    BY <1>6, NextRow
  <2>2. DeleteTypes'
    BY <2>1 DEF DeletesOne, DeleteTypes
  <2>3. files' \subseteq File /\ binned' \subseteq File \X BOOLEAN
    BY <2>1, WithDrive DEF DeletesOne, Rm, DeleteTypes
  <2>4. ListingTypes' /\ busy' \in BOOLEAN /\ selected' \subseteq File
    BY <2>1, RefreshTypes DEF DeletesOne, DeleteTypes, ListingTypes
  <2> QED
    BY <1>6, <2>2, <2>3, <2>4 DEF DeleteNext
<1>7. CASE Upload
  BY <1>7 DEF Upload, File, ListingTypes, DeleteTypes
<1>8. ASSUME NEW f \in uploads, UploadEnds(f) PROVE TypeOK'
  <2>1. ListingTypes' /\ busy' \in BOOLEAN
    BY <1>8, RefreshTypes DEF UploadEnds, File
  <2> QED
    BY <1>8, <2>1 DEF UploadEnds, DeleteTypes
<1>9. CASE UNCHANGED vars
  BY <1>9 DEF vars, ListingTypes, DeleteTypes
<1> QED
  BY <1>1, <1>2, <1>3, <1>4, <1>5, <1>6, <1>7, <1>8, <1>9
     DEF Next, SwitchDrive, Go, OpenBin

\* Type correctness, in every reachable state: no late answer puts the view, a row or
\* a delete anywhere but at a file of some drive and folder (Drive.jsx:24-101, 156-216).
THEOREM DriveViewTypeCorrect == Root \in Folder => (Spec => []TypeOK)
<1> SUFFICES ASSUME Root \in Folder PROVE Spec => []TypeOK
  OBVIOUS
<1> QED
  BY InitTypeOK, NextTypeOK, PTL DEF Spec
-----------------------------------------------------------------------------
(* What holds of every delete.                                             *)

\* Rows to be deleted were confirmed.
TodoConfirmed == \A d \in deletes : \A e \in d.todo : <<e, d.bulk>> \in confirmed

\* Whatever is deleted has the folder and the name of a row that was confirmed, in a
\* selection or by itself: only its drive can be another.
PathsWereConfirmed ==
    \A p \in binned : \E q \in confirmed :
        q[1].folder = p[1].folder /\ q[1].name = p[1].name /\ q[2] = p[2]

\* A delete that begins is of confirmed rows; the others go on with fewer.
LEMMA NextTodo ==
  ASSUME TypeOK, TodoConfirmed, [Next]_vars
  PROVE  /\ TodoConfirmed'
         /\ confirmed \subseteq confirmed'
         /\ \/ binned' = binned
            \/ \E d \in deletes : \E e \in d.todo :
                  binned' = binned \cup {<<[e EXCEPT !.drive = d.drive], d.bulk>>}
<1>1. CASE DeleteSelected \/ Remove
  <2>1. PICK E \in SUBSET entries, b \in BOOLEAN : Delete(E, b)
    BY <1>1 DEF DeleteSelected, Remove
  <2>2. binned' = binned
    BY <1>1 DEF DeleteSelected, Remove
  <2> DEFINE n == [drive |-> drive, folder |-> folder, todo |-> E, bulk |-> b]
  <2>3. deletes' = deletes \cup {n} /\ confirmed' = confirmed \cup (E \X {b})
    BY <2>1 DEF Delete
  <2>4. \A e \in n.todo : <<e, n.bulk>> \in confirmed'
    BY <2>3
  <2> HIDE DEF n
  <2>5. TodoConfirmed'
    BY <2>3, <2>4 DEF TodoConfirmed
  <2> QED
    BY <2>2, <2>3, <2>5
<1>2. ASSUME NEW d \in deletes, DeleteNext(d)
      PROVE  /\ TodoConfirmed'
             /\ confirmed \subseteq confirmed'
             /\ \/ binned' = binned
                \/ \E c \in deletes : \E e \in c.todo :
                      binned' = binned \cup {<<[e EXCEPT !.drive = c.drive], c.bulk>>}
  <2>1. PICK e \in d.todo, done \in BOOLEAN : DeletesOne(d, e, done)
    BY <1>2, NextRow
  <2>2. confirmed' = confirmed
    BY <1>2 DEF DeleteNext
  <2>3. TodoConfirmed'
    BY <2>1, <2>2 DEF DeletesOne, TodoConfirmed, TypeOK, DeleteTypes
  <2> QED
    BY <2>1, <2>2, <2>3 DEF DeletesOne, Rm
<1>3. CASE UNCHANGED <<deletes, confirmed, binned>>
  BY <1>3 DEF TodoConfirmed
<1>4. Next => \/ DeleteSelected \/ Remove \/ \E d \in deletes : DeleteNext(d)
              \/ UNCHANGED <<deletes, confirmed, binned>>
  BY DEF Next, SwitchDrive, Go, OpenBin, MoveTo, Toggle, Clear, Upload, List, ListArrives,
         ListFails, UploadEnds, async, history
<1> QED
  BY <1>1, <1>2, <1>3, <1>4 DEF vars, async, history

\* What is deleted has the folder and name of a row that was confirmed, however the view
\* has moved since: a row carries its own path (Drive.jsx:72-101, 192-216).
THEOREM OnlyTheDriveCanBeWrong == Root \in Folder => (Spec => []PathsWereConfirmed)
<1> SUFFICES ASSUME Root \in Folder PROVE Spec => []PathsWereConfirmed
  OBVIOUS
<1>1. Init => TodoConfirmed /\ PathsWereConfirmed
  BY DEF Init, TodoConfirmed, PathsWereConfirmed
<1>2. TypeOK /\ TodoConfirmed /\ PathsWereConfirmed /\ [Next]_vars
        => TodoConfirmed' /\ PathsWereConfirmed'
  <2> SUFFICES ASSUME TypeOK, TodoConfirmed, PathsWereConfirmed, [Next]_vars
               PROVE  PathsWereConfirmed'
    BY NextTodo
  <2>1. confirmed \subseteq confirmed'
    BY NextTodo
  <2>2. CASE binned' = binned
    BY <2>1, <2>2 DEF PathsWereConfirmed
  <2>3. ASSUME NEW d \in deletes, NEW e \in d.todo,
               binned' = binned \cup {<<[e EXCEPT !.drive = d.drive], d.bulk>>}
        PROVE  PathsWereConfirmed'
    <3> DEFINE f == [e EXCEPT !.drive = d.drive]
    <3>1. f.folder = e.folder /\ f.name = e.name /\ <<e, d.bulk>> \in confirmed
      BY WithDrive DEF TypeOK, DeleteTypes, TodoConfirmed
    <3>2. binned' = binned \cup {<<f, d.bulk>>}
      BY <2>3
    <3> HIDE DEF f
    <3> QED
      BY <2>1, <3>1, <3>2 DEF PathsWereConfirmed
  <2> QED
    BY <2>2, <2>3, NextTodo
<1> QED
  BY <1>1, <1>2, DriveViewTypeCorrect, PTL DEF Spec

-----------------------------------------------------------------------------
(* The one way to delete what was not seen.                                *)

\* A listing with rows in it arrives after its drive was left.
LateListing == \E l \in listings : l.drive # drive /\ entries' # {} /\ ListArrives(l)

\* A listing holds files of the drive it was asked of.
ListedInPlace == \A l \in listings : \A a \in l.answer : \A f \in a : f.drive = l.drive

\* Rows that can be, or have been, ticked are of the drive in view.
RowsInView == (busy /\ selected = {}) \/ \A e \in entries : e.drive = drive

\* A delete is of rows of its own drive.
TodoInPlace == \A d \in deletes : \A e \in d.todo : e.drive = d.drive

\* The same of the deletes of single rows as of the selections.
RemovesWhatWasSeen == {p \in binned : ~p[2]} \subseteq confirmed

SeenInv == ListedInPlace /\ RowsInView /\ TodoInPlace /\ TodoConfirmed /\ binned \subseteq confirmed

LEMMA RefreshInPlace ==
  ASSUME ListedInPlace, NEW d, NEW p, Refresh(d, p)
  PROVE  ListedInPlace' /\ busy' = TRUE
BY DEF Refresh, Listing, ListedInPlace

LEMMA InitSeenInv == Init => SeenInv
BY DEF Init, SeenInv, Listing, ListedInPlace, RowsInView, TodoInPlace, TodoConfirmed

LEMMA NextListed ==
  ASSUME ListedInPlace, [Next]_vars
  PROVE  ListedInPlace'
<1> USE DEF view, rows, async, history
<1>1. ASSUME NEW d, NEW p, NEW b, MoveTo(d, p, b) PROVE ListedInPlace'
  BY <1>1, RefreshInPlace DEF MoveTo, ListedInPlace
<1>2. ASSUME NEW l \in listings, List(l) PROVE ListedInPlace'
  <2> DEFINE found == {f \in files : f.drive = l.drive /\ f.folder = l.folder}
             m == [l EXCEPT !.answer = {found}]
  <2>1. listings' = (listings \ {l}) \cup {m}
    BY <1>2 DEF List
  <2>2. \A a \in m.answer : \A f \in a : f.drive = m.drive
    OBVIOUS
  <2> QED
    BY <2>1, <2>2 DEF ListedInPlace
<1>3. ASSUME NEW d \in deletes, DeleteNext(d) PROVE ListedInPlace'
  BY <1>3, RefreshInPlace DEF DeleteNext, ListedInPlace
<1>4. ASSUME NEW f \in uploads, UploadEnds(f) PROVE ListedInPlace'
  BY <1>4, RefreshInPlace DEF UploadEnds
<1>5. CASE listings' \subseteq listings
  BY <1>5 DEF ListedInPlace
<1>6. ASSUME NEW l \in listings, ListArrives(l) \/ ListFails(l) PROVE listings' \subseteq listings
  BY <1>6 DEF ListArrives, ListFails
<1>7. Toggle \/ Clear \/ DeleteSelected \/ Remove \/ Upload \/ UNCHANGED vars
        => listings' \subseteq listings
  BY DEF Toggle, Clear, DeleteSelected, Remove, Upload, vars
<1> QED
  BY <1>1, <1>2, <1>3, <1>4, <1>5, <1>6, <1>7 DEF Next, SwitchDrive, Go, OpenBin

\* Rows come into view as a listing of the drive in view, and a move hides them
\* and clears the selection.
LEMMA NextRows ==
  ASSUME ListedInPlace, RowsInView, [Next]_vars, [~LateListing]_vars
  PROVE  RowsInView'
<1> USE DEF view, rows, async, history, RowsInView
<1>1. ASSUME NEW d, NEW p, NEW b, MoveTo(d, p, b) PROVE RowsInView'
  <2>1. CASE <<d, p>> # <<drive, folder>>
    BY <1>1, <2>1 DEF MoveTo, Refresh
  <2>2. CASE <<d, p>> = <<drive, folder>>
    BY <1>1, <2>2 DEF MoveTo
  <2> QED
    BY <2>1, <2>2
<1>2. ASSUME NEW l \in listings, ListArrives(l) PROVE RowsInView'
  <2>1. entries' = {} \/ l.drive = drive
    BY <1>2 DEF LateListing, ListArrives, vars
  <2>2. drive' = drive /\ \A e \in entries' : e.drive = l.drive
    BY <1>2 DEF ListArrives, ListedInPlace
  <2> QED
    BY <2>1, <2>2
<1>3. ASSUME NEW l \in listings, List(l) \/ ListFails(l) PROVE RowsInView'
  BY <1>3 DEF List, ListFails
<1>4. CASE Toggle \/ Clear
  BY <1>4 DEF Toggle, Clear
<1>5. ASSUME NEW d \in deletes, DeleteNext(d) PROVE RowsInView'
  <2>1. PICK e \in d.todo, done \in BOOLEAN : DeletesOne(d, e, done)
    BY <1>5, NextRow
  <2> QED
    BY <1>5, <2>1 DEF DeleteNext, DeletesOne, Refresh
<1>6. ASSUME NEW f \in uploads, UploadEnds(f) PROVE RowsInView'
  BY <1>6 DEF UploadEnds, Refresh
<1>7. CASE DeleteSelected \/ Remove \/ Upload \/ UNCHANGED vars
  BY <1>7 DEF DeleteSelected, Remove, Upload, vars
<1> QED
  BY <1>1, <1>2, <1>3, <1>4, <1>5, <1>6, <1>7 DEF Next, SwitchDrive, Go, OpenBin

\* A delete begins with rows in view, and keeps its drive.
LEMMA NextInPlace ==
  ASSUME TypeOK, RowsInView, TodoInPlace, [Next]_vars
  PROVE  TodoInPlace'
<1>1. CASE DeleteSelected
  BY <1>1 DEF DeleteSelected, Delete, RowsInView, TodoInPlace
<1>2. CASE Remove
  BY <1>2 DEF Remove, Delete, RowsInView, TodoInPlace
<1>3. ASSUME NEW d \in deletes, DeleteNext(d) PROVE TodoInPlace'
  <2>1. PICK e \in d.todo, done \in BOOLEAN : DeletesOne(d, e, done)
    BY <1>3, NextRow
  <2> QED
    BY <2>1 DEF DeletesOne, TodoInPlace, TypeOK, DeleteTypes
<1>4. CASE UNCHANGED deletes
  BY <1>4 DEF TodoInPlace
<1>5. Next => DeleteSelected \/ Remove \/ (\E d \in deletes : DeleteNext(d)) \/ UNCHANGED deletes
  BY DEF Next, SwitchDrive, Go, OpenBin, MoveTo, Toggle, Clear, Upload, List, ListArrives,
         ListFails, UploadEnds, async
<1> QED
  BY <1>1, <1>2, <1>3, <1>4, <1>5 DEF vars, async

LEMMA NextSeenInv ==
  ASSUME TypeOK, SeenInv, [Next]_vars, [~LateListing]_vars
  PROVE  SeenInv'
<1>1. ListedInPlace' /\ RowsInView' /\ TodoInPlace'
  BY NextListed, NextRows, NextInPlace DEF SeenInv
<1>2. TodoConfirmed' /\ confirmed \subseteq confirmed'
  BY NextTodo DEF SeenInv
<1>3. ASSUME NEW d \in deletes, NEW e \in d.todo,
             binned' = binned \cup {<<[e EXCEPT !.drive = d.drive], d.bulk>>}
      PROVE  binned' \subseteq confirmed
  <2>1. [e EXCEPT !.drive = d.drive] = e /\ <<e, d.bulk>> \in confirmed
    BY WithDrive DEF SeenInv, TodoInPlace, TodoConfirmed, TypeOK, DeleteTypes
  <2> QED
    BY <1>3, <2>1 DEF SeenInv
<1>4. binned' \subseteq confirmed
  BY <1>3, NextTodo DEF SeenInv
<1> QED
  BY <1>1, <1>2, <1>4 DEF SeenInv

\* As long as no listing shows its rows after its drive was left, what is deleted, as
\* a selection or by a row's own button, is what was confirmed, whatever deletes and
\* uploads of other folders and drives are under way (Drive.jsx:31-46, 72-101).
THEOREM LateListingsAreTheCause ==
  Root \in Folder =>
    (Spec /\ [][~LateListing]_vars => [](DeletesWhatWasSeen /\ RemovesWhatWasSeen))
<1> SUFFICES ASSUME Root \in Folder
             PROVE  Spec /\ [][~LateListing]_vars => [](DeletesWhatWasSeen /\ RemovesWhatWasSeen)
  OBVIOUS
<1>1. SeenInv => DeletesWhatWasSeen /\ RemovesWhatWasSeen
  BY DEF SeenInv, DeletesWhatWasSeen, RemovesWhatWasSeen
<1> QED
  BY <1>1, InitSeenInv, NextSeenInv, DriveViewTypeCorrect, PTL DEF Spec

\* Who has one drive deletes what was seen, although a listing of another folder can
\* still be shown late: a row carries its own path (Drive.jsx:88, 195).
THEOREM OneDriveIsSafe ==
  ASSUME Root \in Folder, \A d, e \in Drive : d = e
  PROVE  Spec => [](DeletesWhatWasSeen /\ RemovesWhatWasSeen)
<1>1. TypeOK => ~LateListing
  BY DEF TypeOK, ListingTypes, LateListing
<1> QED
  BY <1>1, LateListingsAreTheCause, DriveViewTypeCorrect, PTL
=============================================================================
