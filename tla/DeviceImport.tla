---------------------------- MODULE DeviceImport ----------------------------
(***************************************************************************)
(* The import of device workbooks: importFromExcel of devices.service.ts,  *)
(* one action per database access, and the page of each administrator who  *)
(* uses it (DeviceImportPage.tsx), beside devices entered by hand.  Of a   *)
(* device only what later imports find it by is kept; an import overwrites *)
(* every other column too, the status of a device that is out included.    *)
(***************************************************************************)
EXTENDS SheetParser

CONSTANTS
    Admins,         \* administrators, each at a page of their own
    Files, Workbook,    \* the files there are, and the workbook in each
    Folded,         \* a text in lower case, as the lookups compare it
    Types,
    InitialDevices, \* the register before the first import
    ByHand,         \* bound: type and serial number of the devices entered by hand
    MaxCommits,     \* bound: commits that are begun
    MaxFaults,      \* bound: database accesses that fail
    NoFile, NoDevice

VARIABLES
    register,   \* the devices by their id, the type and a number
    upload,     \* what the import of each administrator has in hand
    page,       \* the step, file and answer on each administrator's page
    clean,      \* ghost: files imported without an error in the database
    commits, faults     \* ghosts: counted for the bounds

vars == <<register, upload, page, clean, commits, faults>>

Sheet == [name: Cells, lines: Seq(Seq(Cells))]
Rows == [asset: Cells, serial: Cells, type: Types, status: RowStatus]
Device == [asset: Cells, serial: Cells]
DeviceId == Types \X (Nat \ {0})
Parsed == [f \in Files |-> Parse(Workbook[f])]

\* Among the ids of a type one is the last, the one findFirst gives.
Numbered(devices) ==
    \A d \in DOMAIN devices : \E last \in DOMAIN devices :
        last[1] = d[1] /\ \A e \in DOMAIN devices : e[1] = d[1] => e[2] <= last[2]

\* Only the empty text is empty in lower case, and a workbook has a sheet.
ASSUME ImportAssumption ==
    /\ Files # {} /\ NoFile \notin Files /\ NoDevice \notin DeviceId
    /\ Folded \in [Cells -> Cells] /\ \A c \in Cells : Folded[c] = Folded[Blank] => c = Blank
    /\ Workbook \in [Files -> Seq(Sheet) \ {<<>>}] /\ DeviceTypes \subseteq Types
    /\ InitialDevices \in [DOMAIN InitialDevices -> Device]
    /\ DOMAIN InitialDevices \subseteq DeviceId /\ Numbered(InitialDevices)
    /\ ByHand \subseteq Types \X Cells
    /\ MaxCommits \in Nat /\ MaxFaults \in Nat

Idle == [stage |-> "idle", mode |-> "preview", file |-> NoFile, sheets |-> <<>>, sheet |-> 1,
         found |-> <<>>, at |-> 1, id |-> NoDevice, created |-> {}, failed |-> {}, known |-> FALSE]

\* The sheet in hand and the row being written.
SheetOf(u) == u.sheets[u.sheet]
RowOf(u) == SheetOf(u)[u.at]
Here(u) == <<u.sheet, u.at>>

Keep(a, u) == upload' = [upload EXCEPT ![a] = u]

-----------------------------------------------------------------------------
(* The lookup, the row as it is stored, and what the schema refuses.       *)

Same(t, v) == t # Blank /\ Folded[t] = Folded[v]

\* By the asset number when the row has one, by the serial number otherwise.
Matches(row) ==
    {d \in DOMAIN register :
        \/ Same(row.asset, register[d].asset)
        \/ row.asset = Blank /\ Same(row.serial, register[d].serial)}

\* Seeded fault: the serial number is not among the columns written.
RowToSpecBare(row) == [asset |-> row.asset, serial |-> Blank]

RowToSpec(row) == [asset |-> row.asset, serial |-> row.serial]

\* Asset numbers are unique as written.
Refuses(row, self) ==
    \E d \in DOMAIN register \ {self} : row.asset # Blank /\ register[d].asset = row.asset

NextId(type) ==
    LET numbers == {d[2] : d \in {e \in DOMAIN register : e[1] = type}}
    IN  <<type, 1 + (IF numbers = {} THEN 0 ELSE CHOOSE n \in numbers : \A m \in numbers : m <= n)>>

-----------------------------------------------------------------------------
(* A commit: sheet by sheet, first every row is looked up, then every row  *)
(* is written.                                                             *)

\* What follows when the rows of the sheet in hand are done with.
NextSheet(u) ==
    IF u.sheet < Len(u.sheets)
    THEN [u EXCEPT !.stage = "look", !.sheet = @ + 1, !.found = <<>>, !.at = 1, !.id = NoDevice]
    ELSE [u EXCEPT !.stage = "done", !.id = NoDevice]

NextRow(u) ==
    IF u.at < Len(SheetOf(u)) THEN [u EXCEPT !.stage = "write", !.at = @ + 1, !.id = NoDevice]
    ELSE NextSheet(u)

\* Seeded fault: the error is logged, and the row missing from the report.
ReportNothing(u) == NextRow(u)

\* A row that is reported, as an error and as skipped.
Report(u) == NextRow([u EXCEPT !.failed = @ \cup {Here(u)}])

\* findFirst gives one of the devices that match.
LookUp(a) ==
    LET u == upload[a]
        row == SheetOf(u)[Len(u.found) + 1]
    IN  /\ u.stage = "look" /\ Len(u.found) < Len(SheetOf(u))
        /\ \E d \in IF Matches(row) = {} THEN {NoDevice} ELSE Matches(row) :
               Keep(a, [u EXCEPT !.found = Append(@, d)])
        /\ UNCHANGED <<register, page, clean, commits, faults>>

LookedUp(a) ==
    LET u == upload[a] IN
    /\ u.stage = "look" /\ Len(u.found) = Len(SheetOf(u))
    /\ Keep(a, IF SheetOf(u) # <<>> THEN [u EXCEPT !.stage = "write"] ELSE NextSheet(u))
    /\ UNCHANGED <<register, page, clean, commits, faults>>

\* A row that was found: the device gets all columns of the row.
WriteUpdate(a) ==
    LET u == upload[a]
        d == u.found[u.at]
    IN  /\ u.stage = "write" /\ d # NoDevice
        /\ IF Refuses(RowOf(u), d) THEN Keep(a, Report(u)) /\ UNCHANGED register
           ELSE /\ register' = [register EXCEPT ![d] = RowToSpec(RowOf(u))]
                /\ Keep(a, [u EXCEPT !.stage = "audit"])
        /\ UNCHANGED <<page, clean, commits, faults>>

\* A row that was not: first the next id is read ...
ReadNextId(a) ==
    LET u == upload[a] IN
    /\ u.stage = "write" /\ u.found[u.at] = NoDevice
    /\ Keep(a, [u EXCEPT !.stage = "create", !.id = NextId(RowOf(u).type)])
    /\ UNCHANGED <<register, page, clean, commits, faults>>

\* ... then the device is created under it, unless somebody else was quicker.
Create(a) ==
    LET u == upload[a] IN
    /\ u.stage = "create"
    /\ IF u.id \in DOMAIN register \/ Refuses(RowOf(u), u.id)
       THEN Keep(a, Report(u)) /\ UNCHANGED register
       ELSE /\ register' = [d \in DOMAIN register \cup {u.id} |->
                               IF d = u.id THEN RowToSpec(RowOf(u)) ELSE register[d]]
            /\ Keep(a, [u EXCEPT !.stage = "audit", !.created = @ \cup {Here(u)}])
    /\ UNCHANGED <<page, clean, commits, faults>>

\* The audit row, in the same try as the write before it.
Audit(a) ==
    /\ upload[a].stage = "audit"
    /\ Keep(a, NextRow(upload[a]))
    /\ UNCHANGED <<register, page, clean, commits, faults>>

\* A failing write or audit row ends in the report; the write before a failing
\* audit row stays.
WriteFails(a) ==
    /\ upload[a].stage \in {"write", "create", "audit"} /\ faults < MaxFaults
    /\ Keep(a, Report(upload[a]))
    /\ faults' = faults + 1
    /\ UNCHANGED <<register, page, clean, commits>>

-----------------------------------------------------------------------------
(* The page: upload, preview, result.                                      *)

BlankPage == [step |-> "upload", file |-> NoFile, previewed |-> NoFile, loading |-> FALSE]

Show(a, p) == page' = [page EXCEPT ![a] = p]

\* The drop area stays open while a preview is on its way.
SetFile(a, f) ==
    /\ page[a].step = "upload" /\ f # page[a].file
    /\ Show(a, [page[a] EXCEPT !.file = f])
    /\ UNCHANGED <<register, upload, clean, commits, faults>>

\* A preview only looks the rows up, and its counts decide nothing: one step.
HandlePreview(a) ==
    /\ page[a].step = "upload" /\ page[a].file # NoFile /\ ~page[a].loading
    /\ Keep(a, [Idle EXCEPT !.stage = "done", !.file = page[a].file])
    /\ Show(a, [page[a] EXCEPT !.loading = TRUE])
    /\ UNCHANGED <<register, clean, commits, faults>>

\* The button is offered when the preview has found rows.
HandleCommit(a) ==
    /\ page[a].step = "preview" /\ ~page[a].loading /\ commits < MaxCommits
    /\ \E s \in DOMAIN Parsed[page[a].previewed] : Parsed[page[a].previewed][s] # <<>>
    /\ Keep(a, [Idle EXCEPT !.stage = "look", !.mode = "commit", !.file = page[a].file,
                            !.sheets = Parsed[page[a].file], !.known = page[a].file \in clean])
    /\ Show(a, [page[a] EXCEPT !.loading = TRUE])
    /\ commits' = commits + 1
    /\ UNCHANGED <<register, clean, faults>>

\* The answer arrives.
Answer(a) ==
    LET u == upload[a] IN
    /\ u.stage = "done"
    /\ Keep(a, Idle)
    /\ IF u.mode = "preview"
       THEN /\ Show(a, [page[a] EXCEPT !.step = "preview", !.previewed = u.file, !.loading = FALSE])
            /\ UNCHANGED clean
       ELSE /\ Show(a, [page[a] EXCEPT !.step = "result", !.loading = FALSE])
            /\ clean' = IF u.failed = {} THEN clean \cup {u.file} ELSE clean
    /\ UNCHANGED <<register, commits, faults>>

\* A failing lookup is not caught, and a process that stops answers nothing: the
\* sheets and rows before stay written.
RequestFails(a) ==
    /\ upload[a].stage # "idle" /\ faults < MaxFaults
    /\ Keep(a, Idle)
    /\ Show(a, [page[a] EXCEPT !.loading = FALSE])
    /\ faults' = faults + 1
    /\ UNCHANGED <<register, clean, commits>>

Back(a) ==
    /\ page[a].step = "preview" /\ ~page[a].loading
    /\ Show(a, [page[a] EXCEPT !.step = "upload"])
    /\ UNCHANGED <<register, upload, clean, commits, faults>>

\* The page is left and opened again.
Leave(a) ==
    /\ page[a].step = "result"
    /\ Show(a, BlankPage)
    /\ UNCHANGED <<register, upload, clean, commits, faults>>

\* createDevice of the register's page: a device without asset number, under the
\* next id of its type.  Its own race for the id is DeviceDesk's.
CreateDevice(type, serial) ==
    /\ <<type, serial>> \in ByHand
    /\ \A d \in DOMAIN register : register[d].serial # serial
    /\ register' = [d \in DOMAIN register \cup {NextId(type)} |->
                       IF d = NextId(type) THEN [asset |-> Blank, serial |-> serial] ELSE register[d]]
    /\ UNCHANGED <<upload, page, clean, commits, faults>>

-----------------------------------------------------------------------------
Init ==
    /\ register = InitialDevices
    /\ upload = [a \in Admins |-> Idle]
    /\ page = [a \in Admins |-> BlankPage]
    /\ clean = {}
    /\ commits = 0
    /\ faults = 0

Next ==
    \/ \E a \in Admins :
          \/ \E f \in Files : SetFile(a, f)
          \/ HandlePreview(a) \/ HandleCommit(a) \/ Back(a) \/ Leave(a) \/ Answer(a) \/ RequestFails(a)
          \/ LookUp(a) \/ LookedUp(a) \/ WriteUpdate(a) \/ ReadNextId(a) \/ Create(a) \/ Audit(a)
          \/ WriteFails(a)
    \/ \E type \in Types, serial \in Cells : CreateDevice(type, serial)

Spec == Init /\ [][Next]_vars

-----------------------------------------------------------------------------
(* Properties.                                                             *)

At(f, h) == Parsed[f][h[1]][h[2]]
PlacesOf(f) == UNION {{<<s, i>> : i \in DOMAIN Parsed[f][s]} : s \in DOMAIN Parsed[f]}

\* The rows of a file that name their device, by either number.
Named(f) == {h \in PlacesOf(f) : At(f, h).asset # Blank \/ At(f, h).serial # Blank}

\* No row without asset number gives the serial number of a device that has
\* one: otherwise its import takes the asset number off that device.
Apart ==
    LET rows == UNION {{At(f, h) : h \in PlacesOf(f)} : f \in Files}
        devices == {InitialDevices[d] : d \in DOMAIN InitialDevices}
    IN  \A r \in rows, q \in rows \cup devices :
            r.asset = Blank /\ q.asset # Blank => ~Same(r.serial, q.serial)

\* Once a file has been imported without an error, importing it again creates
\* no device for a row that names one (devices.service.ts:576-600), whatever
\* other imports, under way at the same time or later, have written since.
ReimportCreatesNothing ==
    Apart => \A a \in Admins : upload[a].known => upload[a].created \cap Named(upload[a].file) = {}

\* When a commit is answered, each row that names its device is in the report of
\* errors or in the register (:616-634), whichever access failed and whoever else
\* took the row's id or asset number.
UnreportedIsRegistered ==
    Apart => \A a \in Admins : upload[a].stage = "done" /\ upload[a].mode = "commit" =>
        \A h \in Named(upload[a].file) \ upload[a].failed : Matches(At(upload[a].file, h)) # {}
=============================================================================
