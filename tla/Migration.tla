------------------------------ MODULE Migration ------------------------------
(***************************************************************************)
(* The import of a Node installation's data (internal/migrate,             *)
(* cmd/migrate-data): a neDB directory or a MongoDB database is read one   *)
(* collection after the other and loaded into Postgres record by record,   *)
(* every record with a find and a write of its own.  Runs may be dry, are  *)
(* repeated, fail half way and are killed, and the proxy may already serve *)
(* from the database they load.                                            *)
(***************************************************************************)
EXTENDS Integers, FiniteSets, SequencesExt

CONSTANTS
    Sources,         \* [kind : {"nedb", "mongo"}, logs : [Collections -> Seq(Lines)]]
    InitialStores,   \* [Collections -> SUBSET Rows], what Postgres holds before
    LiveRows,        \* [Collections -> SUBSET Rows], what the proxy may write meanwhile
    Lower,           \* [usernames -> usernames], the lower-cased spelling
    MaxRuns, MaxLive, MaxFaults   \* bounds: runs, the proxy's writes, failing calls

Collections == {"users", "repos", "pushes"}

\* A row: its key (username, url or push id), its values in other unique columns
\* (email, OIDC subject), and the rest of it, its data.  A source document is such
\* a row, unless its fields do not have the types of the collection's.
Undecodable == "undecodable"
Decodes(doc) == doc.data # Undecodable

\* A line of a neDB file: a version of a document, its tombstone, an index
\* definition, a line without _id, or one that is no JSON, as a killed append
\* leaves it.  A MongoDB collection is read as one version of each document.
LineOps == {"put", "delete", "index", "noId", "broken"}

IsRow(row) == row = [key |-> row.key, marks |-> row.marks, data |-> row.data]

\* MongoDB holds one document to an _id.
ASSUME SourcesAssumption ==
    \A s \in Sources, c \in Collections :
        LET lines == s.logs[c]
        IN /\ lines \in Seq(ToSet(lines))
           /\ \A i \in DOMAIN lines : lines[i].op \in LineOps /\ IsRow(lines[i].doc)
           /\ s.kind # "nedb" =>
                 \A i, j \in DOMAIN lines :
                    lines[i].op = "put" /\ (lines[i].id = lines[j].id => i = j)

ASSUME StoresAssumption == \A s \in InitialStores : s = [c \in Collections |-> s[c]]

Actions == {"would-create", "would-update", "created", "updated", "skipped-exists", "error"}

VARIABLES
    source,     \* what is imported
    schema,     \* have the schema migrations been applied
    store,      \* the tables: [Collections -> SUBSET Rows]
    options,    \* [dryRun, migrateUp] of the run
    step,       \* where the run is: "idle", "start", "read", "find", "write", "end"
    coll,       \* the collection it has come to
    docs,       \* the collection's documents that are left
    existing,   \* did the find before a push's write see one
    report,     \* its records
    began,      \* the proxy's writes before it
    runs,       \* the runs that ended, the last ones first
    live,       \* the proxy's writes so far
    gone,       \* the rows the proxy has deleted or changed since the run began
    faults      \* the calls that have failed

importer == <<options, step, coll, docs, existing, report, began, runs>>
tables == <<schema, store>>
vars == <<source, tables, importer, live, gone, faults>>

-----------------------------------------------------------------------------
(* Reading the source *)

\* removeString and the order of first appearance.
Delete(r, id) ==
    IF id \in DOMAIN r.live
    THEN [r EXCEPT !.live = [i \in DOMAIN r.live \ {id} |-> r.live[i]],
                   !.order = RemoveFirst(@, id)]
    ELSE r

Put(r, id, doc) ==
    [r EXCEPT !.live = [i \in DOMAIN r.live \union {id} |-> IF i = id THEN doc ELSE r.live[i]],
              !.order = IF id \in DOMAIN r.live THEN @ ELSE Append(@, id)]

\* Mutant: what follows a damaged line is lost without a word.
ReplayLineUpToDamage(r, line) ==
    CASE line.op = "broken" -> [live |-> r.live, order |-> r.order, ok |-> TRUE, end |-> TRUE]
      [] "end" \in DOMAIN r -> r
      [] line.op = "delete" -> Delete(r, line.id)
      [] line.op = "put" -> Put(r, line.id, line.doc)
      [] OTHER -> r

ReplayLine(r, line) ==
    IF ~r.ok THEN r
    ELSE CASE line.op = "broken" -> [r EXCEPT !.ok = FALSE]
           [] line.op = "delete" -> Delete(r, line.id)
           [] line.op = "put" -> Put(r, line.id, line.doc)
           [] OTHER -> r

\* What the first n lines of a file leave, for each n.
Replay(lines) ==
    LET after[n \in 0..Len(lines)] ==
          IF n = 0 THEN [live |-> <<>>, order |-> <<>>, ok |-> TRUE]
          ELSE ReplayLine(after[n - 1], lines[n])
    IN after

replayNeDB(lines) == Replay(lines)[Len(lines)]

\* A document that cannot be decoded fails the collection, unless a later line
\* replaced or deleted it.
readNeDB(lines) ==
    LET r == replayNeDB(lines)
    IN [docs |-> [i \in DOMAIN r.order |-> r.live[r.order[i]]],
        ok |-> r.ok /\ \A id \in DOMAIN r.live : Decodes(r.live[id])]

readMongo(lines) ==
    LET read == [i \in DOMAIN lines |-> lines[i].doc]
    IN [docs |-> read, ok |-> \A doc \in ToSet(read) : Decodes(doc)]

Read(c) ==
    IF source.kind = "nedb" THEN readNeDB(source.logs[c]) ELSE readMongo(source.logs[c])

-----------------------------------------------------------------------------
(* The store *)

\* Usernames are compared and stored in lower case.
StoredKey(c, key) == IF c = "users" THEN Lower[key] ELSE key

Stored(c, doc) == [doc EXCEPT !.key = StoredKey(c, @)]

Holding(c, key) == {row \in store[c] : row.key = StoredKey(c, key)}

\* No other row has one of the row's values in a unique column.
Free(c, row) ==
    \A other \in store[c] \ Holding(c, row.key) : other.marks \intersect row.marks = {}

Admits(c, row) == Holding(c, row.key) = {} /\ Free(c, row)

With(c, row) == [store EXCEPT ![c] = (@ \ Holding(c, row.key)) \union {Stored(c, row)}]

\* A store call may fail, and does where the tables are not there.
Fails == faults < MaxFaults \/ ~schema
CountFault == faults' = IF schema THEN faults + 1 ELSE faults

-----------------------------------------------------------------------------
(* A run *)

\* What a shell sees of a process that was killed.
Killed == 137

TypeOK ==
    /\ schema \in BOOLEAN
    /\ \A c \in Collections : \A r \in store[c] :
          /\ r.key = StoredKey(c, r.key)
          /\ \A s \in store[c] :
                s.key = r.key \/ s.marks \intersect r.marks # {} => s = r
    /\ options \in [dryRun : BOOLEAN, migrateUp : BOOLEAN]
    /\ step \in {"idle", "start", "read", "find", "write", "end"}
    /\ coll \in Collections
    /\ existing \in BOOLEAN
    /\ \A i \in DOMAIN report : report[i].coll \in Collections /\ report[i].action \in Actions
    /\ Len(runs) \in 0..MaxRuns
    /\ \A i \in DOMAIN runs : runs[i].status \in {0, 1, Killed}
    /\ live \in 0..MaxLive /\ began \in 0..live /\ faults \in 0..MaxFaults
    /\ \A g \in gone : g[1] \in Collections

Init ==
    /\ source \in Sources
    /\ schema \in BOOLEAN
    /\ store \in IF schema THEN InitialStores ELSE {[c \in Collections |-> {}]}
    /\ options = [dryRun |-> TRUE, migrateUp |-> FALSE]
    /\ step = "idle" /\ coll = "users" /\ docs = <<>> /\ existing = FALSE
    /\ report = <<>> /\ began = 0 /\ runs = <<>>
    /\ live = 0 /\ gone = {} /\ faults = 0

\* migrate-data is dry unless --apply is given.
StartRun(dryRun, migrate) ==
    /\ step = "idle" /\ Len(runs) < MaxRuns
    /\ options' = [dryRun |-> dryRun, migrateUp |-> ~dryRun /\ migrate]
    /\ step' = "start" /\ gone' = {} /\ began' = live
    /\ UNCHANGED <<source, tables, coll, docs, existing, report, runs, live, faults>>

\* The process ends, and what it had read with it.
Exit(status) ==
    /\ step' = "idle"
    /\ runs' = <<[options |-> options, report |-> report, status |-> status,
                  began |-> began, ended |-> live]>> \o runs
    /\ coll' = "users" /\ docs' = <<>> /\ existing' = FALSE /\ report' = <<>>
    /\ UNCHANGED <<source, options, began, live, gone>>

\* The schema migrations are applied before the first store call, and only by a
\* run that writes.
ApplySchema ==
    /\ step = "start"
    /\ schema' = (schema \/ options.migrateUp)
    /\ step' = "read"
    /\ UNCHANGED <<source, store, options, coll, docs, existing, report, began, runs, live, gone, faults>>

\* No connection, or a migration that fails.
StartFails ==
    /\ step = "start" /\ faults < MaxFaults
    /\ faults' = faults + 1
    /\ Exit(1)
    /\ UNCHANGED tables

ReadCollection ==
    /\ step = "read"
    /\ Read(coll).ok
    /\ docs' = Read(coll).docs
    /\ step' = "find"
    /\ UNCHANGED <<source, tables, options, coll, existing, report, began, runs, live, gone, faults>>

\* What cannot be read ends the run; earlier collections are loaded.
ReadFails ==
    /\ step = "read"
    /\ ~Read(coll).ok
    /\ Exit(1)
    /\ UNCHANGED <<tables, faults>>

Report(action) ==
    report' = Append(report, [coll |-> coll, key |-> Head(docs).key, action |-> action])

\* The next document's turn.
NextRecord == docs' = Tail(docs) /\ step' = "find"

\* Mutant: a dry run does not look.
FoundUnlessDry == ~options.dryRun /\ Holding(coll, Head(docs).key) # {}

\* FindUser, GetRepoByURL, GetPush.
Found == Holding(coll, Head(docs).key) # {}

Finding == step = "find" /\ docs # <<>> /\ schema

SkipExisting ==
    /\ Finding /\ coll # "pushes" /\ Found
    /\ Report("skipped-exists") /\ NextRecord
    /\ UNCHANGED <<source, tables, options, coll, existing, began, runs, live, gone, faults>>

Foretell ==
    /\ Finding /\ options.dryRun
    /\ coll = "pushes" \/ ~Found
    /\ Report(IF Found THEN "would-update" ELSE "would-create") /\ NextRecord
    /\ UNCHANGED <<source, tables, options, coll, existing, began, runs, live, gone, faults>>

GoOnToWrite ==
    /\ Finding /\ ~options.dryRun
    /\ coll = "pushes" \/ ~Found
    /\ step' = "write" /\ existing' = Found
    /\ UNCHANGED <<source, tables, options, coll, docs, report, began, runs, live, gone, faults>>

FindFails ==
    /\ step = "find" /\ docs # <<>> /\ Fails
    /\ CountFault
    /\ Report("error") /\ NextRecord
    /\ UNCHANGED <<source, tables, options, coll, existing, began, runs, live, gone>>

\* Mutant: an insert that finds its key taken replaces the row.
WriteUpserting ==
    /\ step = "write"
    /\ store' = With(coll, Head(docs))
    /\ Report(IF existing THEN "updated" ELSE "created") /\ NextRecord
    /\ UNCHANGED <<source, schema, options, coll, existing, began, runs, live, gone, faults>>

\* CreateUser and CreateRepo insert; WriteAudit replaces.
Write ==
    /\ step = "write"
    /\ coll = "pushes" \/ Admits(coll, Head(docs))
    /\ store' = With(coll, Head(docs))
    /\ Report(IF existing THEN "updated" ELSE "created") /\ NextRecord
    /\ UNCHANGED <<source, schema, options, coll, existing, began, runs, live, gone, faults>>

\* A unique column is taken, by a row the find did not ask for or that is new.
WriteRefused ==
    /\ step = "write"
    /\ coll # "pushes" /\ ~Admits(coll, Head(docs))
    /\ Report("error") /\ NextRecord
    /\ UNCHANGED <<source, tables, options, coll, existing, began, runs, live, gone, faults>>

\* The call fails, before or after the database has done it.
WriteFails ==
    /\ step = "write" /\ Fails
    /\ CountFault
    /\ \/ UNCHANGED store
       \/ (coll = "pushes" \/ Admits(coll, Head(docs))) /\ store' = With(coll, Head(docs))
    /\ Report("error") /\ NextRecord
    /\ UNCHANGED <<source, schema, options, coll, existing, began, runs, live, gone>>

CollectionDone ==
    /\ step = "find" /\ docs = <<>>
    /\ CASE coll = "users" -> coll' = "repos" /\ step' = "read"
         [] coll = "repos" -> coll' = "pushes" /\ step' = "read"
         [] coll = "pushes" -> coll' = coll /\ step' = "end"
    /\ UNCHANGED <<source, tables, options, docs, existing, report, began, runs, live, gone, faults>>

HasErrors == \E i \in DOMAIN report : report[i].action = "error"

\* The report is printed whatever happened.
Finish ==
    /\ step = "end"
    /\ Exit(IF HasErrors THEN 1 ELSE 0)
    /\ UNCHANGED <<tables, faults>>

Kill ==
    /\ step # "idle" /\ faults < MaxFaults
    /\ faults' = faults + 1
    /\ Exit(Killed)
    /\ UNCHANGED tables

-----------------------------------------------------------------------------
(* The proxy, serving from the same database *)

\* A first login, a repository created, a push recorded, an account or a list
\* changed, a verdict.
LiveWrites(c, row) ==
    /\ schema /\ live < MaxLive
    /\ row \notin store[c] /\ Free(c, row)
    /\ store' = With(c, row)
    /\ live' = live + 1
    /\ gone' = gone \union {<<c, old.key>> : old \in Holding(c, row.key)}
    /\ UNCHANGED <<source, schema, importer, faults>>

\* An administrator deletes a repository.
LiveDeletes(row) ==
    /\ row \in store["repos"] /\ live < MaxLive
    /\ store' = [store EXCEPT !["repos"] = @ \ {row}]
    /\ live' = live + 1
    /\ gone' = gone \union {<<"repos", row.key>>}
    /\ UNCHANGED <<source, schema, importer, faults>>

Next ==
    \/ \E dryRun, migrate \in BOOLEAN : StartRun(dryRun, migrate)
    \/ ApplySchema \/ StartFails \/ ReadCollection \/ ReadFails
    \/ SkipExisting \/ Foretell \/ GoOnToWrite \/ FindFails \/ Write \/ WriteRefused \/ WriteFails
    \/ CollectionDone \/ Finish \/ Kill
    \/ \E c \in Collections : \E row \in LiveRows[c] : LiveWrites(c, row)
    \/ \E row \in store["repos"] : LiveDeletes(row)

Spec == Init /\ [][Next]_vars

-----------------------------------------------------------------------------
(* Properties *)

\* The lines of a collection that hold a document as it is now: the last word
\* on its _id, and no tombstone.
Current(c) ==
    LET lines == source.logs[c]
    IN {i \in DOMAIN lines :
           /\ lines[i].op = "put"
           /\ \A j \in DOMAIN lines :
                 j > i /\ lines[j].op \in {"put", "delete"} => lines[j].id # lines[i].id}

CurrentDocs(c) == {source.logs[c][i].doc : i \in Current(c)}

\* "Existing users/repos are skipped (never clobbered)" (migrate.go:70): whatever
\* the proxy writes between a find and the write that follows it, no step of a run
\* changes or removes a row of these tables.  Of the pushes, whose records and
\* verdicts it overwrites, it touches only those the source has, and a dry run
\* touches nothing.
ExistingRowsAreKept ==
    [][importer' # importer =>
          /\ \A c \in {"users", "repos"} : store[c] \subseteq store'[c]
          /\ \A row \in store["pushes"] \ store'["pushes"] :
                \E doc \in CurrentDocs("pushes") : doc.key = row.key
          /\ options.dryRun => tables' = tables]_vars

\* A run that writes and ends with status 0 has come across every document that
\* the source has now and no other; each has its row, with its contents if it is
\* a push, unless the proxy has changed or deleted that row since.  It is so
\* however earlier runs ended.
CleanRunLoadsTheSource ==
    step = "idle" /\ runs # <<>> =>
        LET run == Head(runs)
            handled(c) == {r.key : r \in {q \in ToSet(run.report) : q.coll = c}}
        IN run.status = 0 /\ ~run.options.dryRun =>
              \A c \in Collections :
                 /\ handled(c) = {doc.key : doc \in CurrentDocs(c)}
                 /\ \A doc \in CurrentDocs(c) :
                       \/ <<c, StoredKey(c, doc.key)>> \in gone
                       \/ \E row \in Holding(c, doc.key) :
                             c = "pushes" => row \in CurrentDocs(c)

\* What a run that writes reports of record i, given what the dry run foretold.
\* A row of another document with the same key may have come before it.
Foretold(dry, wet, i) ==
    LET before == {j \in 1..(i - 1) :
                      /\ wet[j].coll = wet[i].coll
                      /\ StoredKey(wet[j].coll, wet[j].key) = StoredKey(wet[i].coll, wet[i].key)}
        repeated == IF wet[i].coll = "pushes" THEN "updated" ELSE "skipped-exists"
    IN /\ wet[i].coll = dry[i].coll /\ wet[i].key = dry[i].key
       /\ \/ wet[i].action = "error"
          \/ dry[i].action = "skipped-exists" /\ wet[i].action = "skipped-exists"
          \/ dry[i].action = "would-update" /\ wet[i].action = "updated"
          \/ dry[i].action = "would-create" /\ wet[i].action = "created"
             /\ \A j \in before : wet[j].action = "error"
          \/ dry[i].action = "would-create" /\ wet[i].action = repeated /\ before # {}

\* A dry run without errors foretells what the next run does with every record,
\* but for errors, when the proxy writes nothing between them and during them.
DryRunForetells ==
    Len(runs) > 1 =>
        LET wet == runs[1]
            dry == runs[2]
        IN dry.options.dryRun /\ dry.status = 0 /\ ~wet.options.dryRun /\ dry.began = wet.ended =>
              \A i \in DOMAIN wet.report : i \in DOMAIN dry.report /\ Foretold(dry.report, wet.report, i)
=============================================================================
