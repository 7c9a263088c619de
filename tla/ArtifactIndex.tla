---------------------------- MODULE ArtifactIndex ----------------------------
(* Two indexes over the retained artifacts of a project: the task summaries*)
(* of an aggregate status (task_diagnostics.py) and the candidates of the  *)
(* metrics collector (metrics/adapters.py).  Whoever publishes an artifact *)
(* (core.atomic_json, core.claim_json) leaves a marker, publishes, appends *)
(* to a journal and removes the marker; it may die in between, and neither *)
(* a marker nor a journal that cannot be written stops a publication.  An  *)
(* index catches up in one SQLite transaction, from the journal, or from   *)
(* all artifacts if a marker shows that the journal misses one.            *)
(*                                                                         *)
(* The two indexes share nothing but the code that publishes, and have a   *)
(* play each ("summaries", "candidates").  No two publications have equal  *)
(* bytes (they carry times): a publication is its number.  Left out:       *)
(* artifacts that are removed, a journal that is cut or torn, log files.   *)
(*   archive   content: what each artifact holds; published: how many      *)
(*             publications began; journal, markers; writer: where each    *)
(*             publisher is; unmarked: artifacts published without a marker*)
(*             and not in the journal since (history)                      *)
(*   index     the SQLite file: booted, offset, and rows (summaries) or    *)
(*             sequence and last (candidates); cursor and collected: the   *)
(*             collector's cursor and the observations in the metrics      *)
(*             store; reader: where each reader is                         *)
EXTENDS DetachedOperations, SequencesExt

CONSTANTS
    Artifact,           \* the files, in the order a scan visits them
    Exclusive,          \* those published once, by claim_json
    Descriptor,         \* those that tell whether their task still runs
    TaskOf,             \* the task of each
    Publisher, Reader,  \* processes
    MaxPublications,    \* bound on the publications
    Maximum             \* the size of a page of the collector

ASSUME IndexConstants == Artifact \in Seq(ToSet(Artifact)) /\ Maximum \in Nat \ {0}

Artifacts == ToSet(Artifact)
Tasks == {TaskOf[a] : a \in Artifacts}
FilesOf(t) == {a \in Artifacts : TaskOf[a] = t}
Indexes == {"summaries", "candidates"}

Absent == [n |-> 0, runs |-> FALSE]
Unwritten == [n |-> -1, runs |-> FALSE]
Resting == [at |-> "idle", file |-> None, says |-> Absent, marked |-> FALSE]
Away == [at |-> "idle"]

NoArchive == [content |-> [a \in Artifacts |-> Absent], published |-> 0, journal |-> <<>>,
              markers |-> {}, writer |-> [w \in Publisher |-> Resting], unmarked |-> {}]
EmptyTables == [booted |-> FALSE, offset |-> 0, rows |-> [t \in Tasks |-> None],
                sequence |-> [a \in Artifacts |-> 0], last |-> 0]
NoIndex == [tables |-> EmptyTables, cursor |-> 0, collected |-> {},
            reader |-> [r \in Reader |-> Away]]

index_unchanged == <<play, desc, launch, files, processes, cancel, stream>>

-----------------------------------------------------------------------------
(* Publishers.                                                             *)

Marker(w) == [file |-> archive.writer[w].file, n |-> archive.writer[w].says.n]
WriterAt(w, at) == archive.writer[w].at = at

\* The next publication; that of a descriptor may say that its task runs, which matters to
\* the summaries.
Saying(a) ==
    [n : {archive.published + 1},
     runs : IF a \in Descriptor /\ play = {"summaries"} THEN BOOLEAN ELSE {FALSE}]

Underway(w, a, s, at, marked) ==
    [at |-> at, file |-> a, says |-> s, marked |-> marked]

\* claim_json: the artifact exists, empty, before its marker does.
ClaimArtifact(w, a) ==
    /\ play \subseteq Indexes
    /\ WriterAt(w, "idle") /\ archive.published < MaxPublications
    /\ a \in Exclusive /\ archive.content[a] = Absent
    /\ \E s \in Saying(a) :
         archive' = [archive EXCEPT !.content[a] = Unwritten, !.published = @ + 1,
                                    !.writer[w] = Underway(w, a, s, "prepare", FALSE)]
    /\ UNCHANGED <<index_unchanged, index, faults>>

\* _prepare_index_candidates: a marker that cannot be written is done without.
Prepared(w, a, s) ==
    \/ /\ archive' = [archive EXCEPT !.markers = @ \cup {[file |-> a, n |-> s.n]},
                         !.published = IF WriterAt(w, "idle") THEN @ + 1 ELSE @,
                         !.writer[w] = Underway(w, a, s, "write", TRUE)]
       /\ UNCHANGED faults
    \/ /\ Fails("marker")
       /\ archive' = [archive EXCEPT !.published = IF WriterAt(w, "idle") THEN @ + 1 ELSE @,
                                     !.writer[w] = Underway(w, a, s, "write", FALSE)]

\* atomic_json: the marker precedes the replacement.
ReplaceArtifact(w, a) ==
    /\ play \subseteq Indexes
    /\ WriterAt(w, "idle") /\ archive.published < MaxPublications
    /\ a \notin Exclusive
    /\ \E s \in Saying(a) : Prepared(w, a, s)
    /\ UNCHANGED <<index_unchanged, index>>

PrepareMarker(w) ==
    /\ WriterAt(w, "prepare")
    /\ Prepared(w, archive.writer[w].file, archive.writer[w].says)
    /\ UNCHANGED <<index_unchanged, index>>

WriteArtifact(w) ==
    /\ WriterAt(w, "write")
    /\ LET a == archive.writer[w].file
       IN archive' = [archive EXCEPT !.content[a] = archive.writer[w].says,
                         !.writer[w].at = "append",
                         !.unmarked = IF archive.writer[w].marked THEN @ ELSE @ \cup {a}]
    /\ UNCHANGED <<index_unchanged, index, faults>>

\* Variant: a journal that cannot be written is forgotten, with the marker.
AppendJournal_Forgets(w) ==
    /\ WriterAt(w, "append")
    /\ \/ /\ archive' = [archive EXCEPT !.journal = Append(@, Marker(w).file),
                            !.unmarked = @ \ {Marker(w).file}, !.writer[w].at = "clear"]
          /\ UNCHANGED faults
       \/ /\ Fails("journal")
          /\ archive' = [archive EXCEPT !.writer[w].at = "clear"]
    /\ UNCHANGED <<index_unchanged, index>>

\* _record_task_diagnostic_candidate, _record_metrics_candidate: the marker outlives a
\* journal that cannot be written.
AppendJournal(w) ==
    /\ WriterAt(w, "append")
    /\ \/ /\ archive' = [archive EXCEPT !.journal = Append(@, Marker(w).file),
                            !.unmarked = @ \ {Marker(w).file}, !.writer[w].at = "clear"]
          /\ UNCHANGED faults
       \/ /\ Fails("journal")
          /\ archive' = [archive EXCEPT !.writer[w] = Resting]
    /\ UNCHANGED <<index_unchanged, index>>

\* _clear_index_marker
ClearMarker(w) ==
    /\ WriterAt(w, "clear")
    /\ archive' = [archive EXCEPT !.markers = @ \ {Marker(w)}, !.writer[w] = Resting]
    /\ UNCHANGED <<index_unchanged, index, faults>>

PublisherDies(w) ==
    /\ ~WriterAt(w, "idle")
    /\ Fails("publisher")
    /\ archive' = [archive EXCEPT !.writer[w] = Resting]
    /\ UNCHANGED <<index_unchanged, index>>

-----------------------------------------------------------------------------
(* What both readers do first.  A marker whose artifact holds what it      *)
(* announces is ready: its journal record is missing or about to come.     *)

ReadyMarkers == {m \in archive.markers : archive.content[m.file].n = m.n}

\* Variant: the numbers of the candidates begin anew.
Warm_Renumbered(ready) == IF ready = {} THEN index.tables ELSE EmptyTables

\* A ready marker empties the index; AUTOINCREMENT goes on counting.
Warm(ready) == IF ready = {} THEN index.tables
               ELSE [EmptyTables EXCEPT !.last = index.tables.last]

ReaderAt(r, at) == index.reader[r].at = at
\* BEGIN IMMEDIATE
Exclusively ==
    \A r \in Reader : index.reader[r].at \notin {"scan", "journal", "refresh", "page"}

\* Variant: all markers are removed.
Cleared_Pending(r) == {}

\* Only the markers that were ready when the transaction began are removed.
Cleared(r) == archive.markers \ index.reader[r].ready

\* clear_index_recovery_markers, after the commit.
ClearRecovered(r) ==
    /\ ReaderAt(r, "clear")
    /\ archive' = [archive EXCEPT !.markers = Cleared(r)]
    /\ index' = [index EXCEPT !.reader[r] =
                    IF "summaries" \in play THEN Away ELSE [@ EXCEPT !.at = "ingest"]]
    /\ UNCHANGED <<index_unchanged, faults>>

\* Before the commit SQLite rolls back; a dry run of the collector ends after it, too.
ReaderDies(r) ==
    /\ ~ReaderAt(r, "idle")
    /\ Fails("reader")
    /\ index' = [index EXCEPT !.reader[r] = Away]
    /\ UNCHANGED <<index_unchanged, archive>>

-----------------------------------------------------------------------------
(* _diagnose_tasks_indexed and _refresh_task_index.                        *)

Exists(t) == \E a \in FilesOf(t) : archive.content[a] # Absent

\* summarize_task reads the files of the task.
Summary(t) == IF Exists(t) THEN [a \in FilesOf(t) |-> archive.content[a]] ELSE None

Runs(row) == row # None /\ \E a \in DOMAIN row : row[a].runs

\* Without metadata all tasks are scanned, and the journal read on from where it ended
\* before the scan.
BeginSummaries(r) ==
    /\ play = {"summaries"}
    /\ ReaderAt(r, "idle") /\ Exclusively
    /\ LET ready == ReadyMarkers
           tables == Warm(ready)
       IN index' = [index EXCEPT !.reader[r] =
            IF tables.booted THEN [at |-> "journal", ready |-> ready, tables |-> tables]
            ELSE [at |-> "scan", ready |-> ready,
                  tables |-> [tables EXCEPT !.offset = Len(archive.journal)]]]
    /\ UNCHANGED <<index_unchanged, archive, faults>>

\* _index_task_summary for every task: tasks are independent, and one moment of reading
\* stands for all.
ScanTasks(r) ==
    /\ ReaderAt(r, "scan")
    /\ index' = [index EXCEPT !.reader[r] =
                    [at |-> "journal", ready |-> @.ready,
                     tables |-> [@.tables EXCEPT !.rows = [t \in Tasks |-> Summary(t)],
                                                 !.booted = TRUE]]]
    /\ UNCHANGED <<index_unchanged, archive, faults>>

\* What the journal names after the offset, and what ran when it was summarized.
Outdated(tables) ==
    {TaskOf[archive.journal[i]] : i \in (tables.offset + 1)..Len(archive.journal)}
        \cup {t \in Tasks : Runs(tables.rows[t])}

ReadJournal(r) ==
    /\ ReaderAt(r, "journal")
    /\ LET tables == index.reader[r].tables
       IN index' = [index EXCEPT !.reader[r] =
            [at |-> "refresh", ready |-> @.ready, outdated |-> Outdated(tables),
             tables |-> [tables EXCEPT !.offset = Len(archive.journal)]]]
    /\ UNCHANGED <<index_unchanged, archive, faults>>

CommitSummaries(r) ==
    /\ ReaderAt(r, "refresh")
    /\ LET rows == index.reader[r].tables.rows
           Fresh(t) == IF t \in index.reader[r].outdated THEN Summary(t) ELSE rows[t]
       IN index' = [index EXCEPT !.tables = [index.reader[r].tables EXCEPT
                                                !.rows = [t \in Tasks |-> Fresh(t)]],
                                 !.reader[r] = [at |-> "clear", ready |-> @.ready]]
    /\ UNCHANGED <<index_unchanged, archive, faults>>

\* "deleting it triggers reconstruction"
DeleteIndex ==
    /\ play = {"summaries"} /\ Exclusively
    /\ Fails("deleted")
    /\ index' = [index EXCEPT !.tables = EmptyTables]
    /\ UNCHANGED <<index_unchanged, archive>>

-----------------------------------------------------------------------------
(* metrics collect: the cursor, a page of candidates in one transaction,   *)
(* their contents, the store, the cursor.  Nothing excludes a second       *)
(* collector outside the transaction.                                      *)

BeginCollect(r) ==
    /\ play = {"candidates"}
    /\ ReaderAt(r, "idle") /\ Exclusively
    /\ index' = [index EXCEPT !.reader[r] =
                    [at |-> "page", cursor |-> index.cursor, ready |-> ReadyMarkers]]
    /\ UNCHANGED <<index_unchanged, archive, faults>>

\* _refresh_candidate_index: a scan inserts what has no row, and the journal, read from its
\* beginning after a scan, inserts anew what it names.  Every insertion gets the next number,
\* and an artifact keeps its last one.
RefreshedCandidates(tables) ==
    LET New(a) == tables.sequence[a] = 0 /\ archive.content[a] # Absent
        scanned == IF tables.booted THEN {} ELSE {i \in DOMAIN Artifact : New(Artifact[i])}
        read == (tables.offset + 1)..Len(archive.journal)
        given(a) ==
            {tables.last + Cardinality({j \in scanned : j <= i}) :
                 i \in {j \in scanned : Artifact[j] = a}}
              \cup {tables.last + Cardinality(scanned) + (i - tables.offset) :
                        i \in {j \in read : archive.journal[j] = a}}
    IN [tables EXCEPT
          !.booted = TRUE, !.offset = Len(archive.journal),
          !.last = @ + Cardinality(scanned) + (Len(archive.journal) - tables.offset),
          !.sequence = [a \in Artifacts |-> IF given(a) = {} THEN @[a] ELSE Max(given(a))]]

\* _candidate_page: the first candidates after the cursor.  A cursor from beyond the index
\* begins anew.
CandidatePage(tables, cursor) ==
    LET Highest == Max({0} \cup {tables.sequence[a] : a \in Artifacts})
        from == IF cursor > Highest THEN 0 ELSE cursor
        rows == {a \in Artifacts : tables.sequence[a] > from}
        selected == {a \in rows : Cardinality({b \in rows :
                                     tables.sequence[b] < tables.sequence[a]}) < Maximum}
    IN [files |-> selected,
        next |-> IF selected # rows THEN Max({tables.sequence[a] : a \in selected})
                 ELSE Max({from, Highest})]

PageCandidates(r) ==
    /\ ReaderAt(r, "page")
    /\ LET tables == RefreshedCandidates(Warm(index.reader[r].ready))
           page == CandidatePage(tables, index.reader[r].cursor)
       IN index' = [index EXCEPT !.tables = tables,
                        !.reader[r] = [at |-> "clear", ready |-> index.reader[r].ready,
                                       files |-> page.files, next |-> page.next]]
    /\ UNCHANGED <<index_unchanged, archive, faults>>

\* collect_orchestrator_engine: an empty file is reported and passed over.
Loaded(r) == {[file |-> a, n |-> archive.content[a].n] :
                 a \in {b \in index.reader[r].files : archive.content[b] # Unwritten}}

\* MetricsStore.ingest: an observation that is there already changes nothing.
Ingest(r) ==
    /\ ReaderAt(r, "ingest")
    /\ index' = [index EXCEPT !.collected = @ \cup Loaded(r),
                              !.reader[r] = [at |-> "advance", next |-> @.next]]
    /\ UNCHANGED <<index_unchanged, archive, faults>>

\* set_collector_cursor
AdvanceCursor(r) ==
    /\ ReaderAt(r, "advance")
    /\ index' = [index EXCEPT !.cursor = index.reader[r].next, !.reader[r] = Away]
    /\ UNCHANGED <<index_unchanged, archive, faults>>

-----------------------------------------------------------------------------
(* What an index does not know yet can be found: from the journal after    *)
(* its offset, a marker, or a publisher that goes on.  Excepted are        *)
(* artifacts without content and publications that could leave no marker   *)
(* and no journal record.                                                  *)
Unread(a) == \E i \in (index.tables.offset + 1)..Len(archive.journal) : archive.journal[i] = a
Found(a) ==
    \/ Unread(a)
    \/ \E m \in archive.markers : m.file = a
    \/ \E w \in Publisher : archive.writer[w].at # "idle" /\ archive.writer[w].file = a
Known(a) == archive.content[a] # Unwritten /\ a \notin archive.unmarked

SummariesRecoverable ==
    index.tables.booted =>
        \A t \in Tasks :
            \/ index.tables.rows[t] = Summary(t)
            \/ \E a \in FilesOf(t) : Found(a) \/ ~Known(a)

\* What the collector has passed over, it has collected.
CollectionComplete ==
    index.tables.booted =>
        \A a \in Artifacts :
            \/ archive.content[a] = Absent
            \/ [file |-> a, n |-> archive.content[a].n] \in index.collected
            \/ index.tables.sequence[a] > index.cursor
            \/ Found(a) \/ ~Known(a)

(* An index never misses a publication for good, although publishers and   *)
(* readers die between any two steps.  docs/contracts.md: a surviving      *)
(* marker makes an index rebuild or report a pending publication "rather   *)
(* than silently claiming complete coverage"; docs/metrics.md: bounded     *)
(* calls "eventually visit artifacts after the first page and later        *)
(* revisit mutable snapshots".                                             *)
IndexTruthful ==
    /\ play = {"summaries"} => SummariesRecoverable
    /\ play = {"candidates"} => CollectionComplete
=============================================================================
