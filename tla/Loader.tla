-------------------------------- MODULE Loader -------------------------------
(***************************************************************************)
(* script/sdlog_decode.py, `run` for one device: the archive is the truth, *)
(* the tables are derived from it.  Every statement to the database may    *)
(* fail, with or without having taken effect, and the process may die      *)
(* between any two; the tables and the markers stay as they are.           *)
(***************************************************************************)
EXTENDS HostCommon, Integers, Sequences, FiniteSets

CONSTANTS Files,     \* archive file names, as the naturals they sort by
          KeyOf,     \* the chunk key: seq and a hash of the bytes
          KindOf,    \* "good", "defect" (refused before a row is written) or
                     \* "breaks" (unreadable after the first batch); equal bytes
                     \* are read alike (a torn file is archived with its sidecar)
          Catalogs,  \* contents the device's decode rules take, 1, 2, ...
          Reverts,   \* the owner may go back to an earlier content
          MaxDeaths  \* bound: runs that die

ASSUME LoaderAssumption ==
    /\ MaxDeaths \in Nat /\ Files \subseteq Nat /\ Reverts \in BOOLEAN /\ Catalogs \subseteq Nat
    /\ \A f \in Files : KindOf[f] \in {"good", "defect", "breaks"}
    /\ \A f, g \in Files : KeyOf[f] = KeyOf[g] => KindOf[f] = KindOf[g]

VARIABLES arrived,   \* the files that have arrived
          catalog,   \* the content of the DBC and .dcat files now
          rows,      \* [key -> [part -> the catalogs its rows were decoded with]]
          marker,    \* the latest `chunks` row of a file, or None
          run,       \* the run in progress
          deaths     \* runs that died
loaderVars == <<arrived, catalog, rows, marker, run, deaths>>

Keys == {KeyOf[f] : f \in Files}
Parts == <<"batch", "frames", "signals", "events">>   \* in the order of the inserts
NoRows == [i \in 1..Len(Parts) |-> <<>>]
\* ROW_TABLES: the parts of each table
Tables == <<{1, 2}, {3}, {4}>>

NoRun == [pc |-> "idle", cat |-> None, dec |-> None, todo |-> {}, cleared |-> {}, i |-> 1]
File == CHOOSE f \in run.todo : \A g \in run.todo : f <= g
Key == KeyOf[File]

Become(r) == run' = r
Delete(parts, keys) == rows' = [k \in Keys |-> IF k \notin keys THEN rows[k]
                                  ELSE [i \in DOMAIN NoRows |-> IF i \in parts THEN <<>> ELSE rows[k][i]]]

-----------------------------------------------------------------------------
\* catalog_hash, before the rules themselves are read
Hash == /\ run.pc = "idle"
        /\ Become([NoRun EXCEPT !.pc = "rules", !.cat = catalog])
        /\ UNCHANGED <<arrived, catalog, rows, marker, deaths>>

\* Decoder and load_uds read the files again; chunk_state and pending_files:
\* no marker, or one under another catalog; the keys to clear come from the
\* markers of the files to redo
Pending(cat) == {f \in arrived : marker[f] = None \/ marker[f].catalog # cat}
Rules == /\ run.pc = "rules"
         /\ LET todo == Pending(run.cat) IN
            Become([run EXCEPT !.pc = "clear", !.dec = catalog, !.todo = todo,
                       !.cleared = {KeyOf[f] : f \in {g \in todo : marker[g] # None}}])
         /\ UNCHANGED <<arrived, catalog, rows, marker, deaths>>

\* delete_chunks: table after table
Clear ==
    /\ run.pc = "clear"
    /\ IF run.i > Len(Tables) \/ run.cleared = {}
       THEN Become([run EXCEPT !.pc = "file", !.i = 1]) /\ UNCHANGED rows
       ELSE Delete(Tables[run.i], run.cleared) /\ Become([run EXCEPT !.i = @ + 1])
    /\ UNCHANGED <<arrived, catalog, marker, deaths>>

\* mutant: what a run that died left behind is not deleted
LoadBeginsOver ==
    /\ run.pc = "file" /\ run.todo # {}
    /\ Become([run EXCEPT !.pc = IF KindOf[File] = "defect" THEN "marker" ELSE "insert", !.i = 1])
    /\ UNCHANGED <<arrived, catalog, rows, marker, deaths>>
\* load_chunk: a key the run has not cleared is deleted first
LoadBegins ==
    /\ run.pc = "file" /\ run.todo # {}
    /\ IF Key \in run.cleared THEN UNCHANGED rows ELSE Delete(DOMAIN NoRows, {Key})
    /\ Become([run EXCEPT !.pc = IF KindOf[File] = "defect" THEN "marker" ELSE "insert", !.i = 1])
    /\ UNCHANGED <<arrived, catalog, marker, deaths>>

\* frames while the file is read, then the rest; a file that breaks drops what
\* a batch already put in
Insert ==
    /\ run.pc = "insert"
    /\ IF KindOf[File] = "breaks" /\ run.i = 2
       THEN Delete(DOMAIN NoRows, {Key}) /\ Become([run EXCEPT !.pc = "marker"])
       ELSE /\ rows' = [rows EXCEPT ![Key][run.i] = Append(@, run.dec)]
            /\ Become([run EXCEPT !.i = @ + 1, !.pc = IF run.i = Len(Parts) THEN "marker" ELSE "insert"])
    /\ UNCHANGED <<arrived, catalog, marker, deaths>>

\* mutant: a defect gets no marker
MarkGoodOnly ==
    /\ run.pc = "marker"
    /\ marker' = IF KindOf[File] # "good" THEN marker
                 ELSE [marker EXCEPT ![File] = [result |-> "ok", catalog |-> run.cat]]
    /\ Become([run EXCEPT !.pc = "file", !.todo = @ \ {File}, !.cleared = @ \ {Key}, !.i = 1])
    /\ UNCHANGED <<arrived, catalog, rows, deaths>>
\* the commit marker; the key leaves `cleared`, so a second file with the same
\* bytes deletes these rows before it loads
Mark == /\ run.pc = "marker"
        /\ marker' = [marker EXCEPT ![File] =
                [result |-> IF KindOf[File] = "good" THEN "ok" ELSE "defect", catalog |-> run.cat]]
        /\ Become([run EXCEPT !.pc = "file", !.todo = @ \ {File}, !.cleared = @ \ {Key}, !.i = 1])
        /\ UNCHANGED <<arrived, catalog, rows, deaths>>

Finish == /\ run.pc = "file" /\ run.todo = {}
          /\ Become(NoRun) /\ UNCHANGED <<arrived, catalog, rows, marker, deaths>>

\* SinkUnavailable (75), a SinkError (1) or the death of the process: the run is
\* over where it stands.  A statement whose answer was lost has taken effect:
\* that is the step itself, followed by this one
Dies == /\ run.pc # "idle" /\ Become(NoRun)
        /\ deaths < MaxDeaths /\ deaths' = deaths + 1
        /\ UNCHANGED <<arrived, catalog, rows, marker>>

\* the collector archives a file
Arrives == /\ \E f \in Files \ arrived : arrived' = arrived \cup {f}
           /\ UNCHANGED <<catalog, rows, marker, run, deaths>>

\* the owner edits a DBC or .dcat file
Edit == /\ \E n \in Catalogs : /\ n > catalog \/ (Reverts /\ n # catalog)
                               /\ catalog' = n
        /\ UNCHANGED <<arrived, rows, marker, run, deaths>>

LoaderInit == /\ arrived = {} /\ catalog = 1 /\ run = NoRun /\ deaths = 0
        /\ rows = [k \in Keys |-> NoRows] /\ marker = [f \in Files |-> None]

RunStep == Rules \/ Clear \/ LoadBegins \/ Insert \/ Mark \/ Finish
LoaderNext == Hash \/ RunStep \/ Dies \/ Arrives \/ Edit
\* the timer starts runs for ever, and a run goes on until it ends or dies
LoaderFairness == WF_loaderVars(Hash) /\ WF_loaderVars(RunStep)
LoaderSpec == LoaderInit /\ [][LoaderNext]_loaderVars /\ LoaderFairness

-----------------------------------------------------------------------------
(* Properties *)
Loaded(k, cat) == \A i \in DOMAIN NoRows : rows[k][i] = <<cat>>
Working(k) == run.pc # "idle" /\ \E f \in run.todo : KeyOf[f] = k

\* "A run that dies anywhere in there leaves no marker": a file that counts as
\* done under the present rules has every row exactly once, decoded by these
\* rules, and a defect has none, unless a file with the same bytes is being
\* worked on or still pending.
MarkedIsLoaded ==
    \A f \in arrived :
        marker[f] # None /\ marker[f].catalog = catalog =>
            \/ Working(KeyOf[f]) \/ \E g \in Pending(catalog) : KeyOf[g] = KeyOf[f]
            \/ marker[f].result = "ok" /\ Loaded(KeyOf[f], catalog)
            \/ marker[f].result = "defect" /\ rows[KeyOf[f]] = NoRows

\* The same promise with rules that may go back to an earlier content: between
\* two runs, a file that counts as loaded under the present rules has rows.
DeathIsRedone ==
    run.pc = "idle" =>
        \A f \in arrived : \/ marker[f] # None /\ marker[f].result = "defect"
                           \/ \E g \in Pending(catalog) : KeyOf[g] = KeyOf[f]
                           \/ \A i \in DOMAIN NoRows : rows[KeyOf[f]][i] # <<>>

\* Every archived file is loaded under the rules that stay and is then no
\* longer pending, whatever deaths and edits came in between.
EveryFileIsLoaded == <>[](Pending(catalog) = {})
=============================================================================
