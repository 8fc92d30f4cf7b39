---------------------------- MODULE FirmwareStore ----------------------------
(***************************************************************************)
(* custom_components/sdlog_relay: the firmware a logger may fetch, one     *)
(* manifest and the binaries it may name.  An upload is three blocking     *)
(* steps in a thread of the executor: the binary, the manifest, the prune. *)
(***************************************************************************)
EXTENDS HostCommon, Integers, FiniteSets

CONSTANTS Uploads,     \* uploads, each of its own image
          Image,       \* [Uploads -> binaries]: the content by its MD5
          AtOnce       \* bound: uploads in the executor together

VARIABLES bin,         \* [binaries -> mtime], 0 when the file is absent
          manifest,    \* the binary the manifest names, or None
          previous,    \* history: the one the manifest named before
          up,          \* [Uploads -> "new", "manifest", "prune", "done", "failed"]
          clock,       \* counts the writes
          stranded,    \* history: a binary was written and its manifest was not
          raced        \* history: two uploads were in the executor together
firmwareVars == <<bin, manifest, previous, up, clock, stranded, raced>>

Binaries == {Image[u] : u \in Uploads}
KEEP_BINARIES == 2
Running == {u \in Uploads : up[u] \in {"manifest", "prune"}}
Goes(u, pc) == up' = [up EXCEPT ![u] = pc]

\* put: the checks, then the binary by write-then-rename
PutBinary(u) ==
    /\ up[u] = "new" /\ Cardinality(Running) < AtOnce
    /\ \/ Goes(u, "failed") /\ UNCHANGED <<bin, clock, raced>>     \* refused (400, 403, 404, 413) or no space
       \/ /\ bin' = [bin EXCEPT ![Image[u]] = clock + 1] /\ clock' = clock + 1
          /\ Goes(u, "manifest") /\ raced' = (raced \/ Running # {})
    /\ UNCHANGED <<manifest, previous, stranded>>

PutManifest(u) ==
    /\ up[u] = "manifest" /\ Goes(u, "prune")
    /\ manifest' = Image[u]
    /\ previous' = IF manifest = Image[u] THEN previous ELSE manifest
    /\ UNCHANGED <<bin, clock, stranded, raced>>

\* the disk fills or Home Assistant stops between two steps
PutFails(u) ==
    /\ up[u] \in {"manifest", "prune"} /\ Goes(u, "failed")
    /\ stranded' = (stranded \/ up[u] = "manifest")
    /\ UNCHANGED <<bin, manifest, previous, clock, raced>>

\* _prune: of the other binaries the newest KEEP_BINARIES - 1 stay
\* mutant: oldest first, so the newest are removed
NewerReversed(b, u) == {x \in Binaries \ {Image[u]} : bin[x] > 0 /\ bin[x] < bin[b]}
Newer(b, u) == {x \in Binaries \ {Image[u]} : bin[x] > bin[b]}
Prune(u) ==
    /\ up[u] = "prune" /\ Goes(u, "done")
    /\ bin' = [b \in Binaries |->
                  IF b # Image[u] /\ Cardinality(Newer(b, u)) >= KEEP_BINARIES - 1 THEN 0 ELSE bin[b]]
    /\ UNCHANGED <<manifest, previous, clock, stranded, raced>>

\* resolve, as the logger's fetch meets it: served when the file is there
Resolves(b) == bin[b] > 0

FirmwareInit == /\ bin = [b \in Binaries |-> 0] /\ manifest = None /\ previous = None
        /\ up = [u \in Uploads |-> "new"] /\ clock = 0 /\ stranded = FALSE /\ raced = FALSE
FirmwareNext == \E u \in Uploads : PutBinary(u) \/ PutManifest(u) \/ PutFails(u) \/ Prune(u)
FirmwareSpec == FirmwareInit /\ [][FirmwareNext]_firmwareVars

-----------------------------------------------------------------------------
(* Properties *)

\* "The manifest never names a file that is not complete on disk", whatever
\* step an upload dies at; and (R11) the binary of the manifest before it stays
\* servable, unless an upload died between its binary and its manifest.  Both
\* hold of uploads that follow one another: nothing in put() keeps two of them
\* apart, and the prune of one removes what the other is about to name.
ManifestServable ==
    ~raced => /\ manifest # None => Resolves(manifest)
              /\ previous # None /\ ~stranded => Resolves(previous)
=============================================================================
