---------------------------- MODULE ArtifactStaging ----------------------------
(***************************************************************************)
(* Staging of release artifacts (src/src/local/artifacts.rs).              *)
(*                                                                         *)
(* An upload writes files into a directory of its own and at its commit    *)
(* verifies them, renames the directory to the digest of its manifest and  *)
(* records the set; then all but the newest sets are dropped.  An update   *)
(* that succeeded consumes its set at any time, without the upload's lock. *)
(* The agent may stop between any two steps, also while a directory is     *)
(* being removed.  A digest is the content it was made from; manifests and *)
(* signatures are looked up by their content.                              *)
(***************************************************************************)
EXTENDS Integers, Sequences, FiniteSets, SequencesExt, Functions

CONSTANTS
    StagingLoads,       \* uploads, manifests, keys and what may fail; see AsInit
    MaxFiles,           \* MAX_FILES
    MaxFileSize,        \* MAX_FILE_BYTES, in chunks
    MaxSetSize,         \* MAX_SET_BYTES
    MaxSets,            \* MAX_COMMITTED_SETS
    Lifetime            \* SET_LIFETIME_SECONDS

ASSUME StagingAssumption == {MaxFiles, MaxFileSize, MaxSetSize, MaxSets, Lifetime} \subseteq Nat

VARIABLES
    dirs,       \* committed directories: digest -> (name -> content)
    drafts,     \* upload directories: stage id -> (name -> content)
    setRows,       \* the records, oldest first: id, digest, files, key, expires
    up,         \* the upload that holds the lock
    eats,       \* consumptions that run: digest -> next step
    uploadResults,       \* upload -> its result
    keyFile,    \* release-keys.json: ok, pinned, revoked
    asNow, asFaults,
    raced,      \* history: digests consumed while they were staged
    asLoad

asVars == <<dirs, drafts, setRows, up, eats, uploadResults, keyFile, asNow, asFaults, raced, asLoad>>

Give(f, x, v) == [y \in DOMAIN f \cup {x} |-> IF y = x THEN v ELSE f[y]]
Take(f, s) == [y \in DOMAIN f \ s |-> f[y]]
NoFiles == [x \in {} |-> <<>>]
NoUpload == [at |-> "idle"]

-----------------------------------------------------------------------------
(* The checks.                                                              *)

TEST_RELEASE_KEY_IDS == {"test"}

\* No link, the right owner and mode, not too large.
read_release_keys == keyFile.ok
parse_release_keys ==
    /\ keyFile.pinned # {} /\ keyFile.revoked \subseteq keyFile.pinned
    /\ asLoad.trustTest \/ TEST_RELEASE_KEY_IDS \cap keyFile.pinned = {}

file_name_ok(name) == name \in {"manifest.json", "manifest.sig.json"} \/ name \in asLoad.binaries
IsBinary(name) == name \notin {"manifest.json", "manifest.sig.json"}

manifest_shape_ok(m) == m \in DOMAIN asLoad.manifests /\ asLoad.manifests[m].canonical

\* The plan-free checks of a set, in their order; "" if it passes.
verify_staged(files, digest, staged) ==
    LET m == files["manifest.json"]
        s == files["manifest.sig.json"]
        sig == asLoad.signatures[s]
    IN  IF ~read_release_keys \/ ~parse_release_keys THEN "release_keys_invalid"
        ELSE IF m # digest THEN "E_EXEC_PRECONDITION"
        ELSE IF ~manifest_shape_ok(m) \/ s \notin DOMAIN asLoad.signatures THEN "E_ARTIFACT_UNTRUSTED"
        ELSE IF \/ sig.key \notin keyFile.pinned \ keyFile.revoked
                \/ ~asLoad.trustTest /\ sig.key \in TEST_RELEASE_KEY_IDS
                \/ sig.over # m THEN "E_ARTIFACT_UNTRUSTED"
        ELSE IF \E n \in staged : n \notin DOMAIN asLoad.manifests[m].entries \/ files[n] # asLoad.manifests[m].entries[n]
             THEN "E_EXEC_PRECONDITION" ELSE ""

\* Every file of the upload is in the directory that is there, the same.
verify_existing_files(dir, files) == \A i \in DOMAIN files : files[i].name \in DOMAIN dir /\ dir[files[i].name] = files[i].digest

\* Unexpired sets, and whether an update may be installed from one.
sets == {i \in DOMAIN setRows : setRows[i].expires > asNow}
staged(d) == (\E i \in sets : setRows[i].digest = d) /\ d \in DOMAIN dirs

-----------------------------------------------------------------------------
AsInit ==
    /\ asLoad \in StagingLoads
    /\ dirs = NoFiles /\ drafts = NoFiles /\ setRows = <<>> /\ up = NoUpload /\ eats = NoFiles /\ uploadResults = NoFiles
    /\ keyFile = asLoad.keys /\ asNow = 0 /\ asFaults = 0 /\ raced = {}

Upload == asLoad.uploads[up.which]
ThisDigest == Upload[1].digest
StageId == Upload[1].id
Breaks == asFaults < asLoad.faults /\ asFaults' = asFaults + 1

\* The lock is free or the upload is refused; the header is checked against
\* the host and the history, and its directory begins empty.
stage_begins ==
    /\ \E w \in DOMAIN asLoad.uploads \ DOMAIN uploadResults :
         LET h == asLoad.uploads[w][1] IN
         /\ up.at # "idle" => up.which # w
         /\ IF \/ up.at # "idle" \/ h.t # "header" \/ h.arch # "this" \/ \E i \in DOMAIN setRows : setRows[i].id = h.id
            THEN uploadResults' = Give(uploadResults, w, "refused") /\ UNCHANGED <<up, drafts>>
            ELSE /\ up' = [at |-> "frames", which |-> w, frame |-> 2, files |-> <<>>, open |-> 0, got |-> <<>>, created |-> FALSE, doomed |-> <<>>]
                 /\ drafts' = Give(drafts, h.id, NoFiles) /\ UNCHANGED uploadResults
    /\ UNCHANGED <<dirs, setRows, eats, keyFile, asNow, asFaults, raced, asLoad>>

\* Its result is known: the lock is released, and its directory removed
\* unless the commit moved it.
Returns(result) ==
    /\ up' = NoUpload /\ uploadResults' = Give(uploadResults, up.which, result)
    /\ drafts' = IF up.created THEN drafts ELSE Take(drafts, {StageId})

\* A file name of the set that was not seen yet, within the limits.
begin_file(f) ==
    /\ file_name_ok(f.name) /\ ~\E i \in DOMAIN up.files : up.files[i].name = f.name
    /\ Len(up.files) < MaxFiles /\ f.size <= MaxFileSize
\* The open file has the size and the digest it was announced with.
finish_file == up.open = 0 \/ (Len(up.got) = up.files[up.open].size /\ up.got = up.files[up.open].digest)
SetSize(files) == FoldLeft(LAMBDA n, f : n + f.size, 0, files)
Finished == IF up.open = 0 THEN drafts[StageId] ELSE Give(drafts[StageId], up.files[up.open].name, up.got)

\* One frame; the end of the stream before the commit is an error.
stage_frame ==
    /\ up.at = "frames"
    /\ LET over == up.frame > Len(Upload)
           f == Upload[up.frame]
           next == [up EXCEPT !.frame = @ + 1]
       IN  IF over \/ f.t = "header" THEN Returns("refused")
           ELSE IF f.t = "file" THEN
                IF ~finish_file \/ SetSize(Append(up.files, f)) > MaxSetSize \/ ~begin_file(f) THEN Returns("refused")
                ELSE /\ up' = [next EXCEPT !.files = Append(@, f), !.open = Len(up.files) + 1, !.got = <<>>]
                     /\ drafts' = [drafts EXCEPT ![StageId] = Finished] /\ UNCHANGED uploadResults
           ELSE IF f.t = "chunk" THEN
                IF up.open = 0 \/ (up.open # 0 /\ Len(up.got) + Len(f.data) > up.files[up.open].size) THEN Returns("refused")
                ELSE up' = [next EXCEPT !.got = @ \o f.data] /\ UNCHANGED <<drafts, uploadResults>>
           ELSE IF ~finish_file THEN Returns("refused")
                ELSE up' = [up EXCEPT !.at = "verify"] /\ drafts' = [drafts EXCEPT ![StageId] = Finished] /\ UNCHANGED uploadResults
    /\ UNCHANGED <<dirs, setRows, eats, keyFile, asNow, asFaults, raced, asLoad>>

Draft == drafts[StageId]
stage_verifies ==
    /\ up.at = "verify"
    /\ IF ~({"manifest.json", "manifest.sig.json"} \subseteq DOMAIN Draft) THEN Returns("refused")
       ELSE IF verify_staged(Draft, ThisDigest, {n \in DOMAIN Draft : IsBinary(n)}) # "" THEN Returns("refused")
       ELSE up' = [up EXCEPT !.at = "place"] /\ UNCHANGED <<drafts, uploadResults>>
    /\ UNCHANGED <<dirs, setRows, eats, keyFile, asNow, asFaults, raced, asLoad>>

\* Mutant: what has the name already is taken for the same.
stage_places_unverified ==
    /\ up.at = "place"
    /\ IF ThisDigest \in DOMAIN dirs THEN up' = [up EXCEPT !.at = "record"] /\ UNCHANGED <<dirs, drafts, uploadResults>>
       ELSE /\ dirs' = Give(dirs, ThisDigest, Draft) /\ drafts' = Take(drafts, {StageId})
            /\ up' = [up EXCEPT !.at = "record", !.created = TRUE] /\ UNCHANGED uploadResults
    /\ UNCHANGED <<setRows, eats, keyFile, asNow, asFaults, raced, asLoad>>

\* A set that is there is compared and kept, else the upload takes its name.
stage_places ==
    /\ up.at = "place"
    /\ IF ThisDigest \in DOMAIN dirs
       THEN IF verify_existing_files(dirs[ThisDigest], up.files)
            THEN up' = [up EXCEPT !.at = "record"] /\ UNCHANGED <<dirs, drafts, uploadResults>>
            ELSE Returns("refused") /\ UNCHANGED dirs
       ELSE /\ dirs' = Give(dirs, ThisDigest, Draft) /\ drafts' = Take(drafts, {StageId})
            /\ up' = [up EXCEPT !.at = "record", !.created = TRUE] /\ UNCHANGED uploadResults
    /\ UNCHANGED <<setRows, eats, keyFile, asNow, asFaults, raced, asLoad>>

\* One transaction: the rows of the digest are replaced.  If it fails, a
\* directory that this upload made is removed again.
replace_staged_set(row) == Append(SelectSeq(setRows, LAMBDA r : r.digest # row.digest), row)
stage_records ==
    /\ up.at = "record"
    /\ \/ /\ setRows' = replace_staged_set([id |-> StageId, digest |-> ThisDigest, files |-> up.files, expires |-> asNow + Lifetime])
          /\ up' = [up EXCEPT !.at = "prune"] /\ UNCHANGED <<asFaults, dirs, drafts, uploadResults>>
       \/ /\ Breaks /\ UNCHANGED setRows
          /\ dirs' = IF up.created THEN Take(dirs, {ThisDigest}) ELSE dirs
          /\ Returns("failed")
    /\ raced' = IF ThisDigest \in DOMAIN eats THEN raced \cup {ThisDigest} ELSE raced
    /\ UNCHANGED <<eats, keyFile, asNow, asLoad>>

\* The newest live sets are kept.  The others go one by one, first the row
\* and then, if no row uses it, the directory.
Doomed ==
    LET live == {i \in DOMAIN setRows : setRows[i].expires > asNow}
        kept == {i \in live : Cardinality({j \in live : j > i}) < MaxSets}
    IN  SelectSeq(Reverse([i \in DOMAIN setRows |-> <<i, setRows[i].digest>>]), LAMBDA x : x[1] \notin kept)
prune_lists ==
    /\ up.at = "prune" /\ up' = [up EXCEPT !.at = "row", !.doomed = [i \in DOMAIN Doomed |-> Doomed[i][2]]]
    /\ UNCHANGED <<dirs, drafts, setRows, eats, uploadResults, keyFile, asNow, asFaults, raced, asLoad>>
prune_row ==
    /\ up.at = "row"
    /\ IF up.doomed = <<>> THEN Returns("staged") /\ UNCHANGED <<setRows, asFaults>>
       ELSE \/ /\ setRows' = SelectSeq(setRows, LAMBDA r : r.digest # Head(up.doomed)) /\ up' = [up EXCEPT !.at = "dir"]
               /\ UNCHANGED <<uploadResults, drafts, asFaults>>
            \/ Breaks /\ Returns("staged") /\ UNCHANGED setRows
    /\ UNCHANGED <<dirs, eats, keyFile, asNow, raced, asLoad>>

\* remove_dir_all removes the files and then the directory.
Half(dir) == [n \in {x \in DOMAIN dir : x = "manifest.json"} |-> dir[n]]
prune_dir ==
    /\ up.at \in {"dir", "dir2"}
    /\ LET d == Head(up.doomed)
           used == \E i \in DOMAIN setRows : setRows[i].digest = d
           next == [up EXCEPT !.at = "row", !.doomed = Tail(@)]
       IN  IF used \/ d \notin DOMAIN dirs THEN up' = next /\ UNCHANGED dirs
           ELSE IF up.at = "dir" THEN up' = [up EXCEPT !.at = "dir2"] /\ dirs' = [dirs EXCEPT ![d] = Half(@)]
           ELSE up' = next /\ dirs' = Take(dirs, {d})
    /\ UNCHANGED <<drafts, setRows, eats, uploadResults, keyFile, asNow, asFaults, raced, asLoad>>

-----------------------------------------------------------------------------
\* An update from the set succeeded (an execution of the agent): its rows
\* go and then its directory, whatever an upload does.
consumed ==
    /\ asLoad.consumes
    /\ \E d \in {setRows[i].digest : i \in DOMAIN setRows} \ DOMAIN eats :
         /\ eats' = Give(eats, d, "rows")
         /\ raced' = IF up.at \in {"place", "record"} /\ ThisDigest = d THEN raced \cup {d} ELSE raced
    /\ UNCHANGED <<dirs, drafts, setRows, up, uploadResults, keyFile, asNow, asFaults, asLoad>>
consumed_step ==
    /\ \E d \in DOMAIN eats :
         \/ /\ eats[d] = "rows" /\ setRows' = SelectSeq(setRows, LAMBDA r : r.digest # d)
            /\ eats' = [eats EXCEPT ![d] = "files"] /\ UNCHANGED <<dirs, asFaults>>
         \/ eats[d] = "rows" /\ Breaks /\ eats' = Take(eats, {d}) /\ UNCHANGED <<setRows, dirs>>
         \/ /\ eats[d] = "files" /\ UNCHANGED <<setRows, asFaults>>
            /\ IF d \in DOMAIN dirs THEN dirs' = [dirs EXCEPT ![d] = Half(@)] /\ eats' = [eats EXCEPT ![d] = "dir"]
               ELSE UNCHANGED dirs /\ eats' = Take(eats, {d})
         \/ eats[d] = "dir" /\ dirs' = Take(dirs, {d}) /\ eats' = Take(eats, {d}) /\ UNCHANGED <<setRows, asFaults>>
    /\ raced' = raced \cup {d \in DOMAIN eats : up.at \in {"place", "record"} /\ ThisDigest = d}
    /\ UNCHANGED <<drafts, up, uploadResults, keyFile, asNow, asLoad>>

\* The agent stops and starts.  Nothing on the disk is looked at.
staging_restarts ==
    /\ (up.at # "idle" \/ eats # NoFiles) /\ Breaks
    /\ uploadResults' = IF up.at = "idle" THEN uploadResults ELSE Give(uploadResults, up.which, "lost")
    /\ up' = NoUpload /\ eats' = NoFiles
    /\ UNCHANGED <<dirs, drafts, setRows, keyFile, asNow, raced, asLoad>>

\* External: the key file is replaced.
keys_change ==
    /\ keyFile # asLoad.newKeys /\ keyFile' = asLoad.newKeys
    /\ UNCHANGED <<dirs, drafts, setRows, up, eats, uploadResults, asNow, asFaults, raced, asLoad>>
as_clock ==
    /\ asNow < asLoad.end /\ asNow' = asNow + 1
    /\ UNCHANGED <<dirs, drafts, setRows, up, eats, uploadResults, keyFile, asFaults, raced, asLoad>>

AsNext ==
    \/ stage_begins \/ stage_frame \/ stage_verifies \/ stage_places \/ stage_records \/ prune_lists \/ prune_row \/ prune_dir
    \/ consumed \/ consumed_step \/ staging_restarts \/ keys_change \/ as_clock

-----------------------------------------------------------------------------
\* What admission takes for a staged set is one: its directory is there with
\* every file of its record, whole, its manifest under its own digest and a
\* signature over it, and every binary the manifest's.  A set that was
\* consumed while it was staged again is the exception: the removal takes
\* the new record's files (staged, stage, consumed).
StagedIsWhole ==
    \A i \in sets :
        LET r == setRows[i] IN
        (staged(r.digest) /\ r.digest \notin raced) =>
            /\ \A k \in DOMAIN r.files : r.files[k].name \in DOMAIN dirs[r.digest] /\ dirs[r.digest][r.files[k].name] = r.files[k].digest
            /\ dirs[r.digest]["manifest.json"] = r.digest
            /\ asLoad.signatures[dirs[r.digest]["manifest.sig.json"]].over = r.digest
            /\ \A n \in DOMAIN dirs[r.digest] : IsBinary(n) => dirs[r.digest][n] = asLoad.manifests[r.digest].entries[n]

\* A record's directory is there: no failed upload, no failed write of the
\* records and no stop of the agent takes it away (stage: "a failed database
\* write must preserve it"), and only one row names it.
RowsHaveFiles ==
    /\ \A i \in DOMAIN setRows : setRows[i].digest \in DOMAIN dirs \/ setRows[i].digest \in raced
    /\ \A i, j \in DOMAIN setRows : (setRows[i].digest = setRows[j].digest \/ setRows[i].id = setRows[j].id) => i = j

\* There are no more sets than the limit, but for the one whose staging was
\* interrupted before it pruned; and no upload directory is left by an
\* upload that ended (prune, UploadDir).
StagingBounded ==
    /\ (asFaults = 0 /\ up.at \in {"idle", "frames"}) => Len(setRows) <= MaxSets
    /\ \A d \in DOMAIN drafts : (up.at # "idle" /\ StageId = d) \/ \E w \in DOMAIN uploadResults : uploadResults[w] = "lost" /\ asLoad.uploads[w][1].id = d

StagingHolds == StagedIsWhole /\ RowsHaveFiles /\ StagingBounded
===============================================================================
