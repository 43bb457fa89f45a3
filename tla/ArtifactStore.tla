---------------------------- MODULE ArtifactStore ----------------------------
(***************************************************************************)
(* Saving compiled bundles to one directory while others save to it and    *)
(* load from it: CompiledModule.save and load_compiled of                  *)
(* runtime/module.py over artifact_io.py.                                  *)
(*                                                                         *)
(* A bundle is its files and its integrity manifest; the content of a file *)
(* is the model it came from.  A process may die between any two system    *)
(* calls, which frees its flock and leaves its directories behind.         *)
(***************************************************************************)
EXTENDS Naturals, Sequences

CONSTANTS
  Writers,    \* processes that save a compiled model, each its own model
  Loaders,    \* processes that load the bundle
  Streaming,  \* the writers whose weights are streamed from a pack file
  Shared,     \* TRUE when the streaming models have one name and parameter list
  MaxSaves,   \* bound on the saves of one writer
  None

(* What _write puts in the staging directory, in its order. *)
Order == <<"exported", "pack", "portable", "specialized">>
Files == {Order[i] : i \in 1..Len(Order)}

VARIABLES
  pc,         \* of every process
  step,       \* position in Order
  lock,       \* holder of the publication lock, or None
  dest,       \* the bundle at the destination, or None
  stage,      \* writer -> its staging directory, or None
  backup,     \* writer -> its backup directory, or None
  left,       \* directories of dead processes: complete bundles set aside
  packs,      \* pack path -> the model whose weights the file holds
  seen,       \* reader -> the manifest it read
  saves,      \* writer -> saves begun
  replaced,   \* readers that had the directory replaced under them
  crashed,    \* some process died while publishing
  published   \* some save has returned or got past its publication

vars == <<pc, step, lock, dest, stage, backup, left, packs, seen, saves, replaced, crashed, published>>

Empty == [files |-> [f \in Files |-> None], manifest |-> None]

(* verify_integrity_manifest of a directory nobody is changing. *)
Verifies(b) == b # None /\ b.manifest # None /\ b.manifest = b.files

write_integrity_manifest(b) == [b EXCEPT !.manifest = b.files]

(* The path pack_state_dict writes: model name and hash of the names. *)
PackPath(w) == IF Shared THEN "pack" ELSE w

----------------------------------------------------------------------------
(* build_parameter_store of a compile writes the pack under the cache. *)
CompileStreaming(w) ==
  /\ pc[w] = "new"
  /\ pc' = [pc EXCEPT ![w] = "idle"]
  /\ packs' = IF w \in Streaming THEN [packs EXCEPT ![PackPath(w)] = w] ELSE packs
  /\ UNCHANGED <<step, lock, dest, stage, backup, left, seen, saves, replaced, crashed, published>>

(* atomic_replace_directory takes the lock and makes the stage. *)
Begin(w) ==
  /\ pc[w] = "idle" /\ saves[w] < MaxSaves
  /\ lock = None
  /\ lock' = w
  /\ stage' = [stage EXCEPT ![w] = Empty]
  /\ step' = [step EXCEPT ![w] = 1]
  /\ saves' = [saves EXCEPT ![w] = @ + 1]
  /\ pc' = [pc EXCEPT ![w] = "write"]
  /\ UNCHANGED <<dest, backup, left, packs, seen, replaced, crashed, published>>

(* Mutant: the manifest is written first, from the bundle being replaced. *)
ManifestFirst(w) ==
  /\ pc[w] = "write"
  /\ stage' = [stage EXCEPT ![w].files[Order[step[w]]] = w,
                            ![w].manifest = IF dest = None THEN @ ELSE dest.files]
  /\ step' = [step EXCEPT ![w] = @ + 1]
  /\ pc' = [pc EXCEPT ![w] = IF step[w] < Len(Order) THEN "write" ELSE "away"]
  /\ UNCHANGED <<lock, dest, backup, left, packs, seen, saves, replaced, crashed, published>>

(* _write: the files one by one, and the manifest over what was written.   *)
(* The pack is copied by path; a model without one has no pack file.       *)
WriteFile(w) ==
  LET f == Order[step[w]]
      v == IF f # "pack" THEN w ELSE IF w \in Streaming THEN packs[PackPath(w)] ELSE None
      b == [stage[w] EXCEPT !.files[f] = v]
      end == step[w] = Len(Order)
  IN  /\ pc[w] = "write"
      /\ stage' = [stage EXCEPT ![w] = IF end THEN write_integrity_manifest(b) ELSE b]
      /\ step' = [step EXCEPT ![w] = @ + 1]
      /\ pc' = [pc EXCEPT ![w] = IF end THEN "away" ELSE "write"]
      /\ UNCHANGED <<lock, dest, backup, left, packs, seen, saves, replaced, crashed, published>>

(* os.replace(destination, backup), when there is a destination. *)
MoveAway(w) ==
  /\ pc[w] = "away"
  /\ backup' = [backup EXCEPT ![w] = dest]
  /\ dest' = None
  /\ replaced' = IF dest = None THEN replaced ELSE {r \in Loaders : pc[r] # "idle"} \cup replaced
  /\ pc' = [pc EXCEPT ![w] = "publish"]
  /\ UNCHANGED <<step, lock, stage, left, packs, seen, saves, crashed, published>>

(* os.replace(stage, destination); when the fsync after it raises, the     *)
(* backup is neither restored nor removed.                                 *)
Publish(w) ==
  /\ pc[w] = "publish"
  /\ dest' = stage[w]
  /\ published' = TRUE
  /\ stage' = [stage EXCEPT ![w] = None]
  /\ \/ UNCHANGED <<backup, left>>
     \/ /\ left' = (left \cup {backup[w]}) \ {None}
        /\ backup' = [backup EXCEPT ![w] = None]
  /\ replaced' = {r \in Loaders : pc[r] # "idle"} \cup replaced
  /\ pc' = [pc EXCEPT ![w] = "finish"]
  /\ UNCHANGED <<step, lock, packs, seen, saves, crashed>>

(* Mutant: the failed publication leaves the old bundle set aside. *)
LeaveBackup(w) ==
  /\ pc[w] = "publish"
  /\ pc' = [pc EXCEPT ![w] = "finish"]
  /\ UNCHANGED <<dest, backup, step, lock, stage, left, packs, seen, saves, replaced, crashed, published>>

(* os.replace(stage, destination) raises: the old bundle is put back. *)
PublishFails(w) ==
  /\ pc[w] = "publish"
  /\ dest' = backup[w]
  /\ backup' = [backup EXCEPT ![w] = None]
  /\ pc' = [pc EXCEPT ![w] = "finish"]
  /\ UNCHANGED <<step, lock, stage, left, packs, seen, saves, replaced, crashed, published>>

(* writer(stage) raises, or the first os.replace does. *)
WriterFails(w) ==
  /\ pc[w] \in {"write", "away"}
  /\ pc' = [pc EXCEPT ![w] = "finish"]
  /\ UNCHANGED <<step, lock, dest, stage, backup, left, packs, seen, saves, replaced, crashed, published>>

(* The finally clause, and the lock's. *)
Finish(w) ==
  /\ pc[w] = "finish"
  /\ stage' = [stage EXCEPT ![w] = None]
  /\ backup' = [backup EXCEPT ![w] = None]
  /\ lock' = None
  /\ pc' = [pc EXCEPT ![w] = "idle"]
  /\ UNCHANGED <<step, dest, left, packs, seen, saves, replaced, crashed, published>>

(* The process dies holding the lock; what it had set aside stays. *)
Die(w) ==
  /\ lock = w
  /\ lock' = None
  /\ left' = (left \cup {backup[w]}) \ {None}
  /\ stage' = [stage EXCEPT ![w] = None]
  /\ backup' = [backup EXCEPT ![w] = None]
  /\ crashed' = TRUE
  /\ pc' = [pc EXCEPT ![w] = "dead"]
  /\ UNCHANGED <<step, dest, packs, seen, saves, replaced, published>>

----------------------------------------------------------------------------
(* load_compiled reads by path: the manifest, every file it lists, the     *)
(* listing of the directory, and then the exported program.                *)
ReadManifest(r) ==
  /\ pc[r] = "idle"
  /\ replaced' = replaced \ {r}
  /\ IF dest = None
     THEN pc' = [pc EXCEPT ![r] = "absent"] /\ UNCHANGED <<seen, step>>
     ELSE /\ seen' = [seen EXCEPT ![r] = dest.manifest]
          /\ step' = [step EXCEPT ![r] = 1]
          /\ pc' = [pc EXCEPT ![r] = IF dest.manifest = None THEN "rejected" ELSE "check"]
  /\ UNCHANGED <<lock, dest, stage, backup, left, packs, saves, crashed, published>>

Current(f) == IF dest = None THEN None ELSE dest.files[f]

CheckFile(r) ==
  LET f == Order[step[r]]
  IN  /\ pc[r] = "check"
      /\ pc' = [pc EXCEPT ![r] =
            IF seen[r][f] # None /\ Current(f) # seen[r][f] THEN "rejected"
            ELSE IF step[r] = Len(Order) THEN "scan" ELSE "check"]
      /\ step' = [step EXCEPT ![r] = @ + 1]
      /\ UNCHANGED <<lock, dest, stage, backup, left, packs, seen, saves, replaced, crashed, published>>

(* reject_unexpected_files *)
Scan(r) ==
  /\ pc[r] = "scan"
  /\ pc' = [pc EXCEPT ![r] = IF \E f \in Files : Current(f) # None /\ seen[r][f] = None
                             THEN "rejected" ELSE "load"]
  /\ UNCHANGED <<step, lock, dest, stage, backup, left, packs, seen, saves, replaced, crashed, published>>

Load(r) ==
  /\ pc[r] = "load"
  /\ pc' = [pc EXCEPT ![r] = IF Current("exported") = None THEN "absent" ELSE "loaded"]
  /\ UNCHANGED <<step, lock, dest, stage, backup, left, packs, seen, saves, replaced, crashed, published>>

(* The caller tries again. *)
Retry(r) ==
  /\ pc[r] \in {"rejected", "absent", "loaded"}
  /\ pc' = [pc EXCEPT ![r] = "idle"]
  /\ UNCHANGED <<step, lock, dest, stage, backup, left, packs, seen, saves, replaced, crashed, published>>

(* refresh_artifacts=True: after a load, the pack, the portable artifact    *)
(* and the specialization are written into the directory in place.         *)
Refresh(r) ==
  /\ pc[r] = "loaded" /\ dest # None
  /\ dest' = [dest EXCEPT !.files = [f \in Files |-> IF f = "exported" THEN @[f] ELSE r]]
  /\ pc' = [pc EXCEPT ![r] = "refreshed"]
  /\ UNCHANGED <<step, lock, stage, backup, left, packs, seen, saves, replaced, crashed, published>>

Init ==
  /\ pc = [p \in Writers \cup Loaders |-> IF p \in Writers THEN "new" ELSE "idle"]
  /\ step = [p \in Writers \cup Loaders |-> 1]
  /\ lock = None /\ dest = None
  /\ stage = [w \in Writers |-> None] /\ backup = [w \in Writers |-> None] /\ left = {}
  /\ packs = [p \in Writers \cup {"pack"} |-> None]
  /\ seen = [r \in Loaders |-> None]
  /\ saves = [w \in Writers |-> 0]
  /\ replaced = {} /\ crashed = FALSE /\ published = FALSE

Write(w) ==
  \/ CompileStreaming(w) \/ Begin(w) \/ WriteFile(w) \/ MoveAway(w) \/ Publish(w)
  \/ PublishFails(w) \/ WriterFails(w) \/ Finish(w) \/ Die(w)

Read(r) == ReadManifest(r) \/ CheckFile(r) \/ Scan(r) \/ Load(r) \/ Retry(r)

Next == (\E w \in Writers : Write(w)) \/ (\E r \in Loaders : Read(r))

Spec == Init /\ [][Next]_vars

RefreshNext == Next \/ \E r \in Loaders : Refresh(r)
RefreshSpec == Init /\ [][RefreshNext]_vars

----------------------------------------------------------------------------
(* "A failed save therefore cannot leave a partially updated production    *)
(* artifact.": once a bundle was published, the directory verifies when    *)
(* nobody is publishing, however many saves failed; while one publishes,   *)
(* or after one died doing it, a bundle that verifies is at least set      *)
(* aside.                                                                  *)
BundleSurvives ==
  published =>
    \/ Verifies(dest)
    \/ /\ lock # None \/ crashed
       /\ \E b \in left \cup {backup[w] : w \in Writers} : Verifies(b)

(* A load is refused only when the directory was replaced under it. *)
RejectedOnlyIfReplaced ==
  \A r \in Loaders : pc[r] = "rejected" => r \in replaced

(* A refreshed artifact can be loaded again: its files match the manifest. *)
(* docs/getting-started/quickstart.md: "Artifacts are versioned and        *)
(* checksummed. [...] Pass `refresh_artifacts=True` to write the new       *)
(* specialization back into the artifact dir."                             *)
RefreshedVerifies ==
  \A r \in Loaders : pc[r] = "refreshed" /\ lock = None => Verifies(dest)
=============================================================================
