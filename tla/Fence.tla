--------------------------------- MODULE Fence ---------------------------------
(***************************************************************************)
(* The workspace fence of the runner: how paths are normalised and         *)
(* classified against a FenceManifest, how the files that are admitted are *)
(* placed in the container, and the ceiling a resumed workspace is held    *)
(* to, which is decided on the strings and not on the normalised paths.    *)
(*                                                                         *)
(* A path string is the sequence of what lies between its slashes: "a/" is *)
(* <<"a", "">>, "/a" is <<"", "a">>, "" is <<"">>.                         *)
(***************************************************************************)
EXTENDS Integers, Sequences, FiniteSets

CONSTANTS
  PathSets,        \* the path_sets a fence may have: sets of path strings
  CandidateLists   \* what materialize_sparse is called with

PathString == Seq(STRING) \ {<<>>}

ASSUME FenceAssumption ==
  /\ \A paths \in PathSets : \A path \in paths : path \in PathString
  /\ \A candidates \in CandidateLists : candidates \in Seq(PathString)

VARIABLES
  originalFence,   \* the fence of the spawn, the ceiling of every resume
  liveFence,       \* the fence of the container
  fenceFiles,      \* the files in its workspace, as resolved paths
  fenceTodo,       \* candidates selected and not yet placed
  fencePhase

fenceVars == <<originalFence, liveFence, fenceFiles, fenceTodo, fencePhase>>

--------------------------------------------------------------------------------
(* enforce *)

Escape == <<"..">>     \* None

(* The elements of s that are not in dropped, in order. *)
Without(s, dropped) ==
  LET kept[n \in 0..Len(s)] == IF n = 0 THEN <<>>
                               ELSE IF s[n] \in dropped THEN kept[n - 1]
                               ELSE Append(kept[n - 1], s[n])
  IN  kept[Len(s)]

(* normalize_segments: absolute paths and parent components escape; empty and *)
(* current-directory components are dropped.                                  *)
NormalizeSegments(path) ==
  IF (path[1] = "" /\ Len(path) > 1) \/ (\E i \in DOMAIN path : path[i] = "..") THEN Escape
  ELSE Without(path, {"", "."})

StartsWith(path, prefix) == Len(path) >= Len(prefix) /\ SubSeq(path, 1, Len(prefix)) = prefix
EndsInSlash(entry) == Len(entry) > 1 /\ entry[Len(entry)] = ""

(* classify: a directory entry covers itself and what lies below, any other *)
(* entry itself; an entry that escapes covers nothing.                      *)
Classify(paths, path) ==
  LET segs == NormalizeSegments(path)
  IN  segs # Escape /\ \E entry \in paths :
        LET cover == NormalizeSegments(entry)
        IN  cover # Escape /\ IF EndsInSlash(entry) THEN StartsWith(segs, cover) ELSE segs = cover

(* check_access, is_admitted *)
IsAdmitted(fence, path) == Classify(fence.paths, path)

--------------------------------------------------------------------------------
(* materialize *)

FenceInit ==
  /\ originalFence \in [paths : PathSets, denyDefault : BOOLEAN] /\ liveFence = originalFence
  /\ fenceFiles = {} /\ fenceTodo = <<>> /\ fencePhase = "spawned"

(* validate_manifest: default-allow fences and entries that cover the root are refused. *)
ManifestValid(fence) == fence.denyDefault /\ \A entry \in fence.paths : NormalizeSegments(entry) # <<>>

SelectInFence(fence, candidates) ==
  Without(candidates, {path \in {candidates[i] : i \in DOMAIN candidates} : ~IsAdmitted(fence, path)})

MaterializeSparse(candidates) ==
  /\ fencePhase \in {"spawned", "resumed"}
  /\ IF ManifestValid(liveFence)
     THEN fenceTodo' = SelectInFence(liveFence, candidates) /\ fencePhase' = "placing"
     ELSE fenceTodo' = <<>> /\ fencePhase' = "refused"
  /\ UNCHANGED <<originalFence, liveFence, fenceFiles>>

(* A path without the segments s it begins with; the last segment stays. *)
TrimLeading(path, s) ==
  LET kept == {i \in 1..Len(path) : i = Len(path) \/ path[i] # s}
      first == CHOOSE i \in kept : \A j \in kept : i <= j
  IN  SubSeq(path, first, Len(path))

(* What is left of a path once leading "./" and then leading "/" are trimmed. *)
TrimStart(path) == TrimLeading(TrimLeading(path, "."), "")

(* place_file: one docker exec, which may fail.  The shell resolves what is  *)
(* left below the root; a path that names the root itself cannot be written. *)
PlaceFile ==
  LET path == Head(fenceTodo)
      rel == TrimStart(path)
  IN  /\ fencePhase = "placing" /\ fenceTodo # <<>>
      /\ \/ /\ NormalizeSegments(path) # Escape /\ rel # <<"">> /\ NormalizeSegments(rel) # <<>>
            /\ fenceFiles' = fenceFiles \cup {NormalizeSegments(rel)} /\ fenceTodo' = Tail(fenceTodo) /\ UNCHANGED fencePhase
         \/ fencePhase' = "broken" /\ fenceTodo' = <<>> /\ UNCHANGED fenceFiles
      /\ UNCHANGED <<originalFence, liveFence>>

MaterializeDone ==
  /\ fencePhase = "placing" /\ fenceTodo = <<>> /\ fencePhase' = "materialized"
  /\ UNCHANGED <<originalFence, liveFence, fenceFiles, fenceTodo>>

--------------------------------------------------------------------------------
(* resume_workspace *)

TrimEnd(entry) ==
  LET kept == {i \in 1..Len(entry) : i = 1 \/ entry[i] # ""}
      last == CHOOSE i \in kept : \A j \in kept : j <= i
  IN  SubSeq(entry, 1, last)

(* Mutant: what lies below a file's path is covered by it as well. *)
PathCoveredByFile(path, ceiling) ==
  /\ ~(path[1] = "" /\ Len(path) > 1) /\ \A i \in DOMAIN path : path[i] # ".."
  /\ \E entry \in ceiling : StartsWith(path, TrimEnd(entry))

(* path_covered_by, on the strings. *)
PathCoveredBy(path, ceiling) ==
  /\ ~(path[1] = "" /\ Len(path) > 1) /\ \A i \in DOMAIN path : path[i] # ".."
  /\ \E entry \in ceiling : IF EndsInSlash(entry) THEN StartsWith(path, TrimEnd(entry)) ELSE path = entry

ResumeUnder(fence) ==
  /\ fencePhase \in {"spawned", "materialized", "broken"}
  /\ IF \A path \in fence.paths : PathCoveredBy(path, originalFence.paths)
     THEN liveFence' = fence /\ fenceFiles' = {} /\ fencePhase' = "resumed"
     ELSE fencePhase' = "refused" /\ UNCHANGED <<liveFence, fenceFiles>>
  /\ fenceTodo' = <<>> /\ UNCHANGED originalFence

FenceNext ==
  \/ \E candidates \in CandidateLists : MaterializeSparse(candidates)
  \/ PlaceFile \/ MaterializeDone
  \/ \E paths \in PathSets : ResumeUnder([paths |-> paths, denyDefault |-> TRUE])

FenceSpec == FenceInit /\ [][FenceNext]_fenceVars

--------------------------------------------------------------------------------
(* probe_outside_enoent: nothing there, a directory above a file, or a file. *)
ProbeOutsideEnoent(path) ==
  LET at == NormalizeSegments(path)
  IN  CASE at \in fenceFiles -> "PRESENT_FILE"
        [] at \notin fenceFiles /\ (\E file \in fenceFiles : StartsWith(file, at)) -> "PRESENT_DIR"
        [] OTHER -> "ABSENT"

(* The fence is physical: whatever was placed, under the first fence or under *)
(* that of a resume, lies inside the original fence and inside the live one,  *)
(* however the paths and the entries were spelt; and no file is found at a    *)
(* path outside the live fence, however that path is spelt.                   *)
FenceHolds ==
  /\ \A file \in fenceFiles : Classify(originalFence.paths, file) /\ Classify(liveFence.paths, file)
  /\ fenceFiles # {} => \A path \in UNION PathSets :
       NormalizeSegments(path) # Escape /\ ~IsAdmitted(liveFence, path) => ProbeOutsideEnoent(path) # "PRESENT_FILE"
================================================================================
