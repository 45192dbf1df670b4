---------------------------- MODULE StoreCatalog ----------------------------
(***************************************************************************)
(* The catalog of managed stores, internal/storecatalog: directories below *)
(* one root, each a store once it holds a manifest.  The catalog has no    *)
(* lock and no state but the file system; the actors that call it are the  *)
(* handlers of the web server and commands in other processes.             *)
(*                                                                         *)
(* Creating a store is a sequence of file operations, between any two of   *)
(* which another actor may step, and the last of which may fail.  Left     *)
(* out: the listing of stores, which changes nothing, symbolic links,      *)
(* unreadable files, and stores removed by hand.                           *)
(***************************************************************************)
EXTENDS Naturals

CONSTANTS Actor,       \* handlers and processes
          Store,       \* directories that may be stores
          Parent,      \* store -> the directory it is in (Nil: the root)
          Managed,     \* the stores below the root; others are given by path
          WritesFail,  \* whether the text of a new manifest may not be written
          Nil          \* nobody, nothing

ASSUME StoreAssumption ==
    /\ Managed \subseteq Store
    /\ Parent \in [Store -> Managed \union {Nil}]
    /\ \A s \in Store \ Managed : Parent[s] = Nil
ASSUME CatalogAssumption == WritesFail \in BOOLEAN /\ Nil \notin Store

VARIABLES
    entry,     \* store -> what is at its path: nothing, a directory, a file
    file,      \* store -> its manifest: none, empty (or cut short), fresh
               \*          from a creation, used by a namespace
    creation   \* actor -> the creation it is in

catalogVars == <<entry, file, creation>>

-----------------------------------------------------------------------------
(* Paths *)

Entry    == {"none", "dir", "file"}
Manifest == {"none", "empty", "fresh", "used"}

\* The directories on the way from the root to a store, the store included: the
\* least set that holds it and is closed under Parent.
Path ==
    [s \in Store |->
        {d \in Store : \A D \in SUBSET Store :
            s \in D /\ (\A e \in D : Parent[e] \in D \union {Nil}) => d \in D}]

\* No directory is below itself.
ASSUME TreeAssumption == \A s \in Store : Parent[s] # Nil => s \notin Path[Parent[s]]

\* The first of the segments still to come.
First(segments) == CHOOSE d \in segments : Parent[d] \notin segments

-----------------------------------------------------------------------------
(* Reading *)

\* Catalog.Inspect: a path below a plain file is not one that does not exist.
Inspect(s) ==
    CASE \E d \in Path[s] : entry[d] = "file"       -> "invalid"
      [] entry[s] = "none"                          -> "missing"
      [] entry[s] = "dir" /\ file[s] = "none"       -> "empty"
      [] entry[s] = "dir" /\ file[s] = "empty"      -> "invalid"
      [] entry[s] = "dir" /\ file[s] \notin {"none", "empty"} -> "valid"

-----------------------------------------------------------------------------
(* Catalog.Create *)

CreationStep == {"none", "look", "mkdir", "open", "write", "done", "failed"}

\* store: the one to create; segments: the directories on the way still to make.
Creation   == [step: CreationStep, store: Store \union {Nil}, segments: SUBSET Store]
NoCreation == [step |-> "none", store |-> Nil, segments |-> {}]

\* resolveName has accepted the name: it is that of a managed store.
BeginCreation(a, s) ==
    creation' = [creation EXCEPT ![a] =
                    [step |-> "look", store |-> s, segments |-> Path[s]]]

GoOn(a, step) == creation' = [creation EXCEPT ![a].step = step]

\* makeManagedPath has seen that the next directory is there, or has made it.
NextSegment(a) ==
    LET left == creation[a].segments \ {First(creation[a].segments)}
    IN  creation' = [creation EXCEPT ![a].segments = left,
                                     ![a].step = IF left = {} THEN "open" ELSE "look"]

\* Lstat of the next segment.
Lstat(a) ==
    /\ creation[a].step = "look"
    /\ LET found == entry[First(creation[a].segments)]
       IN  \/ found = "none" /\ GoOn(a, "mkdir")
           \/ found = "dir"  /\ NextSegment(a)
           \/ found = "file" /\ GoOn(a, "failed")
    /\ UNCHANGED <<entry, file>>

\* Mkdir fails when the directory has been made since Lstat: the creation that
\* lost the race ends with an error.
Mkdir(a) ==
    /\ creation[a].step = "mkdir"
    /\ LET d == First(creation[a].segments)
       IN  IF entry[d] = "none"
           THEN entry' = [entry EXCEPT ![d] = "dir"] /\ NextSegment(a)
           ELSE GoOn(a, "failed") /\ UNCHANGED entry
    /\ UNCHANGED file

\* Mutant: O_TRUNC in the place of O_EXCL.
TruncateManifest(a) ==
    /\ creation[a].step = "open"
    /\ file' = [file EXCEPT ![creation[a].store] = "empty"]
    /\ GoOn(a, "write")
    /\ UNCHANGED entry

\* O_CREATE|O_EXCL: a manifest that exists, in whatever state, is left alone, and
\* the creation has succeeded.
OpenManifest(a) ==
    /\ creation[a].step = "open"
    /\ LET s == creation[a].store
       IN  IF file[s] = "none"
           THEN file' = [file EXCEPT ![s] = "empty"] /\ GoOn(a, "write")
           ELSE GoOn(a, "done") /\ UNCHANGED file
    /\ UNCHANGED entry

\* The text goes into the file that was opened.  If the manifest of a namespace
\* has been renamed over it, that is no longer the file at the store's path.
WriteManifest(a) ==
    /\ creation[a].step = "write"
    /\ file' = [file EXCEPT ![creation[a].store] = IF @ = "empty" THEN "fresh" ELSE @]
    /\ GoOn(a, "done")
    /\ UNCHANGED entry

WriteManifestFails(a) ==
    /\ creation[a].step = "write"
    /\ WritesFail
    /\ GoOn(a, "failed")
    /\ UNCHANGED <<entry, file>>

CreationStepOf(a) ==
    \/ Lstat(a) \/ Mkdir(a) \/ OpenManifest(a)
    \/ WriteManifest(a) \/ WriteManifestFails(a)

-----------------------------------------------------------------------------
(* Store calls, as far as the catalog sees them; see module Store *)

\* loadManifest takes no manifest for an empty one, and fails on a damaged one.
Loads(s) == file[s] # "empty"

\* lockExclusive makes the directories that are missing; saveManifest renames a
\* complete manifest into place.
SaveManifest(s) ==
    /\ entry' = [d \in Store |-> IF d \in Path[s] THEN "dir" ELSE entry[d]]
    /\ file' = [file EXCEPT ![s] = "used"]
=============================================================================
