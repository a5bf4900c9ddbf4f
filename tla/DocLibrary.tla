----------------------------- MODULE DocLibrary ------------------------------
(***************************************************************************)
(* The document library (docs/ingest/library.py) and what is retrieved     *)
(* from it.                                                                *)
(*                                                                         *)
(* A library directory holds three things: the sources that were uploaded  *)
(* (pdfs/), a manifest that says of each name which version was indexed    *)
(* and how it is tagged (index.json), and the chunks the retriever answers *)
(* from (chunks.jsonl).  An operation reads the last two, works file by    *)
(* file, and writes first the chunks and then the manifest, each through a *)
(* temporary file; nothing locks the directory, and a process may be       *)
(* killed between any two of its steps.  A version stands for the content  *)
(* of a file, and its digest; a document has one chunk.                    *)
(***************************************************************************)
EXTENDS Naturals, Sequences, FiniteSets, SequencesExt

CONSTANTS
    Names,       \* file names
    Versions,    \* contents
    Platforms,   \* canonical platform keys
    Family,      \* Family[p]: the keys of p's family, p among them
    Uploads,     \* the lists of files one add may be given
    Procs,       \* processes that may work on the library
    MaxOps,      \* bound: operations begun, and changes by hand
    None, Torn   \* no file; a file cut off while it was written

Uploadable == Names \X Versions

Tags == SUBSET Platforms               \* {}: platform-neutral
Chunks == [title : Names, version : Versions, tags : Tags]
Entries == [version : Versions, ok : BOOLEAN, tags : Tags]

(* What the constants must satisfy, assumed by Memory                     *)
LibraryAssumption ==
    /\ Family \in [Platforms -> SUBSET Platforms]
    /\ \A p \in Platforms : p \in Family[p]
    /\ Uploads \subseteq Seq(Uploadable)
    /\ IsFiniteSet(Names)
    /\ MaxOps \in Nat
    /\ \A cs \in SUBSET Chunks : cs # None /\ cs # Torn

VARIABLES
    pdfs,         \* pdfs[n]: the version uploaded under the name n
    manifest,     \* index.json: a function of names to entries, or Torn
    chunks,       \* chunks.jsonl: a set of chunks, or Torn
    manifestTmp,  \* index.tmp, shared by the processes
    chunksTmp,    \* chunks.tmp
    work,         \* what each process is doing
    ops,          \* operations begun, and changes by hand
    hurt,         \* names an operation was cut off on, and none has redone since
    removed       \* names removed, and not uploaded since

disk == <<manifest, chunks, manifestTmp, chunksTmp>>
vars == <<pdfs, disk, work, ops, hurt, removed>>

Idle == [at |-> "idle"]

Init ==
    /\ pdfs = [n \in Names |-> None]
    /\ manifest = [n \in Names |-> None]
    /\ chunks = {}
    /\ manifestTmp = None /\ chunksTmp = None
    /\ work = [p \in Procs |-> Idle]
    /\ ops = 0
    /\ hurt = {} /\ removed = {}

-----------------------------------------------------------------------------
(* Retrieval.                                                              *)

(* A run answers from the chunks there are; a library that is empty or that *)
(* cannot be read leaves it without documents, never without a diagnosis.   *)
RunRetrieves == IF chunks = Torn THEN {} ELSE chunks

(* What a query may return on a platform: neutral chunks and those tagged   *)
(* for its family.                                                          *)
Eligible(platform) ==
    {c \in RunRetrieves : c.tags = {} \/ c.tags \cap Family[platform] # {}}

-----------------------------------------------------------------------------
(* An operation begins: it reads the manifest and the chunks.  A file that  *)
(* does not parse raises before anything is done.                           *)

At(p, where) == work[p].at = where
Go(p, w) == work' = [work EXCEPT ![p] = w]

Readable == manifest # Torn /\ chunks # Torn

(* gone: what a remove took out of pdfs/ and nobody has put back by hand.   *)
Job(kind, files, tags, force) ==
    [at |-> "file", kind |-> kind, files |-> files, gone |-> {}, tags |-> tags,
     force |-> force, manifest |-> manifest, cached |-> chunks, fresh |-> {}, touched |-> {}]

BeginOp(p) ==
    /\ At(p, "idle") /\ ops < MaxOps /\ Readable
    /\ ops' = ops + 1

(* add: a few uploads, tagged alike; one name may come from two directories. *)
Add(p) ==
    /\ BeginOp(p)
    /\ \E files \in Uploads, tags \in Tags : Go(p, Job("add", files, tags, FALSE))
    /\ UNCHANGED <<pdfs, disk, hurt, removed>>

(* reindex: every file of pdfs/, in one order of names.                     *)
Present == {n \in Names : pdfs[n] # None}

Reindex(p) ==
    /\ BeginOp(p)
    /\ \E force \in BOOLEAN :
          Go(p, Job("reindex", [i \in DOMAIN SetToSeq(Present) |-> <<SetToSeq(Present)[i], None>>],
                    {}, force))
    /\ UNCHANGED <<pdfs, disk, hurt, removed>>

(* remove: the entry is dropped, then the file, then the chunks, which are  *)
(* not read before the file is gone.                                        *)
RemoveDoc(p) ==
    /\ BeginOp(p)
    /\ \E n \in Names :
          /\ manifest[n] # None \/ pdfs[n] # None
          /\ Go(p, [Job("remove", <<>>, {}, FALSE) EXCEPT
                       !.at = "unlink", !.touched = {n}, !.manifest[n] = None])
    /\ UNCHANGED <<pdfs, disk, hurt, removed>>

(* retag: in place, in the manifest and in the cached chunks.               *)
Retagged(entry, tags) == [entry EXCEPT !.tags = tags]

Retag(p) ==
    /\ BeginOp(p)
    /\ \E n \in Names, tags \in Tags :
          /\ manifest[n] # None
          /\ Go(p, [Job("retag", <<>>, {}, FALSE) EXCEPT
                       !.at = "chunks",
                       !.manifest[n] = Retagged(manifest[n], tags),
                       !.cached = {IF c.title = n THEN Retagged(c, tags) ELSE c : c \in chunks}])
    /\ UNCHANGED <<pdfs, disk, hurt, removed>>

-----------------------------------------------------------------------------
(* One file of add or reindex.  A file whose digest the manifest knows is   *)
(* skipped, unless its last parse failed.                                   *)

Unchanged(w, n, v) ==
    /\ ~w.force
    /\ w.manifest[n] # None
    /\ w.manifest[n].version = v /\ w.manifest[n].ok

(* The file an operation is at: its own upload, or what lies in pdfs/.      *)
Current(p) == Head(work[p].files)[1]
Found(p) == IF work[p].kind = "add" THEN Head(work[p].files)[2] ELSE pdfs[Current(p)]
AtFile(p) == At(p, "file") /\ work[p].files # <<>>

Skip(p) ==
    /\ AtFile(p) /\ Found(p) # None
    /\ Unchanged(work[p], Current(p), Found(p))
    /\ Go(p, [work[p] EXCEPT !.files = Tail(@)])
    /\ UNCHANGED <<pdfs, disk, ops, hurt, removed>>

(* Copy the upload in, parse it, and enter the outcome; a parse that fails  *)
(* leaves an entry with its error.  reindex passes no tag on.               *)
Index(p) ==
    /\ AtFile(p) /\ Found(p) # None
    /\ ~Unchanged(work[p], Current(p), Found(p))
    /\ LET w == work[p]
           n == Current(p)
           indexed == [title |-> n, version |-> Found(p), tags |-> w.tags]
       IN /\ pdfs' = [pdfs EXCEPT ![n] = Found(p)]
          /\ \E ok \in BOOLEAN :
                Go(p, [w EXCEPT
                    !.files = Tail(@),
                    !.touched = @ \cup {n},
                    !.fresh = IF ok THEN @ \cup {indexed} ELSE @,
                    !.manifest[n] = [version |-> Found(p), ok |-> ok, tags |-> w.tags]])
          /\ removed' = IF w.kind = "add" THEN removed \ {n} ELSE removed
    /\ UNCHANGED <<disk, ops, hurt>>

(* The file was there when pdfs/ was listed and is gone: reindex raises.    *)
Vanished(p) ==
    /\ AtFile(p) /\ Found(p) = None
    /\ Go(p, Idle)
    /\ UNCHANGED <<pdfs, disk, ops, hurt, removed>>

FilesDone(p) ==
    /\ At(p, "file") /\ work[p].files = <<>>
    /\ Go(p, IF work[p].touched = {} THEN Idle ELSE [work[p] EXCEPT !.at = "chunks"])
    /\ UNCHANGED <<pdfs, disk, ops, hurt, removed>>

KeepFile(n) == pdfs

DropFile(n) == [pdfs EXCEPT ![n] = None]

Unlink(p) ==
    /\ At(p, "unlink")
    /\ \E n \in work[p].touched : pdfs' = DropFile(n)
    /\ Go(p, [work[p] EXCEPT !.at = "load", !.gone = work[p].touched])
    /\ UNCHANGED <<disk, ops, hurt, removed>>

LoadChunks(p) ==
    /\ At(p, "load")
    /\ Go(p, [work[p] EXCEPT !.at = "chunks", !.cached = chunks])
    /\ UNCHANGED <<pdfs, disk, ops, hurt, removed>>

-----------------------------------------------------------------------------
(* Saving: chunks, then manifest, each written to a temporary file that     *)
(* takes the other's place.                                                 *)

OnlyFresh(w) == w.fresh

NewChunks(w) == {c \in w.cached : c.title \notin w.touched} \cup w.fresh

OpenChunks(p) ==
    /\ At(p, "chunks")
    /\ chunksTmp' = Torn
    /\ Go(p, [work[p] EXCEPT !.at = "chunks-write"])
    /\ UNCHANGED <<pdfs, manifest, chunks, manifestTmp, ops, hurt, removed>>

WriteChunks(p) ==
    /\ At(p, "chunks-write")
    /\ chunksTmp' = NewChunks(work[p])
    /\ Go(p, [work[p] EXCEPT !.at = "chunks-replace"])
    /\ UNCHANGED <<pdfs, manifest, chunks, manifestTmp, ops, hurt, removed>>

(* Another process may have taken the temporary file away: this one raises. *)
ReplaceChunks(p) ==
    /\ At(p, "chunks-replace")
    /\ chunks' = IF chunksTmp = None THEN chunks ELSE chunksTmp
    /\ chunksTmp' = None
    /\ Go(p, IF chunksTmp = None THEN Idle ELSE [work[p] EXCEPT !.at = "manifest"])
    /\ hurt' = IF chunksTmp = None THEN hurt \cup work[p].touched ELSE hurt
    /\ UNCHANGED <<pdfs, manifest, manifestTmp, ops, removed>>

OpenManifest(p) ==
    /\ At(p, "manifest")
    /\ manifestTmp' = Torn
    /\ Go(p, [work[p] EXCEPT !.at = "manifest-write"])
    /\ UNCHANGED <<pdfs, manifest, chunks, chunksTmp, ops, hurt, removed>>

WriteManifest(p) ==
    /\ At(p, "manifest-write")
    /\ manifestTmp' = work[p].manifest
    /\ Go(p, [work[p] EXCEPT !.at = "manifest-replace"])
    /\ UNCHANGED <<pdfs, manifest, chunks, chunksTmp, ops, hurt, removed>>

Redone(w) == IF w.kind = "retag" THEN {} ELSE w.touched

ReplaceManifest(p) ==
    /\ At(p, "manifest-replace") /\ manifestTmp # None
    /\ manifest' = manifestTmp
    /\ manifestTmp' = None
    /\ hurt' = hurt \ Redone(work[p])
    /\ removed' = removed \cup work[p].gone
    /\ Go(p, Idle)
    /\ UNCHANGED <<pdfs, chunks, chunksTmp, ops>>

(* A process is killed in the middle of an operation.                       *)
Touches(w) ==
    IF w.at = "idle" THEN {}
    ELSE IF w.kind = "retag" THEN {n \in Names : w.manifest[n] # manifest[n]}
    ELSE w.touched

Kill(p) ==
    /\ ~At(p, "idle")
    /\ hurt' = hurt \cup Touches(work[p])
    /\ Go(p, Idle)
    /\ UNCHANGED <<pdfs, disk, ops, removed>>

(* A file copied into pdfs/ by hand counts as an upload once reindexed; one *)
(* taken out by hand stays indexed.                                         *)
ByHand(n) ==
    /\ ops < MaxOps /\ ops' = ops + 1
    /\ \E v \in Versions \cup {None} : pdfs[n] # v /\ pdfs' = [pdfs EXCEPT ![n] = v]
    /\ removed' = removed \ {n}
    /\ work' = [p \in Procs |->
                  IF At(p, "idle") THEN Idle ELSE [work[p] EXCEPT !.gone = @ \ {n}]]
    /\ UNCHANGED <<disk, hurt>>

Step(p) ==
    \/ Skip(p) \/ Index(p) \/ Vanished(p) \/ FilesDone(p)
    \/ Unlink(p) \/ LoadChunks(p)
    \/ OpenChunks(p) \/ WriteChunks(p) \/ ReplaceChunks(p)
    \/ OpenManifest(p) \/ WriteManifest(p) \/ ReplaceManifest(p)

Next ==
    \/ \E p \in Procs : Add(p) \/ Reindex(p) \/ RemoveDoc(p) \/ Retag(p) \/ Step(p) \/ Kill(p)
    \/ \E n \in Names : ByHand(n)

Spec == Init /\ [][Next]_vars
-----------------------------------------------------------------------------
(* The shape of the state; a file is cut off only where it is written.      *)
TypeOK ==
    /\ pdfs \in [Names -> Versions \cup {None}]
    /\ manifest \in [Names -> Entries \cup {None}]
    /\ chunks \subseteq Chunks
    /\ manifestTmp \in {None, Torn} \/ manifestTmp \in [Names -> Entries \cup {None}]
    /\ chunksTmp \in {None, Torn} \/ chunksTmp \subseteq Chunks
    /\ hurt \subseteq Names /\ removed \subseteq Names

(* What the manifest says is indexed is found: the chunks of that version,  *)
(* with those tags, are there for a query on any platform they are tagged   *)
(* for -- whatever was added, retagged or removed beside it and wherever    *)
(* those operations were killed (library.py:156-314).  Only a document an   *)
(* operation was cut off on is excepted until it is indexed again.          *)
IndexedIsFound ==
    \A n \in Names \ hurt :
        (manifest[n] # None /\ manifest[n].ok /\ \A p \in Procs : n \notin Touches(work[p]))
            => LET c == [title |-> n, version |-> manifest[n].version, tags |-> manifest[n].tags]
               IN c \in chunks /\ \A platform \in c.tags : c \in Eligible(platform)

(* A document that was removed does not come back: neither a later reindex  *)
(* nor the end of another operation answers with it again, unless it is     *)
(* uploaded again (library.py:272-282).                                     *)
RemovedStaysGone ==
    \A n \in removed :
        /\ manifest[n] = None
        /\ \A c \in chunks : c.title # n

-----------------------------------------------------------------------------
(* prompts/02-model-tagged-rag.md:41: reindex and remove preserve the       *)
(* stored platform.                                                         *)
ReindexPreservesTags ==
    [][\A p \in Procs, n \in Names :
          (work[p].at = "manifest-replace" /\ ReplaceManifest(p) /\ work[p].kind = "reindex"
             /\ manifest[n] # None)
              => manifest'[n].tags = manifest[n].tags]_vars
=============================================================================
