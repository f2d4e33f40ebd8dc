----------------------------- MODULE FileSource -----------------------------
(***************************************************************************)
(* FileSource (crates/rag-pipeline/src/source/file_source.rs): the files   *)
(* below a path, depth first, with a stack of open directories that are    *)
(* read one entry at a time.  The entries of a directory come in any       *)
(* order; a directory may be unreadable, an entry may be neither a file    *)
(* nor a directory (a link), and reading may fail at any entry.            *)
(***************************************************************************)
EXTENDS Integers, Sequences, SequencesExt

CONSTANTS
  Root,       \* the path FileSource::new is given
  Files,
  EntriesOf   \* the entries of every directory, a function

Dirs    == DOMAIN EntriesOf
Entries == Dirs \cup Files \cup UNION {EntriesOf[d] : d \in Dirs}

ASSUME TreeAssumption ==
  /\ Root \in Dirs \cup Files /\ Dirs \cap Files = {}
  /\ \A d \in Dirs : Root \notin EntriesOf[d]
  /\ \A d, e \in Dirs : d # e => EntriesOf[d] \cap EntriesOf[e] = {}

VARIABLES
  dirStack,   \* the open directories, and the entries each has left
  pending,    \* pending_files
  source,     \* "open", "ended" (next() has returned None) or "failed" (an Err)
  yielded,    \* history: the records next() has returned
  skipped     \* history: the entries passed over

sourceVars == <<dirStack, pending, source, yielded, skipped>>

Opened(d) == [dir |-> d, left |-> EntriesOf[d]]

InitSource ==
  /\ dirStack = IF Root \in Dirs THEN <<Opened(Root)>> ELSE <<>>
  /\ pending = IF Root \in Files THEN <<Root>> ELSE <<>>
  /\ source = "open" /\ yielded = <<>> /\ skipped = {}

\* A queued file is returned before another entry is read.
Yield ==
  /\ source = "open" /\ pending # <<>>
  /\ yielded' = Append(yielded, Head(pending))
  /\ pending' = Tail(pending)
  /\ UNCHANGED <<dirStack, source, skipped>>

Exhausted ==
  /\ source = "open" /\ pending = <<>> /\ dirStack = <<>>
  /\ source' = "ended"
  /\ UNCHANGED <<dirStack, pending, yielded, skipped>>

Reading == source = "open" /\ pending = <<>> /\ dirStack # <<>>
Top     == Last(dirStack)

\* The directory is popped, and pushed back without the entry that was read.
WithoutEntry(e) == Append(Front(dirStack), [Top EXCEPT !.left = @ \ {e}])

FileEntry(e) ==
  /\ Reading /\ e \in Top.left \cap Files
  /\ dirStack' = WithoutEntry(e) /\ pending' = Append(pending, e)
  /\ UNCHANGED <<source, yielded, skipped>>

\* Mutant: the directory that was read is not pushed back.
DirEntryForgets(e) ==
  /\ Reading /\ e \in Top.left \cap Dirs
  /\ dirStack' = Append(Front(dirStack), Opened(e))
  /\ UNCHANGED <<pending, source, yielded, skipped>>

DirEntry(e) ==
  /\ Reading /\ e \in Top.left \cap Dirs
  /\ dirStack' = Append(WithoutEntry(e), Opened(e))
  /\ UNCHANGED <<pending, source, yielded, skipped>>

\* A directory that cannot be opened, a link: the loop goes on.
EntrySkipped(e) ==
  /\ Reading /\ e \in Top.left \ Files
  /\ dirStack' = WithoutEntry(e) /\ skipped' = skipped \cup {e}
  /\ UNCHANGED <<pending, source, yielded>>

DirDone ==
  /\ Reading /\ Top.left = {}
  /\ dirStack' = Front(dirStack)
  /\ UNCHANGED <<pending, source, yielded, skipped>>

\* next_entry fails: the directory stays popped.
NextEntryFails ==
  /\ Reading
  /\ dirStack' = Front(dirStack) /\ source' = "failed"
  /\ UNCHANGED <<pending, yielded, skipped>>

\* file_type fails: the directory is back on the stack, without the entry.
FileTypeFails(e) ==
  /\ Reading /\ e \in Top.left
  /\ dirStack' = WithoutEntry(e) /\ source' = "failed"
  /\ UNCHANGED <<pending, yielded, skipped>>

ReadEntry ==
  Reading /\ \E e \in Top.left : FileEntry(e) \/ DirEntry(e) \/ EntrySkipped(e)

SourceFails ==
  Reading /\ (NextEntryFails \/ \E e \in Top.left : FileTypeFails(e))

-----------------------------------------------------------------------------
\* What a set of entries that is read to its end has: the entries of its directories.
Closed(S) == \A d \in S \cap Dirs : EntriesOf[d] \subseteq S

\* An entry and everything below it: the least closed set that has it.
Within[e \in Entries] ==
  {x \in Entries : \A S \in SUBSET Entries : e \in S /\ Closed(S) => x \in S}

\* The files below some entries.
Below(S) == Files \cap UNION {Within[e] : e \in S}

Found == ToSet(yielded) \cup ToSet(pending)
Ahead == UNION {Below(dirStack[k].left) : k \in DOMAIN dirStack}

\* No file is returned twice, and every file below the path has been returned, is
\* queued or is still ahead, in what an open directory has left, unless it is below
\* a directory that could not be opened: whatever the order of the entries, and until
\* an error drops the rest.  The open directories are a path from the root, and at
\* most one file is queued (file_source.rs:85-106).
EveryFileOnce ==
  /\ IsInjective(yielded \o pending) /\ Found \cap Ahead = {}
  /\ source # "failed" => Below({Root}) = Found \cup Ahead \cup Below(skipped)
  /\ Len(pending) <= 1
  /\ \A k \in 2..Len(dirStack) :
       dirStack[k].dir \in EntriesOf[dirStack[k - 1].dir] \ dirStack[k - 1].left
=============================================================================
