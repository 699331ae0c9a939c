------------------------------ MODULE AgentFiles ------------------------------
(***************************************************************************)
(* The files of an analysis cycle as a session sees them: virtual paths,    *)
(* what a session may write, and the operations of the workspace file       *)
(* system with the Copilot adapter before it.  No state: a disk is a        *)
(* function from the locations that exist in the cycle's directory to       *)
(* their entries.                                                          *)
(*                                                                         *)
(* A location is the sequence of its names below the cycle's directory, a   *)
(* path the sequence of the texts between its separators, its first one ""  *)
(* when it is absolute.  Nothing here makes a symbolic link.                *)
(***************************************************************************)
EXTENDS Naturals, Sequences, FiniteSets, SequencesExt, Selections

Backslashed == "\\"  \* a name with a backslash in it
Gap == ""  \* the text before a leading separator, and between two
Unnamed == {Gap, "."}

DirEntry == [kind |-> "dir", text |-> <<>>]
FileEntry(text) == [kind |-> "file", text |-> text]

-----------------------------------------------------------------------------
(* Paths *)

\* The components of a path: separators collapse and "." names nothing.
Components(path) == Kept(path, {i \in DOMAIN path : path[i] \notin Unnamed})

\* A path is rooted at /workspace and never leaves it.
IsVirtual(path) ==
  /\ Backslashed \notin ToSet(path) /\ ".." \notin ToSet(path)
  /\ path # <<>> /\ path[1] # "."
  /\ Components(path) # <<>> /\ Components(path)[1] = "workspace"

Below(path) == Tail(Components(path))

IsProviderState(location) ==
  Len(location) >= 2 /\ location[1] = "analysis" /\ location[2] = ".copilot"

\* Where a path that is written to is; nowhere when it may not be.
ResolveWritten(path) ==
  {Below(path) : p \in {q \in {path} : IsVirtual(q) /\ Below(q) # <<>>
                                         /\ Below(q)[1] \in {"analysis", "handoffs"}}}

\* Where a path that is read is: here, or in an earlier cycle of the workspace.
ResolveRead(path, cycle) ==
  LET below == Below(path)
      past == SubSeq(below, 3, Len(below))
  IN IF ~IsVirtual(path) THEN {}
     ELSE IF below = <<>> \/ below[1] # "history" THEN {[cycle |-> cycle, at |-> below]}
     ELSE IF Len(below) = 1 THEN {[cycle |-> "", at |-> <<>>]}
     ELSE IF below[2] = cycle \/ IsProviderState(past) THEN {}
     ELSE {[cycle |-> below[2], at |-> past]}

LifecycleNotes ==
  {<<"workspace", "analysis", "findings.md">>, <<"workspace", "analysis", "supersession.md">>,
   <<"workspace", "handoffs", "checkpoint.md">>}

\* A path without its leading separators.
Trimmed(path) ==
  LET names == {i \in DOMAIN path : path[i] # Gap}
      first == CHOOSE i \in names : \A j \in names : i <= j
  IN IF names = {} THEN <<>> ELSE SubSeq(path, first, Len(path))

\* What a session may write: its attempt's directory, its state and its notes.
SessionMayWrite(path, attempt) ==
  LET trimmed == Trimmed(path)
  IN /\ ToSet(path) \intersect {Backslashed, ".", ".."} = {}
     /\ \/ IsPrefix(<<"workspace", "analysis", "attempts", attempt>>, trimmed)
        \/ IsPrefix(<<"workspace", "analysis", ".copilot">>, trimmed)
        \/ trimmed \in LifecycleNotes

\* A sealed or suspended workspace takes nothing but the provider's own state.
StillWritable(location, lease) ==
  lease.attempt # {} /\ (lease.writable \/ IsProviderState(location))

-----------------------------------------------------------------------------
(* Operations: a disk to the disks that follow, none when it fails *)

Parents(location) == {SubSeq(location, 1, n) : n \in 1..(Len(location) - 1)}

Exists(disk, location) == location = <<>> \/ location \in DOMAIN disk
IsDirectory(disk, location) ==
  location = <<>> \/ (location \in DOMAIN disk /\ disk[location].kind = "dir")
IsRegular(disk, location) == location \in DOMAIN disk /\ disk[location].kind = "file"

Inside(location, directory) == IsPrefix(directory, location)

\* The parents of a location can be made, as none of them is a file.
ParentsFit(disk, location) == \A p \in Parents(location) : ~IsRegular(disk, p)

\* A disk with the directories a location needs, and with an entry there.
WithParents(disk, location) ==
  [l \in DOMAIN disk \union Parents(location) |->
     IF l \in DOMAIN disk THEN disk[l] ELSE DirEntry]

\* Entries over a disk.
Over(entries, disk) ==
  [l \in DOMAIN entries \union DOMAIN disk |->
     IF l \in DOMAIN entries THEN entries[l] ELSE disk[l]]

With(disk, location, entry) ==
  Over([l \in {location} |-> entry], WithParents(disk, location))

WriteText(disk, location, text) ==
  {With(disk, location, FileEntry(text)) :
     x \in {d \in {disk} : ParentsFit(d, location) /\ ~IsDirectory(d, location)}}

AppendText(disk, location, text) ==
  LET before == IF IsRegular(disk, location) THEN disk[location].text ELSE <<>>
  IN WriteText(disk, location, before \o text)

CreateDirectory(disk, location, recursive) ==
  {With(disk, location, DirEntry) :
     x \in {d \in {disk} :
              IF recursive THEN ParentsFit(d, location) /\ ~IsRegular(d, location)
              ELSE /\ ~Exists(d, location)
                   /\ \A p \in Parents(location) : IsDirectory(d, p)}}

Without(disk, location) ==
  [l \in {k \in DOMAIN disk : ~Inside(k, location)} |-> disk[l]]

RemoveEntry(disk, location, recursive, force) ==
  LET inside == {l \in DOMAIN disk : l # location /\ Inside(l, location)}
  IN IF ~Exists(disk, location) THEN {disk : x \in {f \in {force} : f /\ ParentsFit(disk, location)}}
     ELSE {Without(disk, location) :
             x \in {d \in {disk} : recursive \/ IsRegular(d, location) \/ inside = {}}}

\* A file moves over a file, a directory with all that is in it over an empty one.
MayReplace(disk, source, target) ==
  /\ Exists(disk, source)
  /\ IF IsRegular(disk, source) THEN ~IsDirectory(disk, target)
     ELSE /\ ~IsRegular(disk, target) /\ ~Inside(target, source)
          /\ \A l \in DOMAIN disk : Inside(l, target) => l = target

Moved(disk, source, target) ==
  LET At(l) == target \o SubSeq(l, Len(source) + 1, Len(l))
      moved == {l \in DOMAIN disk : Inside(l, source)}
  IN [to \in {At(l) : l \in moved} |-> disk[CHOOSE l \in moved : At(l) = to]]

\* The directories of the target are made first, and stay when the move fails.
RenameEntry(disk, source, target) ==
  {IF source # target /\ MayReplace(d, source, target)
   THEN Over(Moved(d, source, target), Without(d, source)) ELSE d :
     d \in {WithParents(e, target) : e \in {f \in {disk} : ParentsFit(f, target)}}}

ReadText(disk, location) ==
  {disk[l].text : l \in {k \in {location} : IsRegular(disk, k)}}

-----------------------------------------------------------------------------
(* What a session does to the files through the SDK's file system *)

\* Slip: a rename checks only where it moves to.
TargetOf(edit) == {edit.path : p \in {q \in {edit} : q.op # "rename"}}
                    \union {edit.target : p \in {q \in {edit} : q.op = "rename"}}

\* The paths an edit writes to; a rename takes its source away.
PathsOf(edit) == {edit.path} \union {edit.target : p \in {q \in {edit} : q.op = "rename"}}

Permitted(edit, attempt, lease) ==
  \A path \in PathsOf(edit) :
    /\ SessionMayWrite(path, attempt)
    /\ \E location \in ResolveWritten(path) : StillWritable(location, lease)

Outcome(disk, edit) ==
  LET at == Below(edit.path)
  IN CASE edit.op = "write" -> WriteText(disk, at, <<edit.item>>)
       [] edit.op = "append" -> AppendText(disk, at, <<edit.item>>)
       [] edit.op = "mkdir" -> CreateDirectory(disk, at, edit.recursive)
       [] edit.op = "rm" -> RemoveEntry(disk, at, edit.recursive, edit.force)
       [] edit.op = "rename" -> RenameEntry(disk, at, Below(edit.target))

\* The disks an edit of a session can leave: none when it is refused or fails.
Edited(disk, edit, attempt, lease) ==
  UNION {Outcome(disk, edit) : x \in {e \in {edit} : Permitted(e, attempt, lease)}}
=============================================================================
