----------------------------- MODULE MediaCard -----------------------------
(***************************************************************************)
(* The SD card as its component and the media rules see it: which paths    *)
(* name something, what is there, and what each operation of               *)
(* nn20clock_sd.c refuses.  A path is the sequence of its components; the  *)
(* empty one is the root folder, as "" is in the code.                     *)
(***************************************************************************)
EXTENDS Naturals, SequencesExt

CONSTANTS Names,      \* file and folder names that are safe components
          Clips,      \* those with the suffix of a film or a sound
          PathMax     \* components of the longest path the device carries

ASSUME CardAssumption == /\ Clips \subseteq Names
                         /\ PathMax \in Nat \ {0}

Root == << >>
Paths == UNION {[1 .. n -> Names] : n \in 0 .. PathMax}

(* nn20clock_media_path_is_safe: the root is a place but not a file.       *)
PathIsSafe(path, kind) == path \in Paths /\ (path = Root => kind = "folder")

(* nn20clock_media_path_resolve takes one component at a time: "." stays,  *)
(* ".." drops one and is refused at the root, a name is appended if it is  *)
(* safe and fits.  Refused is no path.                                     *)
Refused == <<"..">>

Enter(path, component) ==
  IF path = Refused \/ component = "." THEN path
  ELSE IF component = ".." THEN IF path = Root THEN Refused ELSE Front(path)
  ELSE IF component \in Names /\ Len(path) < PathMax
       THEN Append(path, component)
       ELSE Refused

Resolve(base, input) ==
  FoldLeft(Enter, IF input.absolute THEN Root ELSE base, input.components)

(* A path's folder, and its parts.                                         *)
Parent(path) == IF path = Root THEN Root ELSE Front(path)
NameOf(path) == Last(path)
IsWithin(path, folder) == IsPrefix(folder, path)

(* What is at a path.  whole tells a complete file from one that an upload *)
(* has begun or left behind; the card itself does not know the difference. *)
Entries == [kind : {"none", "folder", "file"}, hidden : BOOLEAN, whole : BOOLEAN]
Nothing == [kind |-> "none", hidden |-> FALSE, whole |-> FALSE]
Folder  == [kind |-> "folder", hidden |-> FALSE, whole |-> TRUE]
File(whole) == [kind |-> "file", hidden |-> FALSE, whole |-> whole]

Exists(card, path)   == path \in Paths /\ card[path].kind # "none"
IsFolder(card, path) == path \in Paths /\ card[path].kind = "folder"
IsFile(card, path)   == path \in Paths /\ card[path].kind = "file"
IsEmpty(card, path)  ==
  \A other \in Paths : Parent(other) = path /\ other # Root => ~Exists(card, other)

(* What is on a card is in folders, all the way up to the root.            *)
IsTree(card) ==
  /\ IsFolder(card, Root)
  /\ \A path, above \in Paths :
       IsStrictPrefix(above, path) /\ Exists(card, path) => IsFolder(card, above)

(* Opening for writing creates the file or cuts it to nothing.             *)
CanOpenWrite(card, path) ==
  PathIsSafe(path, "file") /\ ~IsFolder(card, path) /\ IsFolder(card, Parent(path))
OpenWrite(card, path) == [card EXCEPT ![path] = File(FALSE)]

CanDeleteFile(card, path) == PathIsSafe(path, "file") /\ IsFile(card, path)
DeleteFile(card, path) == [card EXCEPT ![path] = Nothing]

CanMakeFolder(card, path) ==
  path # Root /\ PathIsSafe(path, "folder") /\ ~Exists(card, path)
    /\ IsFolder(card, Parent(path))
MakeFolder(card, path) == [card EXCEPT ![path] = Folder]

\* fault: a folder goes with what is in it still there
CanDeleteFull(card, path) == path # Root /\ IsFolder(card, path)

CanDeleteFolder(card, path) ==
  path # Root /\ IsFolder(card, path) /\ IsEmpty(card, path)
DeleteFolder(card, path) == [card EXCEPT ![path] = Nothing]

(* A rename moves whatever is below a folder with it, and overwrites       *)
(* nothing.  That a folder does not go below itself is the file system's   *)
(* answer; that nothing below it goes deeper than PathMax is a bound of    *)
(* the model.                                                              *)
Moved(path, from, to) == to \o SubSeq(path, Len(from) + 1, Len(path))
CanRename(card, from, to) ==
  /\ from # Root /\ to # Root
  /\ Exists(card, from) /\ PathIsSafe(to, "folder") /\ ~Exists(card, to)
  /\ IsFolder(card, Parent(to)) /\ ~IsWithin(to, from)
  /\ \A path \in Paths : IsWithin(path, from) /\ Exists(card, path)
                           => Moved(path, from, to) \in Paths
Rename(card, from, to) ==
  [path \in Paths |->
    IF IsWithin(path, from) THEN Nothing
    ELSE IF IsWithin(path, to) /\ Moved(path, to, from) \in Paths
         THEN card[Moved(path, to, from)]
         ELSE card[path]]

CanHide(card, path) == path # Root /\ Exists(card, path)
SetHidden(card, path, hidden) == [card EXCEPT ![path].hidden = hidden]

(* nn20clock_sd_list_media and nn20clock_media_list_counts: what is not    *)
(* hidden in one folder, counted by what a picker can offer.               *)
Listed(card, folder) ==
  {path \in Paths : path # Root /\ Parent(path) = folder
                      /\ Exists(card, path) /\ ~card[path].hidden}
Counts(card, folder) ==
  LET listed == Listed(card, folder)
      files == {path \in listed : IsFile(card, path)}
  IN [folders |-> Cardinality(listed \ files),
      clips   |-> Cardinality({path \in files : NameOf(path) \in Clips}),
      others  |-> Cardinality({path \in files : NameOf(path) \notin Clips})]
============================================================================
