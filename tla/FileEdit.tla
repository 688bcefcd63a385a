------------------------------ MODULE FileEdit ------------------------------
(***************************************************************************)
(* The file editor of the agent (orchestrator/extensions/file): the        *)
(* commands of the editor tool and the <file_edit> tag (edit.py), the      *)
(* policy that allows them (policy/) and the versions that undo goes back  *)
(* to (history.py).                                                        *)
(*                                                                         *)
(* None is also a file that is not there.  The agent uses its tools one at *)
(* a time, so a command is one step.                                       *)
(***************************************************************************)
EXTENDS FileTexts

CONSTANTS
  Paths, NameOf,    \* the last component of a path
  FirstDisks,       \* what may be on disk to begin with
  FileCommands,     \* what the agent may ask for
  Policies,         \* of a CompositeFileAccessPolicy: [operations, blocked, allowed]
  CallbackOutcomes, \* of on_file_changed: "none", "format", "raise"
  MaxViewLines, MaxText, MaxEdits

\* A disk says of every path what is there; every path has a name; a command is
\* about one path.
ASSUME FilesAssumption ==
  /\ MaxEdits \in Nat
  /\ \A first \in FirstDisks : DOMAIN first = Paths
  /\ \A p \in Paths : NameOf[p] # ""
  /\ \A c \in FileCommands : c.path \in Paths

\* What is on disk is a text; a command brings texts, the number of a line or
\* numbered lines.
ASSUME CommandsAssumption ==
  /\ \A first \in FirstDisks : \A p \in Paths : first[p] \in Seq(Characters) \cup {None}
  /\ \A c \in FileCommands :
       /\ c.command \in {"create", "createTag", "str_replace", "replaceTag", "insert", "insertTag",
                         "delete", "view", "undo"}
       /\ c.command = "create" => c.text \in Seq(Characters)
       /\ c.command = "str_replace" => c.old \in Seq(Characters)
       /\ c.command = "insert" => c.line \in Int
       /\ c.command \in {"str_replace", "insert"} => c.new \in Seq(Characters)
       /\ c.command \in {"createTag", "replaceTag", "insertTag"} => c.numbered \in NumberedLines
       /\ c.command \in {"replaceTag", "insertTag"} => c.find \in NumberedLines

VARIABLES
  disk,             \* Paths -> text or None
  history,          \* Paths -> backups, the latest last
  backups,          \* backup file -> text or None
  saved,            \* history variable: what was saved for each entry of history
  result,           \* of the last command: [of, ok, callback, hint]
  edits

fileVars == <<disk, history, backups, saved, result, edits>>

Dot == <<"", 0>>                 \* Path(), which exists: it is a directory
BackupFiles == {NameOf[p] : p \in Paths} \X (0..MaxEdits)

-----------------------------------------------------------------------------
\* RegularExpressionAccessPolicy._check_path: a policy has nothing to say of an
\* operation it does not cover; what it blocks comes before what it allows, and no
\* list of what it allows is everything.  (A pattern is the paths it matches.)
PolicyAllows(policy, operation, p) ==
  \/ operation \notin policy.operations
  \/ p \notin policy.blocked /\ (policy.allowed = {} \/ p \in policy.allowed)

\* Mutant: one policy that allows it is enough.
AllowedBySome(operation, p) == \E policy \in Policies : PolicyAllows(policy, operation, p)

\* _check_policy, CompositeFileAccessPolicy: all policies must allow it.
Allowed(operation, p) == \A policy \in Policies : PolicyAllows(policy, operation, p)

OperationOf(c) ==
  CASE c.command \in {"create", "createTag"} -> "create"
    [] c.command = "delete" -> "delete"
    [] c.command = "view" -> "read"
    [] OTHER -> "update"

\* What a command makes of the file, None if it raises: a new file is made where
\* there is none, and every other command wants one.
Created(c) ==
  CASE c.command = "create" -> c.text
    [] c.command = "createTag" ->
         IF Consecutive(c.numbered, 1) THEN Join(Unnumbered(c.numbered)) ELSE None

Edited(c) ==
  LET t == IF disk[c.path] = None THEN None ELSE AsRead(disk[c.path])
  IN  CASE c.command \in {"create", "createTag"} -> IF t = None THEN Created(c) ELSE None
        [] t = None /\ c.command \notin {"create", "createTag"} -> None
        [] t # None /\ c.command = "str_replace" -> StrReplaced(t, c.old, c.new)
        [] t # None /\ c.command = "replaceTag" -> NumberedReplaced(t, c.find, c.numbered)
        [] t # None /\ c.command = "insert" -> InsertedAt(t, c.line, Lines(c.new))
        [] t # None /\ c.command = "insertTag" -> InsertedAfter(t, c.find, c.numbered)

\* _on_file_changed: a callback with side effects may rewrite the file; one that
\* raises makes an error of an operation that is done.
Formatted(t, outcome) ==
  IF t # None /\ outcome = "format" THEN RemoveEmptyLines(t) ELSE t

\* on_after_tool_use_result tells the agent why it failed; it is told the truth,
\* for nothing comes between the error and the telling.
Respond(c, ok, callback, hint) ==
  result' = [of |-> c, ok |-> ok, callback |-> callback, hint |-> hint]

Denied(c) ==
  /\ c.command # "undo"
  /\ ~Allowed(OperationOf(c), c.path)
  /\ Respond(c, FALSE, "none", "denied")
  /\ UNCHANGED <<disk, history, backups, saved, edits>>

\* Mutant: one backup for every name.
OneBackupOf(p) == IF disk[p] = None THEN Dot ELSE <<NameOf[p], 0>>

\* save_state: the backup is called by the name of the file and the number of
\* its versions.
BackupOf(p) == IF disk[p] = None THEN Dot ELSE <<NameOf[p], Len(history[p])>>
SaveState(p) ==
  /\ history' = [history EXCEPT ![p] = Append(@, BackupOf(p))]
  /\ backups' = IF disk[p] = None THEN backups
                ELSE [backups EXCEPT ![BackupOf(p)] = disk[p]]
  /\ saved' = [saved EXCEPT ![p] = Append(@, disk[p])]

Changed(c, text) ==
  \E callback \in CallbackOutcomes :
    /\ disk' = [disk EXCEPT ![c.path] = Formatted(text, callback)]
    /\ Respond(c, callback # "raise", callback, IF callback = "raise" THEN "failed" ELSE None)

\* The commands that make or change a file.
Edit(c) ==
  /\ c.command \notin {"view", "undo", "delete"}
  /\ Allowed(OperationOf(c), c.path)
  /\ edits < MaxEdits /\ edits' = edits + 1
  /\ SaveState(c.path)
  /\ LET text == Edited(c)
     IN  IF text = None
         THEN disk' = disk /\ Respond(c, FALSE, "none", "failed")
         ELSE Len(text) <= MaxText /\ Changed(c, text)

Delete(c) ==
  /\ c.command = "delete"
  /\ Allowed("delete", c.path)
  /\ edits < MaxEdits /\ edits' = edits + 1
  /\ SaveState(c.path)
  /\ IF disk[c.path] = None
     THEN disk' = disk /\ Respond(c, FALSE, "none", "failed")
     ELSE Changed(c, None)

View(c) ==
  /\ c.command = "view"
  /\ Allowed("read", c.path)
  /\ LET shown == disk[c.path] # None
                    /\ Viewed(AsRead(disk[c.path]), c.first, c.last, MaxViewLines) # None
     IN  Respond(c, shown, "none", IF shown THEN None ELSE "failed")
  /\ UNCHANGED <<disk, history, backups, saved, edits>>

\* undo takes the last version off the history before it looks whether it can be
\* restored; the policy is not asked.
Undo(c) ==
  /\ c.command = "undo"
  /\ LET p    == c.path
         last == Last(history[p])
     IN  IF history[p] = <<>>
         THEN /\ Respond(c, FALSE, "none", "failed")
              /\ UNCHANGED <<disk, history, backups, saved>>
         ELSE /\ history' = [history EXCEPT ![p] = Front(@)]
              /\ saved' = [saved EXCEPT ![p] = Front(@)]
              /\ IF last = Dot \/ backups[last] = None
                 THEN /\ Respond(c, FALSE, "none", "failed")
                      /\ UNCHANGED <<disk, backups>>
                 ELSE /\ backups' = [backups EXCEPT ![last] = None]
                      /\ Changed(c, backups[last])
  /\ UNCHANGED edits

FileInit ==
  /\ disk \in FirstDisks
  /\ history = [p \in Paths |-> <<>>]
  /\ backups = [b \in BackupFiles |-> None]
  /\ saved = history
  /\ result = [of |-> [command |-> "none"], ok |-> TRUE, callback |-> "none", hint |-> None]
  /\ edits = 0

FileNext == \E c \in FileCommands : Denied(c) \/ Edit(c) \/ Delete(c) \/ View(c) \/ Undo(c)

-----------------------------------------------------------------------------
FileTypeOK ==
  /\ DOMAIN disk = Paths /\ DOMAIN backups = BackupFiles
  /\ history \in [Paths -> Seq(BackupFiles \cup {Dot})]
  /\ DOMAIN saved = Paths /\ \A p \in Paths : saved[p] \in Seq(ToSet(saved[p]))
  /\ edits \in 0..MaxEdits

OnlyName(p) == \A q \in Paths : NameOf[q] = NameOf[p] => q = p

\* An undo puts back the text that the last command on this path found, whatever
\* was edited, undone and deleted in between (if there was a file then, and no
\* callback rewrites it): as long as no other path ends in the same name
\* (history.py, save_state and undo).
UndoRestoresOwnName ==
  [][LET p == result'.of.path
     IN  (/\ result'.of.command = "undo" /\ history' # history
          /\ OnlyName(p) /\ Last(saved[p]) # None)
           => result'.callback # "none" \/ (result'.ok /\ disk'[p] = Last(saved[p]))]_fileVars

\* A replacement changes what it was asked to find and, but for the ends of lines,
\* nothing else: up to the blanks of blank lines the file is what was read of it
\* with the new text in the place of the old; and where whole lines are replaced,
\* every other line is the very line that was read, its blanks included.  A file
\* whose lines end in CR or CR NL has all of them end in NL after it (utils.py,
\* replace_in_file).
ReplaceKeepsRest ==
  [][LET c    == result'.of
         old  == AsRead(disk[c.path])
         find == RemoveEmptyLines(c.old)
         text == RemoveEmptyLines(old)
         i    == CHOOSE n \in Occurrences(find, text) : TRUE
         cut  == LineCount(SubSeq(text, 1, i - 1))
         rest == Len(Lines(old)) - cut - LineCount(find) - 1
         new  == Lines(disk'[c.path])
     IN  (c.command = "str_replace" /\ result'.ok /\ result'.callback = "none") =>
           /\ RemoveEmptyLines(disk'[c.path]) = RemoveEmptyLines(Splice(text, i, find, c.new))
           /\ IsFullLineMatch(text, find, i) =>
                /\ SubSeq(new, 1, cut) = SubSeq(Lines(old), 1, cut)
                /\ SubSeq(new, Len(new) - rest + 1, Len(new))
                     = SubSeq(Lines(old), Len(Lines(old)) - rest + 1, Len(Lines(old)))]_fileVars

\* A file that one policy locks, whatever the others allow, stays as it was, although
\* undo asks no policy: it finds no version of it (edit.py, _on_undo).
Locked(p) ==
  \E policy \in Policies : \A operation \in {"create", "update", "delete"} :
    ~PolicyAllows(policy, operation, p)

LockedFilesKept ==
  \A p \in Paths : Locked(p) => \E first \in FirstDisks : disk[p] = first[p]
=============================================================================
